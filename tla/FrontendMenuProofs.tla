-------------------------- MODULE FrontendMenuProofs --------------------------
(***************************************************************************)
(* Proofs about FrontendMenu, for options, folders and lists of any        *)
(* number and a window of any height.                                      *)
(***************************************************************************)
EXTENDS FrontendMenu, FiniteSetTheorems, SequenceTheorems, WellFoundedInduction, TLAPS

FolderPaths == Seq(STRING)

(* The rows of each list. *)
Items1(actions) == {Item(a) : a \in actions}
MainRows     == Items1({"OPEN_FILE", "NONE", "SETTINGS", "OPEN_HISTORY", "ABOUT", "EXIT"})
SettingsRows == Items1({"GENERAL", "INPUT", "NONE", "RESET_ALL_SETTINGS", "CLEAR_LOGS", "BACK"})
SectionRows  == {Toggle(k) : k \in OptionKeys} \cup {Row("TOGGLE_VALUE", "dosbox_pure_savestate", FALSE)}
    \cup Items1({"NONE", "PICK_FOLDER", "RELOAD_SETTINGS", "RESTART_APP", "RESET_DEFAULTS", "BACK"})
HistoryRows  == {Row("HISTORY", g, TRUE) : g \in FolderPaths} \cup {Row("NO_HISTORY", "", FALSE)}
    \cup Items1({"NONE", "CLEAR_HISTORY", "BACK"})

(* A list of such rows, one of which at least the cursor can stop at. *)
ListOf(items, S) == /\ items \in Seq(S) /\ Len(items) \in Nat \ {0}
                    /\ \E i \in 1..Len(items) : Selectable(items[i])

LEMMA MenuConstants ==
    /\ RowSize \in Nat /\ RowSize > 1 /\ MenuVisible \in Nat /\ MenuVisible > 0
    /\ GeneralKeys \in Seq(STRING) /\ InputKeys \in Seq(STRING)
    /\ DefaultValue \in [OptionKeys -> 0..(RowSize - 1)]
    /\ None \notin 0..(RowSize - 1)
    /\ MaxHistory \in Nat /\ MaxHistory > 0
    /\ MaxVisible \in Nat /\ MaxVisible > 0 /\ Fit \in Nat /\ Fit > 0 /\ Below \in Nat
  <1>1. MaxHistory \in Nat \ {0} /\ MaxVisible \in Nat \ {0} /\ Fit \in Nat \ {0}
    BY HistoryAssumption, BrowserAssumption, Zenon
  <1>2. RowSize \in Nat \ {0, 1} /\ MenuVisible \in Nat \ {0} /\ Below \in Nat
    BY MenuAssumption, Zenon
  <1>3. /\ GeneralKeys \in Seq(STRING) /\ InputKeys \in Seq(STRING)
        /\ DefaultValue \in [OptionKeys -> 0..(RowSize - 1)]
        /\ None \notin 0..(RowSize - 1)
    BY MenuAssumption, Zenon
  <1> QED
    BY <1>1, <1>2, <1>3

(* The flag of a row is a Boolean for the provers. *)
LEMMA SelectableItem ==
    ASSUME NEW a PROVE Selectable(Item(a)) <=> a # "NONE"
  <1>1. Item(a).enabled = TRUE /\ Item(a).action = a
    BY DEF Item, Row
  <1> QED
    BY <1>1 DEF Selectable

(* Two lists in one, the second of which can be left. *)
LEMMA ListEnds ==
    ASSUME NEW S, NEW a \in Seq(S), NEW b \in Seq(S), Len(b) > 0, b[Len(b)] = Item("BACK")
    PROVE  ListOf(a \o b, S)
  <1>1. /\ a \o b \in Seq(S) /\ Len(a \o b) = Len(a) + Len(b)
        /\ \A i \in 1 .. Len(a) + Len(b) : (a \o b)[i] = IF i <= Len(a) THEN a[i] ELSE b[i - Len(a)]
    BY ConcatProperties
  <1>2. Len(a) \in Nat /\ Len(b) \in Nat
    OBVIOUS
  <1>3. (a \o b)[Len(a) + Len(b)] = b[Len(b)]
    BY <1>1, <1>2
  <1>4. Selectable((a \o b)[Len(a) + Len(b)])
    BY <1>3, SelectableItem
  <1> QED
    BY <1>1, <1>2, <1>4 DEF ListOf

LEMMA MainList == ListOf(MainItems, MainRows) /\ Len(MainItems) = 7
  <1>1. MainItems \in Seq(MainRows) /\ Len(MainItems) = 7 /\ MainItems[1] = Item("OPEN_FILE")
    BY DEF MainItems, MainRows, Items1, Blank
  <1> QED
    BY <1>1, SelectableItem DEF ListOf

LEMMA SettingsList == ListOf(SettingsItems, SettingsRows) /\ Len(SettingsItems) = 7
  <1>1. SettingsItems \in Seq(SettingsRows) /\ Len(SettingsItems) = 7 /\ SettingsItems[1] = Item("GENERAL")
    BY DEF SettingsItems, SettingsRows, Items1, Blank
  <1> QED
    BY <1>1, SelectableItem DEF ListOf

LEMMA ToggleRowsTyped ==
    ASSUME NEW keys \in Seq(STRING), RangeOf(keys) \subseteq OptionKeys
    PROVE  ToggleRows(keys) \in Seq(SectionRows)
  <1>1. \A i \in 1..Len(keys) : Toggle(keys[i]) \in SectionRows
    BY DEF RangeOf, SectionRows
  <1>2. Len(keys) \in Nat
    OBVIOUS
  <1>3. ToggleRows(keys) \in [1..Len(keys) -> SectionRows]
    BY <1>1 DEF ToggleRows
  <1> QED
    BY <1>2, <1>3

LEMMA GeneralList == ListOf(GeneralItems, SectionRows)
  <1> DEFINE row == Row("TOGGLE_VALUE", "dosbox_pure_savestate", FALSE)
             b == <<Blank, Item("PICK_FOLDER"), row, Blank,
                    Item("RELOAD_SETTINGS"), Item("RESTART_APP"), Blank, Item("RESET_DEFAULTS"), Blank,
                    Item("BACK")>>
  <1>0. /\ row \in SectionRows /\ Blank \in SectionRows /\ Item("PICK_FOLDER") \in SectionRows
        /\ Item("RELOAD_SETTINGS") \in SectionRows /\ Item("RESTART_APP") \in SectionRows
        /\ Item("RESET_DEFAULTS") \in SectionRows /\ Item("BACK") \in SectionRows
    BY DEF SectionRows, Items1, Blank, Item, Row
  <1>1. b \in Seq(SectionRows) /\ Len(b) = 10 /\ b[10] = Item("BACK")
    <2> HIDE DEF row
    <2> QED
      BY <1>0
  <1>2. ToggleRows(GeneralKeys) \in Seq(SectionRows)
    BY ToggleRowsTyped, MenuConstants DEF OptionKeys
  <1>3. GeneralItems = ToggleRows(GeneralKeys) \o b
    BY DEF GeneralItems
  <1> HIDE DEF b
  <1>4. Len(b) > 0 /\ b[Len(b)] = Item("BACK")
    BY <1>1
  <1>5. ListOf(ToggleRows(GeneralKeys) \o b, SectionRows)
    BY <1>1, <1>2, <1>4, ListEnds
  <1> QED
    BY <1>3, <1>5

LEMMA InputList == ListOf(InputItems, SectionRows)
  <1> DEFINE b == <<Blank, Item("RESET_DEFAULTS"), Blank, Item("BACK")>>
  <1>0. /\ Blank \in SectionRows /\ Item("RESET_DEFAULTS") \in SectionRows
        /\ Item("BACK") \in SectionRows
    BY DEF SectionRows, Items1, Blank, Item, Row
  <1>1. b \in Seq(SectionRows) /\ Len(b) = 4 /\ b[4] = Item("BACK")
    BY <1>0
  <1>2. ToggleRows(InputKeys) \in Seq(SectionRows)
    BY ToggleRowsTyped, MenuConstants DEF OptionKeys
  <1>3. InputItems = ToggleRows(InputKeys) \o b
    BY DEF InputItems
  <1> HIDE DEF b
  <1>4. Len(b) > 0 /\ b[Len(b)] = Item("BACK")
    BY <1>1
  <1>5. ListOf(ToggleRows(InputKeys) \o b, SectionRows)
    BY <1>1, <1>2, <1>4, ListEnds
  <1> QED
    BY <1>3, <1>5

LEMMA HistoryList ==
    ASSUME NEW games \in Seq(FolderPaths) PROVE ListOf(HistoryItems(games), HistoryRows)
  <1> DEFINE none == Row("NO_HISTORY", "", FALSE)
             a == IF games = <<>> THEN <<none>>
                  ELSE [i \in 1..Len(games) |-> Row("HISTORY", games[i], TRUE)]
             b == <<Blank, Item("CLEAR_HISTORY"), Item("BACK")>>
  <1>0. /\ Blank \in HistoryRows /\ Item("CLEAR_HISTORY") \in HistoryRows
        /\ Item("BACK") \in HistoryRows /\ none \in HistoryRows
        /\ \A g \in FolderPaths : Row("HISTORY", g, TRUE) \in HistoryRows
    BY DEF HistoryRows, Items1, Blank, Item, Row
  <1>1. b \in Seq(HistoryRows) /\ Len(b) = 3 /\ b[3] = Item("BACK")
    <2> HIDE DEF none
    <2> QED
      BY <1>0
  <1>2. a \in Seq(HistoryRows)
    <2>1. CASE games = <<>>
      <3>1. a = <<none>>
        BY <2>1
      <3> HIDE DEF a, none
      <3> QED
        BY <1>0, <3>1
    <2>2. CASE games # <<>>
      <3>1. Len(games) \in Nat /\ \A i \in 1..Len(games) : games[i] \in FolderPaths
        OBVIOUS
      <3>2. a = [i \in 1..Len(games) |-> Row("HISTORY", games[i], TRUE)]
        BY <2>2
      <3> HIDE DEF a
      <3>3. a \in [1..Len(games) -> HistoryRows]
        BY <1>0, <3>1, <3>2
      <3> QED
        BY <3>1, <3>3
    <2> QED
      BY <2>1, <2>2
  <1>3. HistoryItems(games) = a \o b
    BY DEF HistoryItems
  <1> HIDE DEF a, b
  <1>4. Len(b) > 0 /\ b[Len(b)] = Item("BACK")
    BY <1>1
  <1>5. ListOf(a \o b, HistoryRows)
    BY <1>1, <1>2, <1>4, ListEnds
  <1> QED
    BY <1>3, <1>5

(* What the handlers ask of a row. *)
LEMMA ItemFacts ==
    ASSUME NEW S, NEW r \in Items1(S)
    PROVE  r.action \in S /\ r.enabled
  <1>1. PICK a \in S : r = [action |-> a, key |-> "", enabled |-> TRUE]
    BY DEF Items1, Item, Row
  <1> QED
    BY <1>1

LEMMA MainRowFacts ==
    ASSUME NEW r \in MainRows
    PROVE  r.action \in {"OPEN_FILE", "NONE", "SETTINGS", "OPEN_HISTORY", "ABOUT", "EXIT"}
  BY ItemFacts DEF MainRows

LEMMA SettingsRowFacts ==
    ASSUME NEW r \in SettingsRows
    PROVE  r.action \in {"GENERAL", "INPUT", "NONE", "RESET_ALL_SETTINGS", "CLEAR_LOGS", "BACK"}
  BY ItemFacts DEF SettingsRows

LEMMA SectionRowFacts ==
    ASSUME NEW r \in SectionRows
    PROVE  /\ r.action \in {"TOGGLE_VALUE", "NONE", "PICK_FOLDER", "RELOAD_SETTINGS", "RESTART_APP",
                             "RESET_DEFAULTS", "BACK"}
           /\ r.action = "TOGGLE_VALUE" /\ r.enabled => r.key \in OptionKeys /\ r = Toggle(r.key)
  <1>1. CASE \E k \in OptionKeys : r = Toggle(k)
    <2>1. PICK k \in OptionKeys : r = Toggle(k)
      BY <1>1
    <2>2. r.action = "TOGGLE_VALUE" /\ r.key = k
      BY <2>1 DEF Toggle, Row
    <2> QED
      BY <2>1, <2>2
  <1>2. CASE r = Row("TOGGLE_VALUE", "dosbox_pure_savestate", FALSE)
    <2>1. r = [action |-> "TOGGLE_VALUE", key |-> "dosbox_pure_savestate", enabled |-> FALSE]
      BY <1>2 DEF Row
    <2>2. r.action = "TOGGLE_VALUE" /\ r.enabled = FALSE
      BY <2>1
    <2> QED
      BY <2>2
  <1>3. CASE r \in Items1({"NONE", "PICK_FOLDER", "RELOAD_SETTINGS", "RESTART_APP", "RESET_DEFAULTS",
                           "BACK"})
    <2>1. r.action \in {"NONE", "PICK_FOLDER", "RELOAD_SETTINGS", "RESTART_APP", "RESET_DEFAULTS", "BACK"}
      BY <1>3, ItemFacts
    <2> QED
      BY <2>1
  <1> QED
    BY <1>1, <1>2, <1>3 DEF SectionRows

LEMMA HistoryRowFacts ==
    ASSUME NEW r \in HistoryRows
    PROVE  /\ r.action \in {"HISTORY", "NO_HISTORY", "NONE", "CLEAR_HISTORY", "BACK"}
           /\ r.action = "HISTORY" => r.key \in FolderPaths
  <1>1. CASE \E g \in FolderPaths : r = Row("HISTORY", g, TRUE)
    <2>1. PICK g \in FolderPaths : r = Row("HISTORY", g, TRUE)
      BY <1>1
    <2>2. r.action = "HISTORY" /\ r.key = g
      BY <2>1 DEF Row
    <2> QED
      BY <2>2
  <1>2. CASE r = Row("NO_HISTORY", "", FALSE)
    <2>1. r.action = "NO_HISTORY"
      BY <1>2 DEF Row
    <2> QED
      BY <2>1
  <1>3. CASE r \in Items1({"NONE", "CLEAR_HISTORY", "BACK"})
    <2>1. r.action \in {"NONE", "CLEAR_HISTORY", "BACK"}
      BY <1>3, ItemFacts
    <2> QED
      BY <2>1
  <1> QED
    BY <1>1, <1>2, <1>3 DEF HistoryRows
-----------------------------------------------------------------------------
(***************************************************************************)
(* The search for a row to stop at goes around the list, and ends.  A row  *)
(* is as far as the number of rows that are passed before it.              *)
(***************************************************************************)
LEMMA LeastNumber ==
    ASSUME NEW T \in SUBSET Nat, T # {} PROVE \E m \in T : \A n \in T : m <= n
  <1>1. PICK m \in T : \A n \in T : <<n, m>> \notin OpToRel(<, Nat)
    BY WFMin, NatLessThanWellFounded
  <1>2. \A n \in T : ~ (n < m)
    BY <1>1 DEF OpToRel
  <1> QED
    BY <1>2

SearchFrom(f, R, next, stop) ==
    [s \in R |-> IF next[s] \in stop THEN next[s] ELSE f[next[s]]]

(* One row nearer with each step. *)
Nears(far, R, next) ==
    /\ \A s, r \in R : r = next[s] => far[s][r] = 0
    /\ \A s, r \in R : r # next[s] => far[s][r] = far[next[s]][r] + 1

Stops(R, next, stop) ==
    /\ \E f : f = SearchFrom(f, R, next, stop)
    /\ \A f : f = SearchFrom(f, R, next, stop) => \A s \in R : f[s] \in stop

LEMMA SearchStops ==
    ASSUME NEW R, NEW next \in [R -> R], NEW stop \in SUBSET R, stop # {},
           NEW far \in [R -> [R -> Nat]], Nears(far, R, next)
    PROVE  Stops(R, next, stop)
  <1> DEFINE Nearest(s) == {r \in stop : \A q \in stop : far[s][r] <= far[s][q]}
             g == [s \in R |-> CHOOSE r \in Nearest(s) : TRUE]
  <1>0. \A s, r \in R : far[s][r] \in Nat /\ next[s] \in R
    OBVIOUS
  <1>a. /\ \A s, r \in R : r = next[s] => far[s][r] = 0
        /\ \A s, r \in R : r # next[s] => far[s][r] = far[next[s]][r] + 1
    BY DEF Nears
  <1>1. ASSUME NEW s \in R
        PROVE  g[s] = IF next[s] \in stop THEN next[s] ELSE g[next[s]]
    <2>0. g[s] = (CHOOSE r \in Nearest(s) : TRUE) /\ g[next[s]] = (CHOOSE r \in Nearest(next[s]) : TRUE)
      BY <1>a, <1>0
    <2>1. CASE next[s] \in stop
      <3>1. Nearest(s) = {next[s]}
        <4>1. ASSUME NEW q \in stop, q # next[s] PROVE far[s][q] > 0
          <5>1. q \in R /\ far[s][q] = far[next[s]][q] + 1 /\ far[next[s]][q] \in Nat
            BY <1>a, <1>0, <4>1
          <5> QED
            BY <5>1
        <4>2. far[s][next[s]] = 0 /\ \A q \in stop : far[s][q] \in Nat
          BY <1>a, <1>0
        <4> HIDE DEF g
        <4> QED
          BY <2>1, <4>1, <4>2
      <3>2. g[s] = CHOOSE r \in {next[s]} : TRUE
        BY <2>0, <3>1
      <3> HIDE DEF g, Nearest
      <3> QED
        BY <2>1, <3>2
    <2>2. CASE next[s] \notin stop
      <3>1. \A q \in stop : /\ far[s][q] = far[next[s]][q] + 1
                            /\ far[s][q] \in Nat /\ far[next[s]][q] \in Nat
        BY <1>a, <2>2, <1>0
      <3>2. Nearest(s) = Nearest(next[s])
        BY <3>1
      <3> HIDE DEF g, Nearest
      <3> QED
        BY <2>0, <2>2, <3>2
    <2> QED
      BY <2>1, <2>2
  <1>2. g = SearchFrom(g, R, next, stop)
    <2>1. g = [s \in R |-> g[s]]
      OBVIOUS
    <2>2. g = [s \in R |-> IF next[s] \in stop THEN next[s] ELSE g[next[s]]]
      <3> HIDE DEF g
      <3> QED
        BY <1>1, <2>1
    <2> HIDE DEF g
    <2> QED
      BY <2>2 DEF SearchFrom
  <1>3. ASSUME NEW f, f = SearchFrom(f, R, next, stop), NEW t \in R, f[t] \notin stop
        PROVE  FALSE
    <2> DEFINE Bad == {n \in Nat : \E s \in R, r \in stop : far[s][r] = n /\ f[s] \notin stop}
    <2>1. Bad # {}
      <3>1. PICK r \in stop : TRUE
        OBVIOUS
      <3>2. far[t][r] \in Bad
        BY <1>3, <1>0
      <3> QED
        BY <3>2
    <2>2. PICK n \in Bad : \A m \in Bad : n <= m
      <3>1. Bad \in SUBSET Nat
        OBVIOUS
      <3> HIDE DEF Bad
      <3> QED
        BY <2>1, <3>1, LeastNumber
    <2>3. PICK s \in R, r \in stop : far[s][r] = n /\ f[s] \notin stop
      BY <2>2
    <2>4. f[s] = IF next[s] \in stop THEN next[s] ELSE f[next[s]]
      BY <1>3 DEF SearchFrom
    <2>5. next[s] \notin stop /\ f[next[s]] \notin stop
      BY <2>3, <2>4
    <2>6. r # next[s] /\ r \in R /\ next[s] \in R
      BY <2>5
    <2>7. far[next[s]][r] \in Nat /\ n = far[next[s]][r] + 1
      BY <1>a, <1>0, <2>3, <2>6
    <2>8. far[next[s]][r] \in Bad
      BY <2>5, <2>6, <2>7
    <2> HIDE DEF Bad
    <2> QED
      BY <2>2, <2>7, <2>8
  <1> QED
    <2> HIDE DEF g
    <2> QED
      BY <1>2, <1>3 DEF Stops

(* The rows of a list, upwards or downwards around its ends. *)
NextOf(s, len, up) ==
    IF up THEN IF s = 1 THEN len ELSE s - 1 ELSE IF s = len THEN 1 ELSE s + 1

(* How many rows are passed from s before r. *)
Passed(s, r, len, up) ==
    IF up THEN IF r < s THEN s - 1 - r ELSE s - 1 - r + len
          ELSE IF r > s THEN r - s - 1 ELSE r - s - 1 + len

LEMMA PassedFacts ==
    ASSUME NEW len \in Nat \ {0}, NEW up \in BOOLEAN, NEW s \in 1..len, NEW r \in 1..len
    PROVE  /\ NextOf(s, len, up) \in 1..len
           /\ Passed(s, r, len, up) \in Nat
           /\ r = NextOf(s, len, up) => Passed(s, r, len, up) = 0
           /\ r # NextOf(s, len, up) =>
                 Passed(s, r, len, up) = Passed(NextOf(s, len, up), r, len, up) + 1
  <1>1. CASE up
    BY <1>1 DEF NextOf, Passed
  <1>2. CASE ~up
    BY <1>2 DEF NextOf, Passed
  <1> QED
    BY <1>1, <1>2

LEMMA AroundStops ==
    ASSUME NEW len \in Nat \ {0}, NEW up \in BOOLEAN, NEW stop \in SUBSET (1..len), stop # {},
           NEW next, next = [s \in 1..len |-> NextOf(s, len, up)]
    PROVE  Stops(1..len, next, stop)
  <1> DEFINE R == 1..len
             far == [s \in R |-> [r \in R |-> Passed(s, r, len, up)]]
  <1>1. next \in [R -> R]
    BY PassedFacts
  <1>2. far \in [R -> [R -> Nat]]
    BY PassedFacts
  <1>3. \A s, r \in R : far[s][r] = Passed(s, r, len, up) /\ next[s] = NextOf(s, len, up) /\ next[s] \in R
    BY <1>1
  <1> HIDE DEF far, R
  <1>4. ASSUME NEW s \in R, NEW r \in R
        PROVE  /\ r = next[s] => far[s][r] = 0
               /\ r # next[s] => far[s][r] = far[next[s]][r] + 1
    <2>1. s \in 1..len /\ r \in 1..len /\ next[s] = NextOf(s, len, up) /\ next[s] \in R
      BY <1>3 DEF R
    <2>2. far[s][r] = Passed(s, r, len, up) /\ far[next[s]][r] = Passed(next[s], r, len, up)
      BY <1>3, <2>1
    <2>3. /\ r = NextOf(s, len, up) => Passed(s, r, len, up) = 0
          /\ r # NextOf(s, len, up) =>
                Passed(s, r, len, up) = Passed(NextOf(s, len, up), r, len, up) + 1
      BY <2>1, PassedFacts
    <2> HIDE DEF far
    <2> QED
      BY <2>1, <2>2, <2>3
  <1>6. stop \in SUBSET R
    BY DEF R
  <1>8. Nears(far, R, next)
    BY <1>4 DEF Nears
  <1>7. Stops(R, next, stop)
    BY <1>1, <1>2, <1>6, <1>8, SearchStops
  <1> QED
    BY <1>7 DEF R
(* The cursor of the menu goes to a row it can stop at ... *)
LEMMA NextRowStops ==
    ASSUME NEW up \in BOOLEAN, Len(Items) \in Nat \ {0}, sel \in 1..Len(Items),
           \E i \in 1..Len(Items) : Selectable(Items[i])
    PROVE  NextRow(up) \in 1..Len(Items) /\ Selectable(Items[NextRow(up)])
  <1> DEFINE len == Len(Items)
             next == [s \in 1..len |-> NextOf(s, len, up)]
             stop == {r \in 1..len : Selectable(Items[r])}
             F(step) == [s \in 1..len |->
                LET n == IF up THEN IF s = 1 THEN len ELSE s - 1 ELSE IF s = len THEN 1 ELSE s + 1
                IN  IF Selectable(Items[n]) THEN n ELSE step[n]]
             step == CHOOSE f : f = F(f)
  <1>1. NextRow(up) = step[sel]
    BY DEF NextRow
  <1>2. Stops(1..len, next, stop)
    <2>1. stop \in SUBSET (1..len) /\ stop # {} /\ len \in Nat \ {0}
      OBVIOUS
    <2> HIDE DEF stop, len
    <2> QED
      BY <2>1, AroundStops
  <1>3. ASSUME NEW f PROVE F(f) = SearchFrom(f, 1..len, next, stop)
    <2>1. ASSUME NEW s \in 1..len
          PROVE  LET n == IF up THEN IF s = 1 THEN len ELSE s - 1 ELSE IF s = len THEN 1 ELSE s + 1
                 IN  (IF Selectable(Items[n]) THEN n ELSE f[n])
                     = IF next[s] \in stop THEN next[s] ELSE f[next[s]]
      <3>1. next[s] = NextOf(s, len, up) /\ NextOf(s, len, up) \in 1..len
        BY PassedFacts
      <3>2. next[s] \in stop <=> Selectable(Items[next[s]])
        BY <3>1
      <3> HIDE DEF next, stop
      <3> QED
        BY <3>1, <3>2 DEF NextOf
    <2> HIDE DEF next, stop
    <2> QED
      BY <2>1 DEF SearchFrom
  <1> HIDE DEF F, next
  <1>4. step = F(step)
    BY <1>2, <1>3 DEF Stops
  <1>5. step[sel] \in stop
    <2> HIDE DEF step, stop
    <2> QED
      BY <1>2, <1>3, <1>4 DEF Stops
  <1> HIDE DEF step
  <1> QED
    BY <1>1, <1>5
(* ... and the one of the browser to a row of its list. *)
LEMMA StepUpStops ==
    ASSUME NEW entries, Len(entries) \in Nat \ {0}, NEW from \in 1..Len(entries)
    PROVE  StepUp(entries, from) \in 1..Len(entries)
  <1> DEFINE len == Len(entries)
             next == [s \in 1..len |-> NextOf(s, len, TRUE)]
             stop == {r \in 1..len : ~(r > 1 /\ entries[r] = Separator)}
             F(step) == [s \in 1..len |->
                LET n == IF s = 1 THEN len ELSE s - 1
                IN  IF n > 1 /\ entries[n] = Separator THEN step[n] ELSE n]
             step == CHOOSE f : f = F(f)
  <1>1. StepUp(entries, from) = step[from]
    BY DEF StepUp
  <1>2. Stops(1..len, next, stop)
    <2>1. stop \in SUBSET (1..len) /\ 1 \in stop /\ len \in Nat \ {0}
      OBVIOUS
    <2> HIDE DEF stop, len
    <2> QED
      BY <2>1, AroundStops
  <1>3. ASSUME NEW f PROVE F(f) = SearchFrom(f, 1..len, next, stop)
    <2>1. ASSUME NEW s \in 1..len
          PROVE  LET n == IF s = 1 THEN len ELSE s - 1
                 IN  (IF n > 1 /\ entries[n] = Separator THEN f[n] ELSE n)
                     = IF next[s] \in stop THEN next[s] ELSE f[next[s]]
      <3>1. next[s] = NextOf(s, len, TRUE) /\ NextOf(s, len, TRUE) \in 1..len
        BY PassedFacts
      <3>2. next[s] \in stop <=> ~(next[s] > 1 /\ entries[next[s]] = Separator)
        BY <3>1
      <3>3. next[s] = IF s = 1 THEN len ELSE s - 1
        BY <3>1 DEF NextOf
      <3> HIDE DEF next, stop
      <3> QED
        BY <3>2, <3>3
    <2> HIDE DEF next, stop
    <2> QED
      BY <2>1 DEF SearchFrom
  <1> HIDE DEF F, next
  <1>4. step = F(step)
    BY <1>2, <1>3 DEF Stops
  <1>5. step[from] \in stop
    <2> HIDE DEF step, stop
    <2> QED
      BY <1>2, <1>3, <1>4 DEF Stops
  <1> HIDE DEF step
  <1> QED
    BY <1>1, <1>5

LEMMA StepDownStops ==
    ASSUME NEW entries, Len(entries) \in Nat \ {0}, NEW from \in 1..Len(entries)
    PROVE  StepDown(entries, from) \in 1..Len(entries)
  <1> DEFINE len == Len(entries)
             next == [s \in 1..len |-> NextOf(s, len, FALSE)]
             stop == {r \in 1..len : ~(r < len /\ entries[r] = Separator)}
             F(step) == [s \in 1..len |->
                LET n == IF s = len THEN 1 ELSE s + 1
                IN  IF n < len /\ entries[n] = Separator THEN step[n] ELSE n]
             step == CHOOSE f : f = F(f)
  <1>1. StepDown(entries, from) = step[from]
    BY DEF StepDown
  <1>2. Stops(1..len, next, stop)
    <2>1. stop \in SUBSET (1..len) /\ len \in stop /\ len \in Nat \ {0}
      OBVIOUS
    <2> HIDE DEF stop, len
    <2> QED
      BY <2>1, AroundStops
  <1>3. ASSUME NEW f PROVE F(f) = SearchFrom(f, 1..len, next, stop)
    <2>1. ASSUME NEW s \in 1..len
          PROVE  LET n == IF s = len THEN 1 ELSE s + 1
                 IN  (IF n < len /\ entries[n] = Separator THEN f[n] ELSE n)
                     = IF next[s] \in stop THEN next[s] ELSE f[next[s]]
      <3>1. next[s] = NextOf(s, len, FALSE) /\ NextOf(s, len, FALSE) \in 1..len
        BY PassedFacts
      <3>2. next[s] \in stop <=> ~(next[s] < len /\ entries[next[s]] = Separator)
        BY <3>1
      <3>3. next[s] = IF s = len THEN 1 ELSE s + 1
        BY <3>1 DEF NextOf
      <3> HIDE DEF next, stop
      <3> QED
        BY <3>2, <3>3
    <2> HIDE DEF next, stop
    <2> QED
      BY <2>1 DEF SearchFrom
  <1> HIDE DEF F, next
  <1>4. step = F(step)
    BY <1>2, <1>3 DEF Stops
  <1>5. step[from] \in stop
    <2> HIDE DEF step, stop
    <2> QED
      BY <1>2, <1>3, <1>4 DEF Stops
  <1> HIDE DEF step
  <1> QED
    BY <1>1, <1>5
-----------------------------------------------------------------------------
(***************************************************************************)
(* The browser: each of its handlers leaves a browser, with the cursor on  *)
(* an entry while it is open.                                              *)
(***************************************************************************)
EntryKinds == {"set", "clear", "favourite", "separator", "folder", "file", "up"}
Entries    == [kind : EntryKinds, path : FolderPaths]
Browsers   == [visible : BOOLEAN, pick : BOOLEAN, path : FolderPaths, entries : Seq(Entries),
               sel : Nat \ {0}, scroll : Nat]

BrowserSound(b) == b \in Browsers /\ (b.visible => b.sel \in 1..Len(b.entries))

LEMMA SomeEntry ==
    ASSUME NEW kind \in EntryKinds, NEW path \in FolderPaths
    PROVE  Entry(kind, path) \in Entries
  BY DEF Entry, Entries

LEMMA SpecialEntries ==
    /\ \A kind \in EntryKinds : Entry(kind, <<>>) \in Entries
    /\ Separator \in Entries
    /\ Entry("folder", HomePath) \in Entries
  <1>1. <<>> \in FolderPaths /\ HomePath \in FolderPaths
    BY BrowserAssumption DEF FolderPaths
  <1>2. "folder" \in EntryKinds /\ "separator" \in EntryKinds
    BY DEF EntryKinds
  <1> QED
    BY <1>1, <1>2, SomeEntry DEF Separator

LEMMA RootList ==
    ASSUME NEW pick \in BOOLEAN, NEW fav \in FolderPaths
    PROVE  RootEntries(pick, fav) \in Seq(Entries) /\ Len(RootEntries(pick, fav)) \in Nat \ {0}
  <1> DEFINE set == Entry("set", <<>>)
             clear == Entry("clear", <<>>)
             favourites == Entry("favourite", fav)
             home == Entry("folder", HomePath)
             a == IF pick
                  THEN <<set>> \o (IF fav # <<>> THEN <<clear>> ELSE <<>>) \o <<Separator>>
                  ELSE IF fav # <<>> THEN <<favourites, Separator>> ELSE <<>>
             d == [i \in 1..Len(Drives) |-> Entry("folder", <<Drives[i]>>)]
  <1>0. /\ set \in Entries /\ clear \in Entries /\ Separator \in Entries /\ favourites \in Entries
        /\ home \in Entries
    BY SpecialEntries, SomeEntry DEF EntryKinds
  <1> HIDE DEF set, clear, favourites, home
  <1>1. a \in Seq(Entries)
    <2>1. <<set>> \in Seq(Entries) /\ <<clear>> \in Seq(Entries) /\ <<Separator>> \in Seq(Entries)
          /\ <<favourites, Separator>> \in Seq(Entries) /\ <<>> \in Seq(Entries)
      BY <1>0
    <2>2. (IF fav # <<>> THEN <<clear>> ELSE <<>>) \in Seq(Entries)
      BY <2>1
    <2>3. <<set>> \o (IF fav # <<>> THEN <<clear>> ELSE <<>>) \o <<Separator>> \in Seq(Entries)
      BY <2>1, <2>2, ConcatProperties
    <2> QED
      BY <2>1, <2>3
  <1>2. d \in Seq(Entries)
    <2>1. Drives \in Seq(STRING)
      BY BrowserAssumption
    <2>2. Len(Drives) \in Nat /\ \A i \in 1..Len(Drives) : <<Drives[i]>> \in FolderPaths
      BY <2>1 DEF FolderPaths
    <2>3. \A i \in 1..Len(Drives) : Entry("folder", <<Drives[i]>>) \in Entries
      BY <2>2, SomeEntry DEF EntryKinds
    <2>4. d \in [1..Len(Drives) -> Entries]
      BY <2>3
    <2> QED
      BY <2>2, <2>4
  <1>3. RootEntries(pick, fav) = (a \o d) \o <<home>>
    BY DEF RootEntries, set, clear, favourites, home
  <1> HIDE DEF a, d
  <1>4. <<home>> \in Seq(Entries) /\ Len(<<home>>) = 1
    BY <1>0
  <1>5. a \o d \in Seq(Entries) /\ Len(a \o d) \in Nat
    BY <1>1, <1>2, ConcatProperties
  <1>6. (a \o d) \o <<home>> \in Seq(Entries) /\ Len((a \o d) \o <<home>>) = Len(a \o d) + 1
    BY <1>4, <1>5, ConcatProperties
  <1> QED
    BY <1>3, <1>5, <1>6

LEMMA FolderList ==
    ASSUME NEW pick \in BOOLEAN, NEW path \in FolderPaths
    PROVE  FolderEntries(pick, path) \in Seq(Entries) /\ Len(FolderEntries(pick, path)) \in Nat \ {0}
  <1> DEFINE up == Entry("up", <<>>)
             set == Entry("set", <<>>)
             a == IF pick THEN <<set>> ELSE <<>>
             d == [i \in 1..Len(Folders[path]) |-> Entry("folder", Append(path, Folders[path][i]))]
             f == [i \in 1..Len(Files[path])   |-> Entry("file", Append(path, Files[path][i]))]
  <1>0. up \in Entries /\ set \in Entries
    BY SpecialEntries DEF EntryKinds
  <1>1. CASE path \notin Paths
    <2>1. FolderEntries(pick, path) = <<up>>
      BY <1>1 DEF FolderEntries
    <2> HIDE DEF up
    <2> QED
      BY <1>0, <2>1
  <1>2. CASE path \in Paths
    <2>1. Folders[path] \in Seq(STRING) /\ Files[path] \in Seq(STRING)
      BY <1>2, BrowserAssumption
    <2>2. d \in Seq(Entries)
      <3>1. Len(Folders[path]) \in Nat
            /\ \A i \in 1..Len(Folders[path]) : Append(path, Folders[path][i]) \in FolderPaths
        BY <2>1 DEF FolderPaths
      <3>2. \A i \in 1..Len(Folders[path]) : Entry("folder", Append(path, Folders[path][i])) \in Entries
        BY <3>1, SomeEntry DEF EntryKinds
      <3>3. d \in [1..Len(Folders[path]) -> Entries]
        BY <3>2
      <3> QED
        BY <3>1, <3>3
    <2>3. f \in Seq(Entries)
      <3>1. Len(Files[path]) \in Nat
            /\ \A i \in 1..Len(Files[path]) : Append(path, Files[path][i]) \in FolderPaths
        BY <2>1 DEF FolderPaths
      <3>2. \A i \in 1..Len(Files[path]) : Entry("file", Append(path, Files[path][i])) \in Entries
        BY <3>1, SomeEntry DEF EntryKinds
      <3>3. f \in [1..Len(Files[path]) -> Entries]
        BY <3>2
      <3> QED
        BY <3>1, <3>3
    <2>4. FolderEntries(pick, path) = ((a \o <<up>>) \o d) \o f
      BY <1>2 DEF FolderEntries
    <2> HIDE DEF d, f, up, set
    <2>5. a \in Seq(Entries) /\ <<up>> \in Seq(Entries) /\ Len(<<up>>) = 1
      BY <1>0
    <2> HIDE DEF a
    <2>6. a \o <<up>> \in Seq(Entries) /\ Len(a \o <<up>>) = Len(a) + 1 /\ Len(a) \in Nat
      BY <2>5, ConcatProperties
    <2>7. (a \o <<up>>) \o d \in Seq(Entries)
          /\ Len((a \o <<up>>) \o d) = Len(a \o <<up>>) + Len(d) /\ Len(d) \in Nat
      BY <2>2, <2>6, ConcatProperties
    <2>8. ((a \o <<up>>) \o d) \o f \in Seq(Entries)
          /\ Len(((a \o <<up>>) \o d) \o f) = Len((a \o <<up>>) \o d) + Len(f) /\ Len(f) \in Nat
      BY <2>3, <2>7, ConcatProperties
    <2> QED
      BY <2>4, <2>6, <2>7, <2>8
  <1> QED
    BY <1>1, <1>2

(* A scan starts at the first entry, of which there is one. *)
LEMMA Scanned ==
    ASSUME NEW b \in Browsers, NEW path \in FolderPaths, NEW fav \in FolderPaths,
           NEW c, c = ScanDirectory(b, path, fav)
    PROVE  /\ c \in Browsers /\ BrowserSound(c) /\ c.visible = b.visible /\ c.path = path
           /\ c.sel = 1 /\ c.scroll = 0
           /\ c.sel \in 1..Len(c.entries)
  <1> DEFINE e == IF path = <<>> THEN RootEntries(b.pick, fav) ELSE FolderEntries(b.pick, path)
  <1>0. b.pick \in BOOLEAN
    BY DEF Browsers
  <1>1. e \in Seq(Entries) /\ Len(e) \in Nat \ {0}
    BY <1>0, RootList, FolderList
  <1>2. c = [b EXCEPT !.path = path, !.sel = 1, !.scroll = 0, !.entries = e]
    BY DEF ScanDirectory
  <1> HIDE DEF e
  <1>3. b \in [visible : BOOLEAN, pick : BOOLEAN, path : FolderPaths, entries : Seq(Entries),
               sel : Nat \ {0}, scroll : Nat]
    BY DEF Browsers
  <1>4. /\ c.path = path /\ c.sel = 1 /\ c.scroll = 0 /\ c.entries = e
        /\ c.visible = b.visible
    BY <1>2, <1>3
  <1>5. c \in [visible : BOOLEAN, pick : BOOLEAN, path : FolderPaths, entries : Seq(Entries),
               sel : Nat \ {0}, scroll : Nat]
    <2>1. 1 \in Nat \ {0} /\ 0 \in Nat /\ e \in Seq(Entries)
      BY <1>1
    <2> QED
      BY <1>2, <1>3, <2>1, Zenon
  <1> QED
    BY <1>1, <1>4, <1>5 DEF BrowserSound, Browsers
(* A browser that is open, its cursor on an entry. *)
OpenBrowsers == {b \in Browsers : b.visible /\ b.sel \in 1..Len(b.entries)}

(* The same list with another cursor. *)
Moved(b, c) ==
    /\ BrowserSound(c) /\ c.visible = b.visible /\ c.path = b.path /\ c.entries = b.entries

WithCursor(b, row, from) == [b EXCEPT !.sel = row, !.scroll = from]

LEMMA CursorMoved ==
    ASSUME NEW b \in OpenBrowsers, NEW row \in 1..Len(b.entries), NEW from \in Nat
    PROVE  LET c == WithCursor(b, row, from)
           IN  Moved(b, c) /\ c.sel = row /\ c.scroll = from
  <1> DEFINE c == WithCursor(b, row, from)
  <1>0. c = [b EXCEPT !.sel = row, !.scroll = from]
    BY DEF WithCursor
  <1> HIDE DEF c
  <1>1. b \in [visible : BOOLEAN, pick : BOOLEAN, path : FolderPaths, entries : Seq(Entries),
               sel : Nat \ {0}, scroll : Nat]
    BY DEF OpenBrowsers, Browsers
  <1>2. /\ c.sel = row /\ c.scroll = from /\ c.entries = b.entries /\ c.path = b.path
        /\ c.visible = b.visible
    BY <1>0, <1>1
  <1>3. row \in Nat \ {0}
    <2>1. Len(b.entries) \in Nat
      BY <1>1
    <2> QED
      BY <2>1
  <1>4. c \in [visible : BOOLEAN, pick : BOOLEAN, path : FolderPaths, entries : Seq(Entries),
               sel : Nat \ {0}, scroll : Nat]
    BY <1>0, <1>1, <1>3, Zenon
  <1> QED
    BY <1>2, <1>4 DEF Moved, BrowserSound, Browsers, c

LEMMA BrowserNumbers ==
    ASSUME NEW b \in OpenBrowsers
    PROVE  Len(b.entries) \in Nat \ {0} /\ b.sel \in Nat \ {0} /\ b.sel <= Len(b.entries) /\ b.scroll \in Nat
  <1>1. Len(b.entries) \in Nat /\ b.sel \in 1..Len(b.entries) /\ b.sel \in Nat \ {0} /\ b.scroll \in Nat
    BY DEF OpenBrowsers, Browsers
  <1> QED
    BY <1>1

(* A handler that moves the cursor keeps it on the screen. *)
Keeps(b, c) == Fit >= MaxVisible /\ BrowserCursorShown(b) => BrowserCursorShown(c)

LEMMA MovedTo ==
    ASSUME NEW b \in OpenBrowsers, NEW row \in 1..Len(b.entries)
    PROVE  Moved(b, MoveTo(b, row)) /\ Keeps(b, MoveTo(b, row))
  <1> DEFINE from == Follow(b.scroll, row - 1, MaxVisible)
             c == MoveTo(b, row)
  <1>1. /\ Len(b.entries) \in Nat \ {0} /\ b.scroll \in Nat /\ row \in Nat /\ row > 0
        /\ row <= Len(b.entries)
        /\ MaxVisible \in Nat /\ MaxVisible > 0 /\ Fit \in Nat /\ Fit > 0
    BY BrowserNumbers, MenuConstants
  <1>2. from \in Nat /\ row > from /\ row <= from + MaxVisible
    BY <1>1 DEF Follow
  <1>3. c = WithCursor(b, row, from)
    BY DEF WithCursor, MoveTo
  <1>4. Moved(b, c) /\ c.sel = row /\ c.scroll = from
    BY <1>2, <1>3, CursorMoved
  <1> HIDE DEF c, from
  <1>5. Fit >= MaxVisible => Keeps(b, c)
    <2> DEFINE len == Len(b.entries)
    <2>1. Fit >= MaxVisible => row <= from + Visible(len, MaxVisible) + 1
      BY <1>1, <1>2 DEF Visible, AtMost
    <2> QED
      BY <1>2, <1>4, <2>1 DEF Keeps, BrowserCursorShown, Moved
  <1> QED
    BY <1>4, <1>5 DEF c, Keeps

LEMMA BrowserDPadMoves ==
    ASSUME NEW b \in OpenBrowsers, NEW up \in BOOLEAN
    PROVE  Moved(b, BrowserDPad(b, up)) /\ Keeps(b, BrowserDPad(b, up))
  <1> DEFINE row == IF up THEN StepUp(b.entries, b.sel) ELSE StepDown(b.entries, b.sel)
  <1>1. Len(b.entries) \in Nat \ {0} /\ b.sel \in 1..Len(b.entries)
    BY BrowserNumbers DEF OpenBrowsers
  <1>2. row \in 1..Len(b.entries)
    BY <1>1, StepUpStops, StepDownStops
  <1>3. BrowserDPad(b, up) = MoveTo(b, row)
    BY DEF BrowserDPad
  <1> HIDE DEF row
  <1> QED
    BY <1>2, <1>3, MovedTo

LEMMA BrowserWheelMoves ==
    ASSUME NEW b \in OpenBrowsers, NEW up \in BOOLEAN
    PROVE  Moved(b, BrowserWheel(b, up)) /\ Keeps(b, BrowserWheel(b, up))
  <1> DEFINE row == IF up THEN AtLeast(1, b.sel - 3) ELSE AtMost(Len(b.entries), b.sel + 3)
  <1>1. row \in 1..Len(b.entries)
    BY BrowserNumbers DEF AtLeast, AtMost
  <1>2. BrowserWheel(b, up) = MoveTo(b, row)
    BY DEF BrowserWheel
  <1> HIDE DEF row
  <1> QED
    BY <1>1, <1>2, MovedTo

LEMMA BrowserPageUpMoves ==
    ASSUME NEW b \in OpenBrowsers
    PROVE  Moved(b, BrowserPageUp(b)) /\ Keeps(b, BrowserPageUp(b))
  <1> DEFINE row == AtLeast(1, b.sel - MaxVisible)
             from == AtLeast(0, b.scroll - MaxVisible)
             c == BrowserPageUp(b)
             len == Len(b.entries)
  <1>1. /\ len \in Nat \ {0} /\ b.scroll \in Nat /\ b.sel \in Nat \ {0} /\ b.sel <= len
        /\ MaxVisible \in Nat /\ MaxVisible > 0 /\ Fit \in Nat /\ Fit > 0
    BY BrowserNumbers, MenuConstants
  <1> HIDE DEF len
  <1>2. row \in 1..len /\ from \in Nat
    BY <1>1 DEF AtLeast
  <1>3. c = WithCursor(b, row, from)
    BY DEF WithCursor, BrowserPageUp
  <1>4. Fit >= MaxVisible /\ b.sel > b.scroll /\ b.sel <= b.scroll + Visible(len, MaxVisible) + 1
        => row > from /\ row <= from + Visible(len, MaxVisible) + 1
    BY <1>1 DEF Visible, AtMost, AtLeast
  <1> HIDE DEF c, from, row
  <1>5. Moved(b, c) /\ c.sel = row /\ c.scroll = from
    BY <1>2, <1>3, CursorMoved DEF len
  <1>6. Keeps(b, c)
    BY <1>2, <1>4, <1>5 DEF Keeps, BrowserCursorShown, Moved, OpenBrowsers, len
  <1> QED
    BY <1>5, <1>6 DEF c

LEMMA BrowserPageDownMoves ==
    ASSUME NEW b \in OpenBrowsers
    PROVE  Moved(b, BrowserPageDown(b)) /\ Keeps(b, BrowserPageDown(b))
  <1> DEFINE len == Len(b.entries)
             row == AtMost(len, b.sel + MaxVisible)
             from == IF b.scroll + MaxVisible > len - MaxVisible
                     THEN AtLeast(0, len - MaxVisible) ELSE b.scroll + MaxVisible
             c == BrowserPageDown(b)
  <1>1. /\ len \in Nat \ {0} /\ b.scroll \in Nat /\ b.sel \in Nat \ {0} /\ b.sel <= len
        /\ MaxVisible \in Nat /\ MaxVisible > 0 /\ Fit \in Nat /\ Fit > 0
    BY BrowserNumbers, MenuConstants
  <1>3. c = WithCursor(b, row, from)
    BY DEF WithCursor, BrowserPageDown
  <1> HIDE DEF len
  <1>2. row \in 1..len /\ from \in Nat
    BY <1>1 DEF AtLeast, AtMost
  <1>4. Fit >= MaxVisible /\ b.sel > b.scroll /\ b.sel <= b.scroll + Visible(len, MaxVisible) + 1
        => row > from /\ row <= from + Visible(len, MaxVisible) + 1
    BY <1>1 DEF Visible, AtMost, AtLeast
  <1> HIDE DEF c, from, row
  <1>5. Moved(b, c) /\ c.sel = row /\ c.scroll = from
    BY <1>2, <1>3, CursorMoved DEF len
  <1>6. Keeps(b, c)
    BY <1>2, <1>4, <1>5 DEF Keeps, BrowserCursorShown, Moved, OpenBrowsers, len
  <1> QED
    BY <1>5, <1>6 DEF c

LEMMA BrowserHoverMoves ==
    ASSUME NEW b \in OpenBrowsers, NEW row \in BrowserHit(b)
    PROVE  Moved(b, BrowserHover(b, row)) /\ Keeps(b, BrowserHover(b, row))
  <1> DEFINE c == BrowserHover(b, row)
  <1>1. row \in 1..Len(b.entries) /\ b.scroll \in Nat
    BY BrowserNumbers DEF BrowserHit
  <1>2. c = WithCursor(b, row, b.scroll)
    <2>1. b = [b EXCEPT !.scroll = b.scroll]
      BY DEF OpenBrowsers, Browsers
    <2> QED
      BY DEF BrowserHover, OpenBrowsers, Browsers, WithCursor
  <1> HIDE DEF c
  <1>3. Moved(b, c) /\ c.sel = row /\ c.scroll = b.scroll
    BY <1>1, <1>2, CursorMoved
  <1>4. Keeps(b, c)
    BY <1>1, <1>3 DEF Keeps, BrowserCursorShown, Moved, BrowserHit
  <1> QED
    BY <1>3, <1>4 DEF c

LEMMA DrawBrowserMoves ==
    ASSUME NEW b \in OpenBrowsers
    PROVE  Moved(b, DrawBrowser(b)) /\ Keeps(b, DrawBrowser(b))
  <1> DEFINE c == DrawBrowser(b)
             len == Len(b.entries)
             from == Clamp(b.scroll, len, MaxVisible)
  <1>1. /\ len \in Nat \ {0} /\ b.scroll \in Nat /\ b.sel \in Nat \ {0} /\ b.sel <= len
        /\ MaxVisible \in Nat /\ MaxVisible > 0 /\ Fit \in Nat /\ Fit > 0
    BY BrowserNumbers, MenuConstants
  <1>2. c = WithCursor(b, b.sel, from)
    <2>1. b = [b EXCEPT !.sel = b.sel]
      BY DEF OpenBrowsers, Browsers
    <2> QED
      BY <2>1 DEF DrawBrowser, WithCursor
  <1> HIDE DEF c, len
  <1>3. from \in Nat
    BY <1>1 DEF Clamp, AtMost, AtLeast, Visible
  <1>4. Fit >= MaxVisible /\ b.sel > b.scroll /\ b.sel <= b.scroll + Visible(len, MaxVisible) + 1
        => b.sel > from /\ b.sel <= from + Visible(len, MaxVisible) + 1
    BY <1>1 DEF Clamp, Visible, AtMost, AtLeast
  <1> HIDE DEF from
  <1>5. b.sel \in 1..Len(b.entries)
    BY DEF OpenBrowsers
  <1>6. Moved(b, c) /\ c.sel = b.sel /\ c.scroll = from
    BY <1>2, <1>3, <1>5, CursorMoved
  <1>7. Keeps(b, c)
    BY <1>4, <1>5, <1>6 DEF Keeps, BrowserCursorShown, Moved, OpenBrowsers, len
  <1> QED
    BY <1>6, <1>7 DEF c
(* A list that was just read, or a browser that was closed. *)
Fresh(c) == BrowserSound(c) /\ BrowserCursorShown(c)

LEMMA FreshScan ==
    ASSUME NEW b \in Browsers, NEW path \in FolderPaths, NEW fav \in FolderPaths
    PROVE  LET c == ScanDirectory(b, path, fav)
           IN  Fresh(c) /\ c.visible = b.visible /\ c.path = path
  <1> DEFINE c == ScanDirectory(b, path, fav)
  <1>1. c = ScanDirectory(b, path, fav)
    OBVIOUS
  <1> HIDE DEF c
  <1>2. /\ BrowserSound(c) /\ c.visible = b.visible /\ c.path = path
        /\ c.sel = 1 /\ c.scroll = 0 /\ c.sel \in 1..Len(c.entries) /\ c \in Browsers
    BY <1>1, Scanned
  <1>3. Len(c.entries) \in Nat
    BY <1>2 DEF Browsers
  <1>4. Visible(Len(c.entries), MaxVisible) \in Nat
    BY <1>3, MenuConstants DEF Visible, AtMost
  <1>5. BrowserCursorShown(c)
    BY <1>2, <1>4 DEF BrowserCursorShown
  <1> QED
    BY <1>2, <1>5 DEF c, Fresh

LEMMA FreshClosed == Fresh(ClosedBrowser) /\ ClosedBrowser.visible = FALSE /\ ~ClosedBrowser.visible
                     /\ ClosedBrowser.path = <<>>
  <1>1. ClosedBrowser \in Browsers
    <2>1. <<>> \in FolderPaths /\ <<>> \in Seq(Entries)
      BY DEF FolderPaths
    <2> QED
      BY <2>1 DEF ClosedBrowser, Browsers
  <1>2. ClosedBrowser.visible = FALSE /\ ~ClosedBrowser.visible /\ ClosedBrowser.path = <<>>
    BY DEF ClosedBrowser
  <1> QED
    BY <1>1, <1>2 DEF Fresh, BrowserSound, BrowserCursorShown

LEMMA FreshOpen ==
    ASSUME NEW b \in Browsers, NEW fav \in FolderPaths
    PROVE  /\ Fresh(OpenBrowser(b, fav)) /\ Fresh(OpenForFolderPick(b, fav))
  <1>0. <<>> \in FolderPaths
    BY DEF FolderPaths
  <1>1. ASSUME NEW d \in Browsers PROVE Fresh(OpenBrowser(d, fav))
    <2>1. [d EXCEPT !.visible = TRUE] \in Browsers
      BY DEF Browsers
    <2> QED
      BY <1>0, <2>1, FreshScan DEF OpenBrowser
  <1>2. [b EXCEPT !.pick = TRUE] \in Browsers
    BY DEF Browsers
  <1> QED
    BY <1>1, <1>2 DEF OpenForFolderPick

LEMMA ParentPath ==
    ASSUME NEW path \in FolderPaths
    PROVE  /\ GetParentPath(path) \in FolderPaths
           /\ path # <<>> => Len(GetParentPath(path)) = Len(path) - 1 /\ Len(path) \in Nat \ {0}
  <1>1. path \in Seq(STRING) /\ Len(path) \in Nat
    BY DEF FolderPaths
  <1>2. CASE path = <<>>
    BY <1>2, <1>1 DEF GetParentPath, FolderPaths
  <1>3. CASE path # <<>>
    <2>1. Len(path) # 0
      BY <1>1, <1>3
    <2>2. GetParentPath(path) = SubSeq(path, 1, Len(path) - 1)
      BY <1>3 DEF GetParentPath, Front
    <2>3. SubSeq(path, 1, Len(path) - 1) \in Seq(STRING)
          /\ Len(SubSeq(path, 1, Len(path) - 1)) = Len(path) - 1
      <3>1. Len(path) - 1 \in Int /\ 1 \in Int /\ \A i \in 1..Len(path) - 1 : path[i] \in STRING
        BY <1>1, <2>1
      <3>2. /\ SubSeq(path, 1, Len(path) - 1) \in Seq(STRING)
            /\ Len(SubSeq(path, 1, Len(path) - 1)) = IF 1 <= Len(path) - 1 THEN Len(path) - 1 - 1 + 1 ELSE 0
        BY <3>1, SubSeqProperties
      <3> DEFINE n == Len(path)
                 m == Len(SubSeq(path, 1, Len(path) - 1))
      <3>3. n \in Nat /\ n # 0 /\ m = IF 1 <= n - 1 THEN n - 1 - 1 + 1 ELSE 0
        BY <1>1, <2>1, <3>2
      <3>4. m = n - 1
        <4> HIDE DEF n, m
        <4> QED
          BY <3>3
      <3> QED
        BY <3>2, <3>4
    <2> QED
      BY <1>1, <2>1, <2>2, <2>3 DEF FolderPaths
  <1> QED
    BY <1>2, <1>3

(* Back closes the list of the drives, or shows the folder above. *)
LEMMA FreshBack ==
    ASSUME NEW b \in Browsers, NEW fav \in FolderPaths
    PROVE  LET c == BrowserBack(b, fav)
           IN  /\ Fresh(c)
               /\ c.visible => b.visible
               /\ b.path = <<>> => ~c.visible
               /\ b.path # <<>> => c.visible = b.visible /\ Len(c.path) = Len(b.path) - 1
  <1>0. b.path \in FolderPaths
    BY DEF Browsers
  <1>1. CASE b.path = <<>>
    BY <1>1, FreshClosed DEF BrowserBack, CloseBrowser
  <1>2. CASE b.path # <<>>
    <2>1. BrowserBack(b, fav) = ScanDirectory(b, GetParentPath(b.path), fav)
      BY <1>2 DEF BrowserBack
    <2>2. GetParentPath(b.path) \in FolderPaths /\ Len(GetParentPath(b.path)) = Len(b.path) - 1
      BY <1>0, <1>2, ParentPath
    <2> QED
      BY <1>2, <2>1, <2>2, FreshScan
  <1> QED
    BY <1>1, <1>2

LEMMA EntryUnderCursor ==
    ASSUME NEW b \in OpenBrowsers
    PROVE  Selected(b).kind \in EntryKinds /\ Selected(b).path \in FolderPaths
  <1>1. b.entries \in Seq(Entries) /\ b.sel \in 1..Len(b.entries)
    BY DEF OpenBrowsers, Browsers
  <1>2. Selected(b) \in Entries
    BY <1>1 DEF Selected
  <1> QED
    BY <1>2 DEF Entries

LEMMA FreshConfirm ==
    ASSUME NEW b \in OpenBrowsers, NEW fav \in FolderPaths
    PROVE  Fresh(BrowserConfirm(b, fav))
  <1> DEFINE e == Selected(b)
  <1>1. e.path \in FolderPaths /\ b \in Browsers /\ e.kind \in EntryKinds
    BY EntryUnderCursor DEF OpenBrowsers
  <1> HIDE DEF e
  <1>2. BrowserConfirm(b, fav) =
            CASE e.kind \in {"set", "clear"}      -> CloseBrowser(b)
              [] e.kind = "up"                    -> BrowserBack(b, fav)
              [] e.kind \in {"favourite", "folder"} -> ScanDirectory(b, IF e.kind = "favourite"
                                                                   THEN fav ELSE e.path, fav)
              [] OTHER                            -> CloseBrowser(b)
    BY DEF BrowserConfirm, e
  <1>3. Fresh(CloseBrowser(b)) /\ Fresh(BrowserBack(b, fav))
    BY <1>1, FreshClosed, FreshBack DEF CloseBrowser
  <1>4. Fresh(ScanDirectory(b, fav, fav)) /\ Fresh(ScanDirectory(b, e.path, fav))
    BY <1>1, FreshScan
  <1>5. CASE e.kind \in {"set", "clear"}
    BY <1>2, <1>3, <1>5
  <1>6. CASE e.kind = "up"
    BY <1>2, <1>3, <1>6
  <1>7. CASE e.kind = "favourite"
    BY <1>2, <1>4, <1>7
  <1>8. CASE e.kind = "folder"
    BY <1>2, <1>4, <1>8
  <1>9. CASE e.kind \in {"separator", "file"}
    BY <1>2, <1>3, <1>9
  <1> QED
    BY <1>1, <1>5, <1>6, <1>7, <1>8, <1>9 DEF EntryKinds

LEMMA ChosenPaths ==
    ASSUME NEW b \in OpenBrowsers
    PROVE  /\ ChosenFile(b) # <<>> => Head(ChosenFile(b)) \in FolderPaths
           /\ ChosenFolder(b) # <<>> => Head(ChosenFolder(b)) \in FolderPaths
  <1>1. Selected(b).path \in FolderPaths /\ b.path \in FolderPaths /\ <<>> \in FolderPaths
    BY EntryUnderCursor DEF OpenBrowsers, Browsers, FolderPaths
  <1>2. ASSUME ChosenFile(b) # <<>> PROVE Head(ChosenFile(b)) \in FolderPaths
    <2> DEFINE path == Selected(b).path
    <2>1. ChosenFile(b) = <<path>>
      BY <1>2 DEF ChosenFile
    <2> HIDE DEF path
    <2>2. Head(<<path>>) = path
      OBVIOUS
    <2> QED
      BY <1>1, <2>1, <2>2 DEF path
  <1>3. ASSUME ChosenFolder(b) # <<>> PROVE Head(ChosenFolder(b)) \in FolderPaths
    <2> DEFINE path == IF Selected(b).kind = "set" THEN b.path ELSE <<>>
    <2>1. ChosenFolder(b) = <<path>>
      BY <1>3 DEF ChosenFolder
    <2>2. path \in FolderPaths
      BY <1>1
    <2> HIDE DEF path
    <2>3. Head(<<path>>) = path
      OBVIOUS
    <2> QED
      BY <2>1, <2>2, <2>3
  <1> QED
    BY <1>2, <1>3

(***************************************************************************)
(* The history: what remove_if leaves, and the list with the game that     *)
(* started in front.                                                       *)
(***************************************************************************)
Scan(W, list, g, N) ==
    [n \in 0..N |-> IF n = 0 THEN <<>> ELSE IF list[n] = g THEN W[n - 1] ELSE Append(W[n - 1], list[n])]

LEMMA ScanExists ==
    ASSUME NEW list, NEW g, NEW len \in Nat PROVE \E W : W = Scan(W, list, g, len)
  <1> DEFINE Bad == {n \in Nat : ~ \E W : W = Scan(W, list, g, n)}
  <1> SUFFICES ASSUME Bad # {} PROVE FALSE
    OBVIOUS
  <1>1. PICK n \in Bad : \A m \in Bad : n <= m
    <2>1. Bad \in SUBSET Nat
      OBVIOUS
    <2> HIDE DEF Bad
    <2> QED
      BY <2>1, LeastNumber
  <1>2. n \in Nat /\ ~ \E W : W = Scan(W, list, g, n)
    BY <1>1
  <1>3. CASE n = 0
    <2> DEFINE V == [m \in 0..0 |-> <<>>]
    <2>1. V = Scan(V, list, g, 0)
      BY DEF Scan
    <2> QED
      BY <1>2, <1>3, <2>1
  <1>4. CASE n # 0
    <2>1. n - 1 \in Nat /\ n - 1 \notin Bad
      BY <1>1, <1>4
    <2>2. PICK W : W = Scan(W, list, g, n - 1)
      BY <2>1
    <2> DEFINE V == [m \in 0..n |-> IF m < n THEN W[m]
                                   ELSE IF list[n] = g THEN W[n - 1] ELSE Append(W[n - 1], list[n])]
    <2>3. ASSUME NEW m \in 0..n
          PROVE  V[m] = IF m = 0 THEN <<>> ELSE IF list[m] = g THEN V[m - 1] ELSE Append(V[m - 1], list[m])
      <3>1. CASE m = n
        <4>1. V[m] = (IF list[n] = g THEN W[n - 1] ELSE Append(W[n - 1], list[n])) /\ V[n - 1] = W[n - 1]
          BY <1>2, <1>4, <3>1
        <4> HIDE DEF V
        <4> QED
          BY <1>4, <3>1, <4>1
      <3>2. CASE m < n
        <4>1. m \in 0..n - 1
          BY <1>2, <3>2
        <4>2. W[m] = IF m = 0 THEN <<>> ELSE IF list[m] = g THEN W[m - 1] ELSE Append(W[m - 1], list[m])
          BY <2>2, <4>1 DEF Scan
        <4>3. V[m] = W[m] /\ (m # 0 => V[m - 1] = W[m - 1])
          BY <1>2, <3>2
        <4> HIDE DEF V
        <4> QED
          BY <4>2, <4>3
      <3> QED
        BY <1>2, <3>1, <3>2
    <2>4. V = [m \in 0..n |-> V[m]]
      OBVIOUS
    <2>5. V = Scan(V, list, g, n)
      <3> HIDE DEF V
      <3> QED
        BY <2>3, <2>4 DEF Scan
    <2> QED
      BY <1>2, <2>5
  <1> QED
    BY <1>3, <1>4

LEMMA WithoutTyped ==
    ASSUME NEW list \in Seq(FolderPaths), NEW g PROVE Without(list, g) \in Seq(FolderPaths)
  <1> DEFINE len == Len(list)
             R == CHOOSE W : W = Scan(W, list, g, len)
             Bad == {n \in 0..len : R[n] \notin Seq(FolderPaths)}
  <1>0. len \in Nat /\ \A n \in 1..len : list[n] \in FolderPaths
    OBVIOUS
  <1>1. Without(list, g) = R[len]
    BY DEF Without, Scan
  <1>2. R = Scan(R, list, g, len)
    <2> HIDE DEF len
    <2> QED
      BY <1>0, ScanExists
  <1> HIDE DEF R, len
  <1>3. Bad = {}
    <2> SUFFICES ASSUME Bad # {} PROVE FALSE
      OBVIOUS
    <2>1. PICK n \in Bad : \A m \in Bad : n <= m
      <3>1. Bad \in SUBSET Nat
        BY <1>0
      <3> HIDE DEF Bad
      <3> QED
        BY <3>1, LeastNumber
    <2>2. R[n] = IF n = 0 THEN <<>> ELSE IF list[n] = g THEN R[n - 1] ELSE Append(R[n - 1], list[n])
      BY <1>2, <2>1 DEF Scan
    <2>3. <<>> \in Seq(FolderPaths)
      OBVIOUS
    <2>4. n # 0
      BY <2>1, <2>2, <2>3
    <2>5. n \in 1..len /\ n - 1 \in 0..len /\ n - 1 \notin Bad
      BY <1>0, <2>1, <2>4
    <2>6. R[n - 1] \in Seq(FolderPaths) /\ list[n] \in FolderPaths
      BY <1>0, <2>5
    <2>7. Append(R[n - 1], list[n]) \in Seq(FolderPaths)
      BY <2>6, AppendProperties
    <2> QED
      BY <2>1, <2>2, <2>4, <2>6, <2>7
  <1> QED
    BY <1>0, <1>1, <1>3

LEMMA HistoryTyped ==
    ASSUME NEW list \in Seq(FolderPaths), NEW g \in FolderPaths
    PROVE  AddToHistoryList(list, g) \in Seq(FolderPaths) /\ Len(AddToHistoryList(list, g)) <= MaxHistory
           /\ AddToHistoryList(list, g) # <<>>
  <1> DEFINE longer == <<g>> \o Without(list, g)
             m == IF Len(longer) > MaxHistory THEN MaxHistory ELSE Len(longer)
             s == SubSeq(longer, 1, m)
  <1>1. <<g>> \in Seq(FolderPaths) /\ Len(<<g>>) = 1 /\ Without(list, g) \in Seq(FolderPaths)
    BY WithoutTyped
  <1>2. longer \in Seq(FolderPaths) /\ Len(longer) \in Nat /\ Len(longer) >= 1
    <2>1. longer \in Seq(FolderPaths) /\ Len(longer) = Len(<<g>>) + Len(Without(list, g))
      BY <1>1, ConcatProperties
    <2>2. Len(Without(list, g)) \in Nat
      BY <1>1
    <2> QED
      BY <1>1, <2>1, <2>2
  <1>3. AddToHistoryList(list, g) = s
    BY DEF AddToHistoryList
  <1> HIDE DEF longer
  <1>4. m \in Int /\ m >= 1 /\ m <= MaxHistory /\ \A i \in 1..m : longer[i] \in FolderPaths
    BY <1>2, MenuConstants
  <1> HIDE DEF m
  <1>5. s \in Seq(FolderPaths) /\ Len(s) = IF 1 <= m THEN m - 1 + 1 ELSE 0
    BY <1>4, SubSeqProperties
  <1> HIDE DEF s
  <1>6. Len(s) = m
    BY <1>4, <1>5
  <1>7. s # <<>>
    BY <1>4, <1>6
  <1> QED
    BY <1>3, <1>4, <1>5, <1>6, <1>7
(***************************************************************************)
(* The stack of the overlays takes five forms, and each has its list.      *)
(***************************************************************************)
Sections == {<<"Settings", "General">>, <<"Settings", "Input">>}
Stacks   == {<<>>, <<"Settings">>, <<"History">>} \cup Sections

TitleOf(stack) == IF stack # <<>> THEN Last(stack) ELSE "main"

ItemsFor(stack, games) ==
    IF stack # <<>>
    THEN CASE TitleOf(stack) = "Settings" -> SettingsItems
           [] TitleOf(stack) = "General"  -> GeneralItems
           [] TitleOf(stack) = "Input"    -> InputItems
           [] TitleOf(stack) = "History"  -> HistoryItems(games)
    ELSE MainItems

LEMMA ItemsAre == Items = ItemsFor(overlay, historyRows) /\ Items' = ItemsFor(overlay', historyRows')
  <1>1. Items = ItemsFor(overlay, historyRows)
    BY DEF Items, ItemsFor, ItemsOf, OverlayActive, Title, TitleOf
  <1>2. Items' = ItemsFor(overlay', historyRows')
    BY DEF Items, ItemsFor, ItemsOf, OverlayActive, Title, TitleOf
  <1> QED
    BY <1>1, <1>2

LEMMA LastOf ==
    /\ \A x : Last(<<x>>) = x /\ Len(<<x>>) = 1 /\ <<x>> # <<>>
    /\ \A x, y : Last(<<x, y>>) = y /\ Len(<<x, y>>) = 2 /\ <<x, y>> # <<>>
    /\ Len(<<>>) = 0
  BY DEF Last

LEMMA ItemsOn ==
    ASSUME NEW games
    PROVE  /\ ItemsFor(<<>>, games) = MainItems
           /\ ItemsFor(<<"Settings">>, games) = SettingsItems
           /\ ItemsFor(<<"History">>, games) = HistoryItems(games)
           /\ ItemsFor(<<"Settings", "General">>, games) = GeneralItems
           /\ ItemsFor(<<"Settings", "Input">>, games) = InputItems
  <1>1. ItemsFor(<<>>, games) = MainItems
    BY DEF ItemsFor
  <1>2. ItemsFor(<<"Settings">>, games) = SettingsItems
    BY LastOf DEF ItemsFor, TitleOf
  <1>3. ItemsFor(<<"History">>, games) = HistoryItems(games)
    BY LastOf DEF ItemsFor, TitleOf
  <1>4. ItemsFor(<<"Settings", "General">>, games) = GeneralItems
    <2> DEFINE two == <<"Settings", "General">>
    <2>1. two # <<>> /\ Last(two) = "General"
      BY LastOf
    <2> HIDE DEF two
    <2>2. ItemsFor(two, games) = GeneralItems
      BY <2>1 DEF ItemsFor, TitleOf
    <2> QED
      BY <2>2 DEF two
  <1>5. ItemsFor(<<"Settings", "Input">>, games) = InputItems
    <2> DEFINE two == <<"Settings", "Input">>
    <2>1. two # <<>> /\ Last(two) = "Input"
      BY LastOf
    <2> HIDE DEF two
    <2>2. ItemsFor(two, games) = InputItems
      BY <2>1 DEF ItemsFor, TitleOf
    <2> QED
      BY <2>2 DEF two
  <1> QED
    BY <1>1, <1>2, <1>3, <1>4, <1>5

LEMMA ListOn ==
    ASSUME NEW stack \in Stacks, NEW games \in Seq(FolderPaths)
    PROVE  LET items == ItemsFor(stack, games)
           IN  /\ Len(items) \in Nat \ {0}
               /\ \E i \in 1..Len(items) : Selectable(items[i])
               /\ stack = <<>> => \A i \in 1..Len(items) : items[i] \in MainRows
               /\ stack = <<"Settings">> => \A i \in 1..Len(items) : items[i] \in SettingsRows
               /\ stack = <<"History">> => \A i \in 1..Len(items) : items[i] \in HistoryRows
               /\ stack \in Sections => \A i \in 1..Len(items) : items[i] \in SectionRows
  <1> DEFINE items == ItemsFor(stack, games)
  <1>0. \A s, S : ListOf(s, S) => Len(s) \in Nat \ {0} /\ (\E i \in 1..Len(s) : Selectable(s[i]))
                               /\ \A i \in 1..Len(s) : s[i] \in S
    BY DEF ListOf
  <1>a. /\ <<>> # <<"Settings">> /\ <<>> # <<"History">> /\ <<"Settings">> # <<"History">>
        /\ <<>> \notin Sections /\ <<"Settings">> \notin Sections /\ <<"History">> \notin Sections
    BY DEF Sections
  <1>1. CASE stack = <<>>
    <2>1. ListOf(items, MainRows)
      BY <1>1, ItemsOn, MainList
    <2> HIDE DEF items
    <2> QED
      BY <1>0, <1>a, <1>1, <2>1 DEF items
  <1>2. CASE stack = <<"Settings">>
    <2>1. ListOf(items, SettingsRows)
      BY <1>2, ItemsOn, SettingsList
    <2> HIDE DEF items
    <2> QED
      BY <1>0, <1>a, <1>2, <2>1 DEF items
  <1>3. CASE stack = <<"History">>
    <2>1. ListOf(items, HistoryRows)
      BY <1>3, ItemsOn, HistoryList
    <2> HIDE DEF items
    <2> QED
      BY <1>0, <1>a, <1>3, <2>1 DEF items
  <1>4. CASE stack \in Sections
    <2>1. ListOf(items, SectionRows)
      BY <1>4, ItemsOn, GeneralList, InputList DEF Sections
    <2> HIDE DEF items
    <2> QED
      BY <1>0, <1>a, <1>4, <2>1 DEF items
  <1> QED
    BY <1>1, <1>2, <1>3, <1>4 DEF Stacks

(* What a row may ask for tells which list it is in. *)
LEMMA RowOn ==
    ASSUME NEW stack \in Stacks, NEW games \in Seq(FolderPaths),
           NEW at \in 1..Len(ItemsFor(stack, games)),
           NEW row, row = ItemsFor(stack, games)[at]
    PROVE  /\ row.action \in {"OPEN_FILE", "SETTINGS", "OPEN_HISTORY", "ABOUT", "EXIT"} => stack = <<>>
           /\ row.action \in {"GENERAL", "INPUT", "RESET_ALL_SETTINGS", "CLEAR_LOGS"} => stack = <<"Settings">>
           /\ row.action \in {"HISTORY", "NO_HISTORY", "CLEAR_HISTORY"} => stack = <<"History">>
           /\ row.action \in {"TOGGLE_VALUE", "PICK_FOLDER", "RELOAD_SETTINGS", "RESTART_APP", "RESET_DEFAULTS"}
              => stack \in Sections
           /\ row.action = "BACK" => stack # <<>>
           /\ row.action \in {"OPEN_FILE", "SETTINGS", "OPEN_HISTORY", "ABOUT", "EXIT", "GENERAL", "INPUT",
                 "RESET_ALL_SETTINGS", "CLEAR_LOGS", "HISTORY", "NO_HISTORY", "CLEAR_HISTORY", "TOGGLE_VALUE",
                 "PICK_FOLDER", "RELOAD_SETTINGS", "RESTART_APP", "RESET_DEFAULTS", "BACK", "NONE"}
           /\ row.action = "TOGGLE_VALUE" /\ row.enabled => row.key \in OptionKeys /\ row = Toggle(row.key)
           /\ row.action = "HISTORY" => row.key \in FolderPaths
  <1>a. /\ <<>> # <<"Settings">> /\ <<>> # <<"History">> /\ <<"Settings">> # <<"History">>
        /\ <<>> \notin Sections /\ <<"Settings">> \notin Sections /\ <<"History">> \notin Sections
    BY DEF Sections
  <1>1. CASE stack = <<>>
    <2>1. row \in MainRows
      BY <1>1, ListOn
    <2>2. row.action \in {"OPEN_FILE", "NONE", "SETTINGS", "OPEN_HISTORY", "ABOUT", "EXIT"}
      BY <2>1, MainRowFacts
    <2> QED
      BY <1>1, <2>2
  <1>2. CASE stack = <<"Settings">>
    <2>1. row \in SettingsRows
      BY <1>2, ListOn
    <2>2. row.action \in {"GENERAL", "INPUT", "NONE", "RESET_ALL_SETTINGS", "CLEAR_LOGS", "BACK"}
      BY <2>1, SettingsRowFacts
    <2> QED
      BY <1>a, <1>2, <2>2
  <1>3. CASE stack = <<"History">>
    <2>1. row \in HistoryRows
      BY <1>3, ListOn
    <2>2. /\ row.action \in {"HISTORY", "NO_HISTORY", "NONE", "CLEAR_HISTORY", "BACK"}
          /\ row.action = "HISTORY" => row.key \in FolderPaths
      BY <2>1, HistoryRowFacts
    <2> QED
      BY <1>a, <1>3, <2>2
  <1>4. CASE stack \in Sections
    <2>1. row \in SectionRows
      BY <1>4, ListOn
    <2>2. /\ row.action \in {"TOGGLE_VALUE", "NONE", "PICK_FOLDER", "RELOAD_SETTINGS", "RESTART_APP",
                             "RESET_DEFAULTS", "BACK"}
          /\ row.action = "TOGGLE_VALUE" /\ row.enabled => row.key \in OptionKeys /\ row = Toggle(row.key)
      BY <2>1, SectionRowFacts
    <2> QED
      BY <1>a, <1>4, <2>2
  <1> QED
    BY <1>1, <1>2, <1>3, <1>4 DEF Stacks
(***************************************************************************)
(* The places of the menu: the cursor is on a row of the list on top, and  *)
(* the places kept are rows of the lists they were left in.  And, where    *)
(* the panel has room for the rows it is to show, the row of the cursor is *)
(* one of those, or of the rows the pointer reaches below, on each list.   *)
(***************************************************************************)
Placed(stack, s, sc, panel, saved, games) ==
    /\ stack \in Stacks /\ games \in Seq(FolderPaths)
    /\ s \in 1..Len(ItemsFor(stack, games)) /\ sc \in Nat
    /\ panel \in Position /\ panel.sel \in 1..Len(MainItems)
    /\ stack \in Sections => \E at \in Position : saved = <<at>> /\ at.sel \in 1..Len(SettingsItems)
    /\ stack \notin Sections => saved = <<>>

FitsAt(len, s, sc) ==
    /\ sc < s /\ s <= sc + AtMost(len, MenuVisible) + Below
    /\ sc + AtMost(len, MenuVisible) <= len

Lit(stack, s, sc, panel, saved, games) ==
    /\ FitsAt(Len(ItemsFor(stack, games)), s, sc)
    /\ FitsAt(Len(MainItems), panel.sel, panel.scroll)
    /\ \A at : saved = <<at>> => FitsAt(Len(SettingsItems), at.sel, at.scroll)

(* The places after a step, for those before it. *)
Carries(stack, s, sc, panel, saved, games, stack2, s2, sc2, panel2, saved2, games2) ==
    /\ Placed(stack2, s2, sc2, panel2, saved2, games2)
    /\ Lit(stack, s, sc, panel, saved, games) => Lit(stack2, s2, sc2, panel2, saved2, games2)

LEMMA TopFits == ASSUME NEW len \in Nat \ {0} PROVE FitsAt(len, 1, 0)
  BY MenuConstants DEF FitsAt, AtMost

LEMMA FrontOf ==
    /\ \A x : Front(<<x>>) = <<>>
    /\ \A x, y : Front(<<x, y>>) = <<x>>
  <1>1. ASSUME NEW x PROVE Front(<<x>>) = <<>>
    BY SubSeqEmpty DEF Front
  <1>2. ASSUME NEW x, NEW y PROVE Front(<<x, y>>) = <<x>>
    <2> DEFINE s == <<x, y>>
    <2>1. Len(s) = 2 /\ s[1] = x /\ s[1] \in {x}
      OBVIOUS
    <2>2. Front(s) = SubSeq(s, 1, 1)
      BY <2>1 DEF Front
    <2> HIDE DEF s
    <2>3. SubSeq(s, 1, 1) \in Seq({x}) /\ Len(SubSeq(s, 1, 1)) = 1 /\ SubSeq(s, 1, 1)[1] = s[1]
      <3>1. \A i \in 1..1 : s[i] \in {x}
        BY <2>1
      <3>2. /\ SubSeq(s, 1, 1) \in Seq({x}) /\ Len(SubSeq(s, 1, 1)) = IF 1 <= 1 THEN 1 - 1 + 1 ELSE 0
            /\ \A i \in 1..1 - 1 + 1 : SubSeq(s, 1, 1)[i] = s[1 + i - 1]
        BY <3>1, SubSeqProperties
      <3> QED
        BY <3>2
    <2> DEFINE f == SubSeq(s, 1, 1)
    <2>4. f \in Seq({x}) /\ Len(f) = 1 /\ f[1] = x
      BY <2>1, <2>3
    <2> HIDE DEF f
    <2>5. f = <<x>>
      BY <2>4
    <2> QED
      BY <2>2, <2>5 DEF f, s
  <1> QED
    BY <1>1, <1>2

LEMMA StackFacts ==
    /\ <<>> \in Stacks /\ <<"Settings">> \in Stacks /\ <<"History">> \in Stacks /\ Sections \subseteq Stacks
    /\ <<>> # <<"Settings">> /\ <<>> # <<"History">> /\ <<"Settings">> # <<"History">>
    /\ <<>> \notin Sections /\ <<"Settings">> \notin Sections /\ <<"History">> \notin Sections
    /\ \A stack \in Sections : Front(stack) = <<"Settings">> /\ Len(stack) = 2
    /\ Append(<<"Settings">>, "General") \in Sections /\ Append(<<"Settings">>, "Input") \in Sections
    /\ Len(<<>>) = 0 /\ Len(<<"Settings">>) = 1 /\ Len(<<"History">>) = 1
  <1>1. /\ <<>> \in Stacks /\ <<"Settings">> \in Stacks /\ <<"History">> \in Stacks /\ Sections \subseteq Stacks
    BY DEF Stacks
  <1>2. /\ <<>> # <<"Settings">> /\ <<>> # <<"History">> /\ <<"Settings">> # <<"History">>
        /\ <<>> \notin Sections /\ <<"Settings">> \notin Sections /\ <<"History">> \notin Sections
    <2>1. <<>> # <<"Settings">> /\ <<>> # <<"History">>
      OBVIOUS
    <2>2. <<"Settings">> # <<"History">>
      <3>1. <<"Settings">>[1] # <<"History">>[1]
        OBVIOUS
      <3> QED
        BY <3>1
    <2>3. \A stack \in Sections : Len(stack) = 2
      BY DEF Sections
    <2>4. Len(<<>>) # 2 /\ Len(<<"Settings">>) # 2 /\ Len(<<"History">>) # 2
      OBVIOUS
    <2>5. <<>> \notin Sections /\ <<"Settings">> \notin Sections /\ <<"History">> \notin Sections
      BY <2>3, <2>4
    <2> QED
      BY <2>1, <2>2, <2>5
  <1>4. \A stack \in Sections : Front(stack) = <<"Settings">> /\ Len(stack) = 2
    BY FrontOf DEF Sections
  <1>5. Append(<<"Settings">>, "General") \in Sections /\ Append(<<"Settings">>, "Input") \in Sections
    <2>1. ASSUME NEW x, NEW y PROVE Append(<<x>>, y) = <<x, y>>
      <3> DEFINE S == {x, y}
                 one == <<x>>
                 s == Append(one, y)
      <3>1. one \in Seq(S) /\ Len(one) = 1 /\ one[1] = x /\ y \in S
        OBVIOUS
      <3> HIDE DEF one, S
      <3>2. s \in Seq(S) /\ Len(s) = 2 /\ s[1] = x /\ s[2] = y
        <4>1. s \in Seq(S) /\ Len(s) = Len(one) + 1
          BY <3>1, AppendProperties
        <4>2. \A i \in 1..Len(one) : s[i] = one[i]
          BY <3>1, AppendProperties
        <4>3. s[Len(one) + 1] = y
          BY <3>1, AppendProperties
        <4> HIDE DEF s
        <4> QED
          BY <3>1, <4>1, <4>2, <4>3
      <3> HIDE DEF s
      <3>3. s = <<x, y>>
        BY <3>2
      <3> QED
        BY <3>3 DEF s, one
    <2> QED
      BY <2>1 DEF Sections
  <1> QED
    BY <1>1, <1>2, <1>4, <1>5

LEMMA NothingSaved ==
    ASSUME NEW stack, NEW s, NEW sc, NEW panel, NEW saved, NEW games,
           Placed(stack, s, sc, panel, saved, games), stack \notin Sections
    PROVE  saved = <<>>
  BY DEF Placed

LEMMA RebuiltPlaces ==
    ASSUME NEW stack, NEW s, NEW sc, NEW panel, NEW saved, NEW games,
           Placed(stack, s, sc, panel, saved, games)
    PROVE  Carries(stack, s, sc, panel, saved, games, <<>>, 1, 0, panel, <<>>, games)
  <1>1. ItemsFor(<<>>, games) = MainItems /\ Len(MainItems) = 7
    BY ItemsOn, MainList
  <1>2. FitsAt(7, 1, 0) /\ 1 \in 1..7 /\ 0 \in Nat
    BY TopFits
  <1>3. Placed(<<>>, 1, 0, panel, <<>>, games)
    BY <1>1, <1>2, StackFacts DEF Placed
  <1>4. \A at : <<>> # <<at>>
    OBVIOUS
  <1>5. ASSUME Lit(stack, s, sc, panel, saved, games) PROVE Lit(<<>>, 1, 0, panel, <<>>, games)
    <2>1. FitsAt(Len(MainItems), panel.sel, panel.scroll)
      BY <1>5 DEF Lit
    <2> QED
      BY <1>1, <1>2, <1>4, <2>1 DEF Lit
  <1> QED
    BY <1>3, <1>5 DEF Carries

LEMMA ClosedPlaces ==
    ASSUME NEW stack, NEW s, NEW sc, NEW panel, NEW saved, NEW games,
           Placed(stack, s, sc, panel, saved, games)
    PROVE  Carries(stack, s, sc, panel, saved, games, <<>>, panel.sel, panel.scroll, panel, <<>>, games)
  <1>1. ItemsFor(<<>>, games) = MainItems
    BY ItemsOn
  <1>2. panel.sel \in 1..Len(MainItems) /\ panel.scroll \in Nat
    BY DEF Placed, Position
  <1>3. Placed(<<>>, panel.sel, panel.scroll, panel, <<>>, games)
    BY <1>1, <1>2, StackFacts DEF Placed
  <1>4. \A at : <<>> # <<at>>
    OBVIOUS
  <1>5. ASSUME Lit(stack, s, sc, panel, saved, games)
        PROVE  Lit(<<>>, panel.sel, panel.scroll, panel, <<>>, games)
    <2>1. FitsAt(Len(MainItems), panel.sel, panel.scroll)
      BY <1>5 DEF Lit
    <2> QED
      BY <1>1, <1>4, <2>1 DEF Lit
  <1> QED
    BY <1>3, <1>5 DEF Carries

LEMMA OpenedPlaces ==
    ASSUME NEW s, NEW sc, NEW panel, NEW saved, NEW games, NEW games2 \in Seq(FolderPaths),
           NEW stack2 \in {<<"Settings">>, <<"History">>},
           Placed(<<>>, s, sc, panel, saved, games)
    PROVE  Carries(<<>>, s, sc, panel, saved, games, stack2, 1, 0, [sel |-> s, scroll |-> sc], saved, games2)
  <1> DEFINE at == [sel |-> s, scroll |-> sc]
  <1>1. ItemsFor(<<>>, games) = MainItems /\ s \in 1..Len(MainItems) /\ sc \in Nat /\ saved = <<>>
    BY ItemsOn, StackFacts DEF Placed
  <1>2. at \in Position /\ at.sel = s /\ at.scroll = sc
    BY <1>1, MainList DEF Position
  <1> HIDE DEF at
  <1>3. stack2 \in Stacks /\ stack2 \notin Sections
    BY StackFacts
  <1>4. Len(ItemsFor(stack2, games2)) \in Nat \ {0}
    BY <1>3, ListOn
  <1>5. FitsAt(Len(ItemsFor(stack2, games2)), 1, 0) /\ 1 \in 1..Len(ItemsFor(stack2, games2)) /\ 0 \in Nat
    BY <1>4, TopFits
  <1>6. Placed(stack2, 1, 0, at, saved, games2)
    BY <1>1, <1>2, <1>3, <1>5 DEF Placed
  <1>7. \A x : saved # <<x>>
    BY <1>1
  <1>8. ASSUME Lit(<<>>, s, sc, panel, saved, games) PROVE Lit(stack2, 1, 0, at, saved, games2)
    <2>1. FitsAt(Len(MainItems), s, sc)
      BY <1>1, <1>8 DEF Lit
    <2> QED
      BY <1>2, <1>5, <1>7, <2>1 DEF Lit
  <1> QED
    BY <1>6, <1>8 DEF Carries, at

LEMMA PushedPlaces ==
    ASSUME NEW s, NEW sc, NEW panel, NEW saved, NEW games, NEW title \in SectionTitles,
           Placed(<<"Settings">>, s, sc, panel, saved, games)
    PROVE  Carries(<<"Settings">>, s, sc, panel, saved, games,
                   Append(<<"Settings">>, title), 1, 0, panel, Append(saved, [sel |-> s, scroll |-> sc]), games)
  <1> DEFINE at == [sel |-> s, scroll |-> sc]
             stack2 == Append(<<"Settings">>, title)
  <1>1. /\ ItemsFor(<<"Settings">>, games) = SettingsItems /\ s \in 1..Len(SettingsItems) /\ sc \in Nat
        /\ saved = <<>> /\ games \in Seq(FolderPaths) /\ panel \in Position /\ panel.sel \in 1..Len(MainItems)
    BY ItemsOn, StackFacts DEF Placed
  <1>2. at \in Position /\ at.sel = s /\ at.scroll = sc
    BY <1>1, SettingsList DEF Position
  <1>3. Append(saved, at) = <<at>>
    BY <1>1
  <1> HIDE DEF at
  <1>4. stack2 \in Sections /\ stack2 \in Stacks
    BY StackFacts DEF SectionTitles
  <1> HIDE DEF stack2
  <1>5. Len(ItemsFor(stack2, games)) \in Nat \ {0}
    BY <1>1, <1>4, ListOn
  <1>6. FitsAt(Len(ItemsFor(stack2, games)), 1, 0) /\ 1 \in 1..Len(ItemsFor(stack2, games)) /\ 0 \in Nat
    BY <1>5, TopFits
  <1>7. Placed(stack2, 1, 0, panel, <<at>>, games)
    BY <1>1, <1>2, <1>4, <1>6 DEF Placed
  <1>8. ASSUME Lit(<<"Settings">>, s, sc, panel, saved, games) PROVE Lit(stack2, 1, 0, panel, <<at>>, games)
    <2>1. FitsAt(Len(SettingsItems), s, sc) /\ FitsAt(Len(MainItems), panel.sel, panel.scroll)
      BY <1>1, <1>8 DEF Lit
    <2>2. \A x : <<at>> = <<x>> => x = at
      OBVIOUS
    <2> QED
      BY <1>2, <1>6, <2>1, <2>2 DEF Lit
  <1> QED
    BY <1>3, <1>7, <1>8 DEF Carries, at, stack2

LEMMA PoppedPlaces ==
    ASSUME NEW stack \in Sections, NEW s, NEW sc, NEW panel, NEW saved, NEW games,
           Placed(stack, s, sc, panel, saved, games)
    PROVE  /\ Carries(stack, s, sc, panel, saved, games,
                      Front(stack), Last(saved).sel, Last(saved).scroll, panel, Front(saved), games)
           /\ saved # <<>>
  <1>1. PICK at \in Position : saved = <<at>> /\ at.sel \in 1..Len(SettingsItems)
    BY DEF Placed
  <1>2. Last(saved) = at /\ Front(saved) = <<>> /\ saved # <<>>
    BY <1>1, LastOf, FrontOf
  <1>3. Front(stack) = <<"Settings">>
    BY StackFacts
  <1>4. ItemsFor(<<"Settings">>, games) = SettingsItems /\ at.scroll \in Nat
    BY ItemsOn DEF Position
  <1>5. Placed(<<"Settings">>, at.sel, at.scroll, panel, <<>>, games)
    BY <1>1, <1>4, StackFacts DEF Placed
  <1>6. ASSUME Lit(stack, s, sc, panel, saved, games)
        PROVE  Lit(<<"Settings">>, at.sel, at.scroll, panel, <<>>, games)
    <2>1. FitsAt(Len(SettingsItems), at.sel, at.scroll) /\ FitsAt(Len(MainItems), panel.sel, panel.scroll)
      BY <1>1, <1>6 DEF Lit
    <2>2. \A x : <<>> # <<x>>
      OBVIOUS
    <2> QED
      BY <1>4, <2>1, <2>2 DEF Lit
  <1> QED
    BY <1>2, <1>3, <1>5, <1>6 DEF Carries

LEMMA MovedPlaces ==
    ASSUME NEW stack, NEW s, NEW sc, NEW panel, NEW saved, NEW games,
           Placed(stack, s, sc, panel, saved, games),
           NEW s2 \in 1..Len(ItemsFor(stack, games)), NEW sc2 \in Nat,
           FitsAt(Len(ItemsFor(stack, games)), s, sc) => FitsAt(Len(ItemsFor(stack, games)), s2, sc2)
    PROVE  Carries(stack, s, sc, panel, saved, games, stack, s2, sc2, panel, saved, games)
  <1>1. Placed(stack, s2, sc2, panel, saved, games)
    BY DEF Placed
  <1>2. Lit(stack, s, sc, panel, saved, games) => Lit(stack, s2, sc2, panel, saved, games)
    BY DEF Lit
  <1> QED
    BY <1>1, <1>2 DEF Carries

(* Where the handlers move the cursor to. *)
LEMMA MenuMoves ==
    ASSUME NEW len \in Nat \ {0}, NEW s \in 1..len, NEW sc \in Nat
    PROVE  /\ \A row \in 1..len : LET from == Follow(sc, row - 1, MenuVisible)
                                   IN  from \in Nat /\ (FitsAt(len, s, sc) => FitsAt(len, row, from))
           /\ LET row  == AtLeast(1, s - MenuVisible)
                  from == AtLeast(0, sc - MenuVisible)
              IN  row \in 1..len /\ from \in Nat /\ (FitsAt(len, s, sc) => FitsAt(len, row, from))
           /\ LET row  == AtMost(len, s + MenuVisible)
                  from == IF row - 1 >= sc + MenuVisible THEN row - MenuVisible ELSE sc
              IN  row \in 1..len /\ from \in Nat /\ (FitsAt(len, s, sc) => FitsAt(len, row, from))
  <1>0. MenuVisible \in Nat /\ MenuVisible > 0 /\ Below \in Nat
    BY MenuConstants
  <1>1. ASSUME NEW row \in 1..len
        PROVE  LET from == Follow(sc, row - 1, MenuVisible)
               IN  from \in Nat /\ (FitsAt(len, s, sc) => FitsAt(len, row, from))
    BY <1>0 DEF Follow, FitsAt, AtMost
  <1>2. LET row  == AtLeast(1, s - MenuVisible)
            from == AtLeast(0, sc - MenuVisible)
        IN  row \in 1..len /\ from \in Nat /\ (FitsAt(len, s, sc) => FitsAt(len, row, from))
    BY <1>0 DEF AtLeast, FitsAt, AtMost
  <1>3. LET row  == AtMost(len, s + MenuVisible)
            from == IF row - 1 >= sc + MenuVisible THEN row - MenuVisible ELSE sc
        IN  row \in 1..len /\ from \in Nat /\ (FitsAt(len, s, sc) => FitsAt(len, row, from))
    BY <1>0 DEF FitsAt, AtMost
  <1> QED
    BY <1>1, <1>2, <1>3

LEMMA MenuPointed ==
    ASSUME NEW len \in Nat \ {0}, NEW s \in 1..len, NEW sc \in Nat,
           NEW first, first = Clamp(sc, len, MenuVisible),
           NEW row \in (first + 1)..AtMost(len, first + Visible(len, MenuVisible) + Below)
    PROVE  row \in 1..len /\ (Fit >= MenuVisible /\ FitsAt(len, s, sc) => FitsAt(len, row, sc))
  <1>0. MenuVisible \in Nat /\ MenuVisible > 0 /\ Fit \in Nat /\ Fit > 0 /\ Below \in Nat
    BY MenuConstants
  <1> QED
    BY <1>0 DEF FitsAt, AtMost, AtLeast, Clamp, Visible
(***************************************************************************)
(* The state.                                                              *)
(***************************************************************************)
Questions == {"nothing", "reset General", "reset Input", "reset all", "reload", "clear history",
              "clear logs", "restart", "exit"}
Dialogs   == [open : BOOLEAN, confirm : BOOLEAN, asks : Questions, ok : BOOLEAN]

FlagsTyped ==
    /\ visible \in BOOLEAN /\ about \in BOOLEAN /\ coreLoaded \in BOOLEAN
    /\ loaded \in BOOLEAN /\ exited \in BOOLEAN
    /\ request = None \/ request \in FolderPaths
    /\ dialog \in Dialogs

StoredTyped ==
    /\ favourite \in FolderPaths
    /\ history \in Seq(FolderPaths) /\ Len(history) <= MaxHistory
    /\ Len(historyRows) <= MaxHistory

RowsStored ==
    /\ options \in [OptionKeys -> {None} \cup 0..(RowSize - 1)]
    /\ shown = RowsOf(options)

PlacesSound == Placed(overlay, sel, scroll, savedPanel, savedOverlay, historyRows)

OneOpen ==
    /\ ~(about /\ dialog.open)
    /\ about => overlay = <<>>
    /\ dialog.open /\ dialog.asks = "clear history" => overlay \notin Sections

MenuInv ==
    FlagsTyped /\ StoredTyped /\ RowsStored /\ BrowserSound(browser) /\ PlacesSound /\ OneOpen

(* The panel has room for the rows that the cursor is kept within. *)
Roomy == Fit >= MenuVisible /\ Fit >= MaxVisible

CursorInv ==
    /\ Lit(overlay, sel, scroll, savedPanel, savedOverlay, historyRows)
    /\ BrowserCursorShown(browser)

(* What every step does. *)
Kept == MenuInv' /\ (Roomy /\ CursorInv => CursorInv') /\ Asked

LEMMA DialogsTyped ==
    /\ NoDialog \in Dialogs /\ Tell \in Dialogs
    /\ NoDialog.open = FALSE /\ ~NoDialog.open /\ Tell.asks = "nothing"
    /\ \A q \in Questions : Ask(q) \in Dialogs /\ Ask(q).asks = q
  BY DEF NoDialog, Tell, Ask, Dialogs, Questions

LEMMA UnderRow ==
    ASSUME PlacesSound
    PROVE  /\ Len(Items) \in Nat \ {0} /\ sel \in 1..Len(Items) /\ scroll \in Nat
           /\ \E i \in 1..Len(Items) : Selectable(Items[i])
           /\ overlay \in Stacks /\ historyRows \in Seq(FolderPaths)
           /\ Under.action \in {"OPEN_FILE", "SETTINGS", "OPEN_HISTORY", "ABOUT", "EXIT"} => overlay = <<>>
           /\ Under.action \in {"GENERAL", "INPUT", "RESET_ALL_SETTINGS", "CLEAR_LOGS"} => overlay = <<"Settings">>
           /\ Under.action \in {"HISTORY", "NO_HISTORY", "CLEAR_HISTORY"} => overlay = <<"History">>
           /\ Under.action \in {"TOGGLE_VALUE", "PICK_FOLDER", "RELOAD_SETTINGS", "RESTART_APP", "RESET_DEFAULTS"}
              => overlay \in Sections
           /\ Under.action = "BACK" => overlay # <<>>
           /\ Under.action \in {"OPEN_FILE", "SETTINGS", "OPEN_HISTORY", "ABOUT", "EXIT", "GENERAL", "INPUT",
                 "RESET_ALL_SETTINGS", "CLEAR_LOGS", "HISTORY", "NO_HISTORY", "CLEAR_HISTORY", "TOGGLE_VALUE",
                 "PICK_FOLDER", "RELOAD_SETTINGS", "RESTART_APP", "RESET_DEFAULTS", "BACK", "NONE"}
           /\ Under.action = "TOGGLE_VALUE" /\ Under.enabled => Under.key \in OptionKeys /\ Under = Toggle(Under.key)
           /\ Under.action = "HISTORY" => Under.key \in FolderPaths
  <1>1. /\ overlay \in Stacks /\ historyRows \in Seq(FolderPaths) /\ scroll \in Nat
        /\ sel \in 1..Len(ItemsFor(overlay, historyRows))
        /\ Items = ItemsFor(overlay, historyRows) /\ Under = ItemsFor(overlay, historyRows)[sel]
    BY ItemsAre DEF PlacesSound, Placed, Under
  <1>2. Len(Items) \in Nat \ {0} /\ \E i \in 1..Len(Items) : Selectable(Items[i])
    BY <1>1, ListOn
  <1>3. sel \in 1..Len(Items)
    BY <1>1
  <1> HIDE DEF Under, Items
  <1> QED
    BY <1>1, <1>2, <1>3, RowOn

(* The two sides of the places, for the steps. *)
LEMMA PlacesCarry ==
    ASSUME Carries(overlay, sel, scroll, savedPanel, savedOverlay, historyRows,
                   overlay', sel', scroll', savedPanel', savedOverlay', historyRows')
    PROVE  PlacesSound' /\ (Lit(overlay, sel, scroll, savedPanel, savedOverlay, historyRows)
                => Lit(overlay', sel', scroll', savedPanel', savedOverlay', historyRows'))
  BY DEF Carries, PlacesSound

LEMMA PlacesKept ==
    ASSUME PlacesSound, UNCHANGED <<overlay, sel, scroll, savedPanel, savedOverlay, historyRows>>
    PROVE  /\ PlacesSound' /\ Under' = Under
           /\ Lit(overlay, sel, scroll, savedPanel, savedOverlay, historyRows)
                => Lit(overlay', sel', scroll', savedPanel', savedOverlay', historyRows')
  <1>1. Under' = Under
    BY ItemsAre DEF Under
  <1> QED
    BY <1>1 DEF PlacesSound

LEMMA EmptyPath == <<>> \in FolderPaths /\ <<>> \in Seq(FolderPaths) /\ Len(<<>>) <= MaxHistory
  <1>1. <<>> \in FolderPaths
    BY DEF FolderPaths
  <1>2. <<>> \in Seq(FolderPaths) /\ Len(<<>>) = 0
    OBVIOUS
  <1> QED
    BY <1>1, <1>2, MenuConstants

(* Steps that change no option. *)
LEMMA NothingAsked ==
    ASSUME options' = options, exited' = exited, history' = history, Covered' => Covered \/ CtrlL
    PROVE  Asked
  BY DEF Asked
(***************************************************************************)
(* Steps that change one thing.                                            *)
(***************************************************************************)
LEMMA KeptByParts ==
    ASSUME MenuInv, FlagsTyped', StoredTyped', RowsStored', BrowserSound(browser)', OneOpen', PlacesSound',
           Asked,
           Roomy /\ CursorInv =>
               /\ Lit(overlay', sel', scroll', savedPanel', savedOverlay', historyRows')
               /\ BrowserCursorShown(browser)'
    PROVE  Kept
  BY DEF Kept, MenuInv, CursorInv

LEMMA StillCovered ==
    ASSUME UNCHANGED <<browser, about>>, dialog'.open => dialog.open PROVE Covered' => Covered
  BY DEF Covered

LEMMA DialogStep ==
    ASSUME MenuInv, dialog' \in Dialogs, visible' \in BOOLEAN, exited' \in BOOLEAN,
           UNCHANGED <<menuVars, browser, about, settingsVars, gameVars>>,
           dialog'.open => ~about,
           dialog'.open /\ dialog'.asks = "clear history" => overlay \notin Sections,
           Asked
    PROVE  Kept
  <1> USE DEF MenuInv, menuVars, settingsVars, gameVars
  <1>1. FlagsTyped'
    BY DEF FlagsTyped
  <1>2. StoredTyped'
    BY DEF StoredTyped
  <1>3. RowsStored'
    BY DEF RowsStored, RowsOf
  <1>4. /\ PlacesSound' /\ Under' = Under
        /\ Lit(overlay, sel, scroll, savedPanel, savedOverlay, historyRows)
                => Lit(overlay', sel', scroll', savedPanel', savedOverlay', historyRows')
    BY PlacesKept
  <1>5. OneOpen'
    BY <1>4 DEF OneOpen
  <1>6. BrowserSound(browser)' /\ (BrowserCursorShown(browser) => BrowserCursorShown(browser)')
    BY DEF BrowserSound, BrowserCursorShown
  <1> QED
    BY <1>1, <1>2, <1>3, <1>4, <1>5, <1>6, KeptByParts DEF CursorInv

LEMMA BrowserStep ==
    ASSUME MenuInv, BrowserSound(browser'),
           Roomy /\ BrowserCursorShown(browser) => BrowserCursorShown(browser'),
           UNCHANGED <<visible, menuVars, about, dialog, settingsVars, gameVars, exited>>,
           browser'.visible => browser.visible \/ (~about /\ ~dialog.open) \/ CtrlL
    PROVE  Kept
  <1> USE DEF MenuInv, menuVars, settingsVars, gameVars
  <1>1. FlagsTyped'
    BY DEF FlagsTyped
  <1>2. StoredTyped'
    BY DEF StoredTyped
  <1>3. RowsStored'
    BY DEF RowsStored, RowsOf
  <1>4. /\ PlacesSound' /\ Under' = Under
        /\ Lit(overlay, sel, scroll, savedPanel, savedOverlay, historyRows)
                => Lit(overlay', sel', scroll', savedPanel', savedOverlay', historyRows')
    BY PlacesKept
  <1>5. OneOpen'
    BY <1>4 DEF OneOpen
  <1>6. BrowserSound(browser)' /\ (Roomy /\ BrowserCursorShown(browser) => BrowserCursorShown(browser)')
    OBVIOUS
  <1>7. Asked
    BY NothingAsked DEF Covered
  <1> QED
    BY <1>1, <1>2, <1>3, <1>4, <1>5, <1>6, <1>7, KeptByParts DEF CursorInv

LEMMA AboutStep ==
    ASSUME MenuInv, about' \in BOOLEAN,
           UNCHANGED <<visible, menuVars, browser, dialog, settingsVars, gameVars, exited>>,
           about' => ~dialog.open /\ ~browser.visible /\ overlay = <<>>
    PROVE  Kept
  <1> USE DEF MenuInv, menuVars, settingsVars, gameVars
  <1>1. FlagsTyped'
    BY DEF FlagsTyped
  <1>2. StoredTyped'
    BY DEF StoredTyped
  <1>3. RowsStored'
    BY DEF RowsStored, RowsOf
  <1>4. /\ PlacesSound' /\ Under' = Under
        /\ Lit(overlay, sel, scroll, savedPanel, savedOverlay, historyRows)
                => Lit(overlay', sel', scroll', savedPanel', savedOverlay', historyRows')
    BY PlacesKept
  <1>5. OneOpen'
    BY <1>4 DEF OneOpen
  <1>6. BrowserSound(browser)' /\ (BrowserCursorShown(browser) => BrowserCursorShown(browser)')
    BY DEF BrowserSound, BrowserCursorShown
  <1>7. Asked
    BY NothingAsked DEF Covered
  <1> QED
    BY <1>1, <1>2, <1>3, <1>4, <1>5, <1>6, <1>7, KeptByParts DEF CursorInv

(* Another list on top, or another row of it; nothing is open over it but   *)
(* the box that asks.                                                       *)
LEMMA PlacesStep ==
    ASSUME MenuInv,
           Roomy => Carries(overlay, sel, scroll, savedPanel, savedOverlay, historyRows,
                   overlay', sel', scroll', savedPanel', savedOverlay', historyRows'),
           Placed(overlay', sel', scroll', savedPanel', savedOverlay', historyRows'),
           UNCHANGED <<visible, shown, browser, about, dialog, settingsVars, gameVars, exited>>,
           Len(historyRows') <= MaxHistory,
           ~browser.visible, about => overlay' = <<>>,
           dialog.open => overlay' = overlay
    PROVE  Kept
  <1> USE DEF MenuInv, settingsVars, gameVars
  <1>1. FlagsTyped'
    BY DEF FlagsTyped
  <1>2. StoredTyped'
    BY DEF StoredTyped
  <1>3. RowsStored'
    BY DEF RowsStored, RowsOf
  <1>4. /\ PlacesSound'
        /\ Roomy /\ Lit(overlay, sel, scroll, savedPanel, savedOverlay, historyRows)
                => Lit(overlay', sel', scroll', savedPanel', savedOverlay', historyRows')
    BY PlacesCarry DEF PlacesSound
  <1>5. OneOpen'
    BY <1>4 DEF OneOpen
  <1>6. BrowserSound(browser)' /\ (BrowserCursorShown(browser) => BrowserCursorShown(browser)')
    BY DEF BrowserSound, BrowserCursorShown
  <1>7. Asked
    BY StillCovered, NothingAsked
  <1> QED
    BY <1>1, <1>2, <1>3, <1>4, <1>5, <1>6, <1>7, KeptByParts DEF CursorInv
(* The lists are rebuilt: the panel is on top, on its first row. *)
LEMMA RebuildStep ==
    ASSUME MenuInv, RebuildItems, UNCHANGED <<savedPanel, historyRows>>,
           FlagsTyped', StoredTyped', RowsStored', Asked, BrowserSound(browser)',
           Roomy /\ BrowserCursorShown(browser) => BrowserCursorShown(browser)',
           ~(about' /\ dialog'.open)
    PROVE  Kept
  <1>1. Carries(overlay, sel, scroll, savedPanel, savedOverlay, historyRows,
                   overlay', sel', scroll', savedPanel', savedOverlay', historyRows')
    BY RebuiltPlaces DEF MenuInv, PlacesSound, RebuildItems
  <1>2. /\ PlacesSound'
        /\ Lit(overlay, sel, scroll, savedPanel, savedOverlay, historyRows)
                => Lit(overlay', sel', scroll', savedPanel', savedOverlay', historyRows')
    BY <1>1, PlacesCarry
  <1>3. overlay' = <<>> /\ overlay' \notin Sections
    BY StackFacts DEF RebuildItems
  <1>4. OneOpen'
    BY <1>3 DEF OneOpen
  <1> QED
    BY <1>2, <1>4, KeptByParts DEF CursorInv

LEMMA FindValTyped ==
    ASSUME NEW k \in OptionKeys, NEW v \in {None} \cup 0..(RowSize - 1)
    PROVE  FindVal(k, v) \in 0..(RowSize - 1)
  BY MenuConstants DEF FindVal

LEMMA ResetStep ==
    ASSUME MenuInv, NEW title \in SectionTitles, dialog.open, dialog.asks = ResetSection(title),
           ResetDefaults(title), UNCHANGED <<browser, about, gameVars>>
    PROVE  Kept
  <1> USE DEF MenuInv, gameVars
  <1>0. /\ options' = [k \in OptionKeys |-> IF k \in SectionKeys(title) THEN DefaultValue[k] ELSE options[k]]
        /\ shown' = RowsOf(options') /\ RebuildItems /\ dialog' = Tell
        /\ UNCHANGED <<historyRows, savedPanel, visible, favourite, history, exited, browser, about,
                        coreLoaded, loaded, request>>
    BY DEF ResetDefaults, BuildMenuTree
  <1>1. FlagsTyped'
    BY <1>0, DialogsTyped DEF FlagsTyped
  <1>2. StoredTyped'
    BY <1>0 DEF StoredTyped
  <1>3. options' \in [OptionKeys -> {None} \cup 0..(RowSize - 1)]
    <2>1. options \in [OptionKeys -> {None} \cup 0..(RowSize - 1)]
      BY DEF RowsStored
    <2>2. DefaultValue \in [OptionKeys -> 0..(RowSize - 1)]
      BY MenuConstants
    <2> QED
      BY <1>0, <2>1, <2>2
  <1>4. RowsStored'
    BY <1>0, <1>3 DEF RowsStored, RowsOf
  <1>5. Asked
    <2>1. ASSUME NEW k \in OptionKeys, options'[k] # options[k]
          PROVE  dialog.open /\ options'[k] = DefaultValue[k] /\ k \in SectionKeys(title)
                 /\ dialog.asks = ResetSection(title)
      BY <1>0, <2>1
    <2>2. history' = history /\ exited' = exited
      BY <1>0
    <2>3. Covered' => Covered
      BY <1>0, StillCovered
    <2> QED
      BY <2>1, <2>2, <2>3 DEF Asked
  <1>6. BrowserSound(browser)' /\ (BrowserCursorShown(browser) => BrowserCursorShown(browser)')
    BY <1>0 DEF BrowserSound, BrowserCursorShown
  <1>7. ~about'
    <2>1. about' = about
      BY <1>0
    <2>2. ~about
      BY DEF OneOpen
    <2> QED
      BY ONLY <2>1, <2>2, Zenon
  <1> QED
    BY <1>0, <1>1, <1>2, <1>4, <1>5, <1>6, <1>7, RebuildStep

LEMMA ResetAllStep ==
    ASSUME MenuInv, dialog.open, dialog.asks \in {"reset all", "reload"},
           ResetAll, UNCHANGED <<browser, about, gameVars>>
    PROVE  Kept
  <1> USE DEF MenuInv, gameVars
  <1>0. /\ options' = [k \in OptionKeys |-> None] /\ favourite' = <<>>
        /\ shown' = RowsOf(options') /\ RebuildItems /\ dialog' = Tell
        /\ UNCHANGED <<historyRows, savedPanel, visible, history, exited, browser, about,
                        coreLoaded, loaded, request>>
    BY DEF ResetAll, BuildMenuTree
  <1>1. FlagsTyped'
    BY <1>0, DialogsTyped DEF FlagsTyped
  <1>2. StoredTyped'
    BY <1>0, EmptyPath DEF StoredTyped
  <1>3. options' \in [OptionKeys -> {None} \cup 0..(RowSize - 1)]
    BY <1>0
  <1>4. RowsStored'
    BY <1>0, <1>3 DEF RowsStored, RowsOf
  <1>5. Asked
    <2>1. ASSUME NEW k \in OptionKeys, options'[k] # options[k]
          PROVE  dialog.open /\ options'[k] = None /\ dialog.asks \in {"reset all", "reload"}
      BY <1>0
    <2>2. history' = history /\ exited' = exited
      BY <1>0
    <2>3. Covered' => Covered
      BY <1>0, StillCovered
    <2> QED
      BY <2>1, <2>2, <2>3 DEF Asked
  <1>6. BrowserSound(browser)' /\ (BrowserCursorShown(browser) => BrowserCursorShown(browser)')
    BY <1>0 DEF BrowserSound, BrowserCursorShown
  <1>7. ~about'
    <2>1. about' = about
      BY <1>0
    <2>2. ~about
      BY DEF OneOpen
    <2> QED
      BY ONLY <2>1, <2>2, Zenon
  <1> QED
    BY <1>0, <1>1, <1>2, <1>4, <1>5, <1>6, <1>7, RebuildStep

LEMMA ClearHistoryStep ==
    ASSUME MenuInv, dialog.open, dialog.asks = "clear history",
           ClearHistory, UNCHANGED <<browser, about, gameVars>>
    PROVE  Kept
  <1> USE DEF MenuInv, gameVars
  <1>0. /\ history' = <<>> /\ dialog' = NoDialog /\ overlay' = <<>>
        /\ sel' = savedPanel.sel /\ scroll' = savedPanel.scroll
        /\ UNCHANGED <<savedPanel, historyRows, shown, savedOverlay, visible, options, favourite, exited,
                        browser, about, coreLoaded, loaded, request>>
    BY DEF ClearHistory, CloseOverlays
  <1>1. FlagsTyped'
    BY <1>0, DialogsTyped DEF FlagsTyped
  <1>2. StoredTyped'
    BY <1>0, EmptyPath DEF StoredTyped
  <1>3. RowsStored'
    BY <1>0 DEF RowsStored, RowsOf
  <1>4. savedOverlay' = <<>>
    BY <1>0, NothingSaved DEF OneOpen, PlacesSound
  <1>5. Carries(overlay, sel, scroll, savedPanel, savedOverlay, historyRows,
                   overlay', sel', scroll', savedPanel', savedOverlay', historyRows')
    BY <1>0, <1>4, ClosedPlaces DEF PlacesSound
  <1>6. /\ PlacesSound'
        /\ Lit(overlay, sel, scroll, savedPanel, savedOverlay, historyRows)
                => Lit(overlay', sel', scroll', savedPanel', savedOverlay', historyRows')
    BY <1>5, PlacesCarry
  <1>7. Asked
    BY <1>0, DialogsTyped, StillCovered DEF Asked
  <1>8. BrowserSound(browser)' /\ (BrowserCursorShown(browser) => BrowserCursorShown(browser)')
    BY <1>0 DEF BrowserSound, BrowserCursorShown
  <1>9. OneOpen'
    BY <1>0, DialogsTyped DEF OneOpen
  <1> QED
    BY <1>1, <1>2, <1>3, <1>6, <1>7, <1>8, <1>9, KeptByParts DEF CursorInv
(* A row is turned to the value beside the one it shows. *)
LEMMA Beside ==
    ASSUME NEW v \in 0..(RowSize - 1), NEW by \in {1, -1}
    PROVE  /\ (v + by + RowSize) % RowSize \in 0..(RowSize - 1)
           /\ (v + by + RowSize) % RowSize # v
  <1> DEFINE R == RowSize
  <1>0. R \in Nat /\ R > 1
    BY MenuConstants
  <1> HIDE DEF R
  <1>1. \A n \in 0..(R - 1) : n % R = n /\ (n + R) % R = n
    BY <1>0
  <1>2. (R + R) % R = 0
    BY <1>0
  <1>3. v \in 0..(R - 1)
    BY DEF R
  <1>4. CASE by = 1 /\ v < R - 1
    <2>1. v + 1 \in 0..(R - 1) /\ v + by + R = (v + 1) + R
      BY <1>0, <1>3, <1>4
    <2>2. (v + by + R) % R = v + 1
      BY <1>1, <2>1
    <2> QED
      BY <1>3, <2>1, <2>2 DEF R
  <1>5. CASE by = 1 /\ v = R - 1
    <2>1. v + by + R = R + R
      BY <1>0, <1>5
    <2>2. (v + by + R) % R = 0
      BY <1>2, <2>1
    <2> QED
      BY <1>0, <1>5, <2>2 DEF R
  <1>6. CASE by = -1 /\ v > 0
    <2>1. v - 1 \in 0..(R - 1) /\ v + by + R = (v - 1) + R
      BY <1>0, <1>3, <1>6
    <2>2. (v + by + R) % R = v - 1
      BY <1>1, <2>1
    <2> QED
      BY <1>3, <2>1, <2>2 DEF R
  <1>7. CASE by = -1 /\ v = 0
    <2>1. v + by + R = R - 1 /\ R - 1 \in 0..(R - 1)
      BY <1>0, <1>7
    <2>2. (v + by + R) % R = R - 1
      BY <1>1, <2>1
    <2> QED
      BY <1>0, <1>7, <2>1, <2>2 DEF R
  <1> QED
    BY <1>0, <1>3, <1>4, <1>5, <1>6, <1>7

LEMMA TurnStep ==
    ASSUME MenuInv, NEW by \in {1, -1}, TurnRow(by), ~dialog.open,
           Under.action = "TOGGLE_VALUE", Under.enabled,
           browser.visible => \E right \in BOOLEAN : OnDPadLeftRight(right)
    PROVE  Kept
  <1> DEFINE key == Under.key
             val == (shown[key] + by + RowSize) % RowSize
  <1>0. /\ shown' = [shown EXCEPT ![key] = val]
        /\ options' = [options EXCEPT ![key] = shown'[key]]
        /\ UNCHANGED <<visible, overlay, sel, scroll, savedPanel, savedOverlay, historyRows, browser,
                   about, dialog, favourite, history, coreLoaded, loaded, request, exited>>
    BY DEF TurnRow, Turn, gameVars
  <1>1. key \in OptionKeys /\ Under = Toggle(key) /\ overlay \in Sections
    BY UnderRow DEF MenuInv
  <1>2. ~about
    BY <1>1, StackFacts DEF MenuInv, OneOpen
  <1>3. /\ options \in [OptionKeys -> {None} \cup 0..(RowSize - 1)]
        /\ shown = RowsOf(options)
    BY DEF MenuInv, RowsStored
  <1>4. shown \in [OptionKeys -> 0..(RowSize - 1)]
    BY <1>3, FindValTyped DEF RowsOf
  <1>5. val \in 0..(RowSize - 1) /\ val # shown[key]
    BY <1>1, <1>4, Beside
  <1> HIDE DEF val, key
  <1>6. shown'[key] = val /\ options' = [options EXCEPT ![key] = val]
    BY <1>0, <1>1, <1>4
  <1>7. options' \in [OptionKeys -> {None} \cup 0..(RowSize - 1)]
    BY <1>3, <1>5, <1>6
  <1>8. shown' = RowsOf(options')
    <2>1. FindVal(key, val) = val
      BY <1>5, MenuConstants DEF FindVal
    <2>2. shown' = [k \in OptionKeys |-> IF k = key THEN val ELSE FindVal(k, options[k])]
      BY <1>0, <1>3, <1>1 DEF RowsOf
    <2>3. \A k \in OptionKeys : options'[k] = IF k = key THEN val ELSE options[k]
      BY <1>3, <1>6
    <2>4. RowsOf(options') = [k \in OptionKeys |-> IF k = key THEN val ELSE FindVal(k, options[k])]
      BY <2>1, <2>3 DEF RowsOf
    <2> QED
      BY <2>2, <2>4
  <1>9. RowsStored'
    BY <1>7, <1>8 DEF RowsStored, RowsOf
  <1>10. Asked
    <2>1. ASSUME NEW k \in OptionKeys, options'[k] # options[k]
          PROVE  ~dialog.open /\ ~about
               /\ Under = Toggle(k) /\ options'[k] = shown'[k] /\ shown'[k] # shown[k]
      <3>1. k = key
        BY <1>3, <1>6, <2>1
      <3>2. options'[key] = val /\ shown'[key] = val
        BY <1>1, <1>3, <1>6
      <3> QED
        BY <1>1, <1>2, <1>5, <3>1, <3>2
    <2>2. history' = history /\ exited' = exited
      BY <1>0
    <2>3. Covered' => Covered
      BY <1>0, StillCovered
    <2> QED
      BY <2>1, <2>2, <2>3 DEF Asked
  <1>11. FlagsTyped' /\ StoredTyped'
    BY <1>0 DEF MenuInv, FlagsTyped, StoredTyped
  <1>12. /\ PlacesSound' /\ Under' = Under
         /\ Lit(overlay, sel, scroll, savedPanel, savedOverlay, historyRows)
                => Lit(overlay', sel', scroll', savedPanel', savedOverlay', historyRows')
    BY <1>0, PlacesKept DEF MenuInv
  <1>13. BrowserSound(browser)' /\ (BrowserCursorShown(browser) => BrowserCursorShown(browser)')
    BY <1>0 DEF MenuInv, BrowserSound, BrowserCursorShown
  <1>14. OneOpen'
    BY <1>0, <1>12 DEF MenuInv, OneOpen
  <1> QED
    BY <1>9, <1>10, <1>11, <1>12, <1>13, <1>14, KeptByParts DEF CursorInv
LEMMA StutterStep == ASSUME MenuInv, UNCHANGED vars PROVE Kept
  <1>1. /\ UNCHANGED <<menuVars, browser, about, settingsVars, gameVars>>
        /\ dialog' = dialog /\ visible' = visible /\ exited' = exited
    BY DEF vars
  <1>2. dialog' \in Dialogs /\ visible' \in BOOLEAN /\ exited' \in BOOLEAN
    BY <1>1 DEF MenuInv, FlagsTyped
  <1>3. Asked
    BY <1>1, StillCovered, NothingAsked DEF settingsVars
  <1>4. /\ dialog'.open => ~about
        /\ dialog'.open /\ dialog'.asks = "clear history" => overlay \notin Sections
    BY <1>1 DEF MenuInv, OneOpen
  <1> QED
    BY <1>1, <1>2, <1>3, <1>4, DialogStep

(* Nothing is open over the list on top. *)
Bare == ~dialog.open /\ ~about /\ ~browser.visible

LEMMA LoadStep ==
    ASSUME MenuInv, Bare, Under.action = "HISTORY", LoadFromHistory(Under.key), UNCHANGED <<about, exited>>
    PROVE  Kept
  <1> DEFINE game == Under.key
  <1>0. /\ overlay' = <<>> /\ savedOverlay' = <<>>
        /\ sel' = savedPanel.sel /\ scroll' = savedPanel.scroll
        /\ visible' = FALSE /\ request' = game
        /\ UNCHANGED <<savedPanel, historyRows, shown, browser, dialog, options, favourite, history, coreLoaded,
                   loaded, about, exited>>
    BY DEF LoadFromHistory, settingsVars
  <1>1. game \in FolderPaths
    BY UnderRow DEF MenuInv
  <1> HIDE DEF game
  <1>2. FlagsTyped' /\ StoredTyped'
    BY <1>0, <1>1 DEF MenuInv, FlagsTyped, StoredTyped
  <1>3. RowsStored'
    BY <1>0 DEF MenuInv, RowsStored, RowsOf
  <1>4. Carries(overlay, sel, scroll, savedPanel, savedOverlay, historyRows,
                   overlay', sel', scroll', savedPanel', savedOverlay', historyRows')
    BY <1>0, ClosedPlaces DEF MenuInv, PlacesSound
  <1>5. /\ PlacesSound'
        /\ Lit(overlay, sel, scroll, savedPanel, savedOverlay, historyRows)
                => Lit(overlay', sel', scroll', savedPanel', savedOverlay', historyRows')
    BY <1>4, PlacesCarry
  <1>6. Asked
    BY <1>0, StillCovered, NothingAsked
  <1>7. BrowserSound(browser)' /\ (BrowserCursorShown(browser) => BrowserCursorShown(browser)')
    BY <1>0 DEF MenuInv, BrowserSound, BrowserCursorShown
  <1>8. OneOpen'
    BY <1>0 DEF OneOpen, Bare
  <1> QED
    BY <1>2, <1>3, <1>5, <1>6, <1>7, <1>8, KeptByParts DEF CursorInv

LEMMA BrowserOpens ==
    ASSUME BrowserSound(browser), browser.visible PROVE browser \in OpenBrowsers
  BY DEF BrowserSound, OpenBrowsers

LEMMA AnswerStep ==
    ASSUME MenuInv, BrowserAnswer, browser.visible
    PROVE  Kept
  <1>0. /\ browser' = BrowserConfirm(browser, favourite)
        /\ request' = IF ChosenFile(browser) # <<>> THEN Head(ChosenFile(browser)) ELSE request
        /\ IF ChosenFolder(browser) # <<>>
           THEN favourite' = Head(ChosenFolder(browser)) /\ BuildMenuTree(options)
           ELSE UNCHANGED <<favourite, menuVars>>
        /\ UNCHANGED <<visible, about, dialog, options, history, coreLoaded, loaded, exited>>
    BY DEF BrowserAnswer
  <1>1. browser \in OpenBrowsers /\ favourite \in FolderPaths
    BY BrowserOpens DEF MenuInv, StoredTyped
  <1>2. Fresh(browser')
    BY <1>0, <1>1, FreshConfirm
  <1>3. BrowserSound(browser)' /\ BrowserCursorShown(browser)'
    BY <1>2 DEF Fresh
  <1>4. request' = None \/ request' \in FolderPaths
    BY <1>0, <1>1, ChosenPaths DEF MenuInv, FlagsTyped
  <1>5. FlagsTyped'
    BY <1>0, <1>4 DEF MenuInv, FlagsTyped
  <1>6. favourite' \in FolderPaths
    BY <1>0, <1>1, ChosenPaths
  <1>7. ~(about' /\ dialog'.open)
    <2>1. ~(about /\ dialog.open)
      BY DEF MenuInv, OneOpen
    <2>2. about' = about /\ dialog' = dialog
      BY <1>0
    <2> QED
      BY ONLY <2>1, <2>2, Zenon
  <1>8. Asked
    <2>1. options' = options /\ exited' = exited /\ history' = history
          /\ about' = about /\ dialog' = dialog
      BY <1>0
    <2>2. Covered' => Covered
      BY <2>1 DEF Covered
    <2> QED
      BY <2>1, <2>2, NothingAsked
  <1>9. CASE ChosenFolder(browser) # <<>>
    <2>1. BuildMenuTree(options)
      BY <1>0, <1>9
    <2>2. /\ shown' = RowsOf(options) /\ RebuildItems /\ UNCHANGED <<savedPanel, historyRows>>
      BY <2>1 DEF BuildMenuTree
    <2>3. StoredTyped'
      BY <1>0, <1>6, <2>2 DEF MenuInv, StoredTyped
    <2>4. RowsStored'
      BY <1>0, <2>2 DEF MenuInv, RowsStored, RowsOf
    <2> QED
      BY <1>3, <1>5, <1>7, <1>8, <2>2, <2>3, <2>4, RebuildStep
  <1>10. CASE ChosenFolder(browser) = <<>>
    <2>1. UNCHANGED <<favourite, overlay, sel, scroll, savedPanel, savedOverlay, historyRows, shown>>
      BY <1>0, <1>10 DEF menuVars
    <2>2. StoredTyped' /\ RowsStored'
      BY <1>0, <2>1 DEF MenuInv, StoredTyped, RowsStored, RowsOf
    <2>3. /\ PlacesSound' /\ Under' = Under
          /\ Lit(overlay, sel, scroll, savedPanel, savedOverlay, historyRows)
                => Lit(overlay', sel', scroll', savedPanel', savedOverlay', historyRows')
      BY <2>1, PlacesKept DEF MenuInv
    <2>5. OneOpen'
      <3>1. UNCHANGED <<overlay, about, dialog>>
        BY <1>0, <2>1
      <3> QED
        BY <3>1 DEF MenuInv, OneOpen
    <2> QED
      BY <1>3, <1>5, <1>8, <2>2, <2>3, <2>5, KeptByParts DEF CursorInv
  <1> QED
    BY <1>9, <1>10
(***************************************************************************)
(* The handlers.                                                           *)
(***************************************************************************)
LEMMA OpenDialogStep ==
    ASSUME MenuInv, Bare, OpenDialog,
           Under.action \in {"RESET_DEFAULTS", "RESET_ALL_SETTINGS", "RELOAD_SETTINGS",
                             "CLEAR_HISTORY", "CLEAR_LOGS", "RESTART_APP", "EXIT"}
    PROVE  Kept
  <1>0. /\ dialog' = Ask(Question)
        /\ UNCHANGED <<visible, menuVars, browser, about, settingsVars, gameVars, exited>>
    BY DEF OpenDialog
  <1>1. Question \in Questions /\ (Question = "clear history" => Under.action = "CLEAR_HISTORY")
    BY DEF Question, Questions, ResetSection
  <1>2. dialog' \in Dialogs /\ (dialog'.asks = "clear history" => overlay \notin Sections)
    BY <1>0, <1>1, DialogsTyped, UnderRow, StackFacts DEF MenuInv
  <1>3. visible' \in BOOLEAN /\ exited' \in BOOLEAN
    BY <1>0 DEF MenuInv, FlagsTyped
  <1>4. Asked
    BY <1>0, NothingAsked DEF settingsVars, Bare, Covered
  <1> QED
    BY <1>0, <1>2, <1>3, <1>4, DialogStep DEF Bare

LEMMA OpenOverlayStep ==
    ASSUME MenuInv, Bare, overlay = <<>>, NEW title \in {"Settings", "History"}, OpenOverlay(title),
           historyRows' \in {historyRows, history},
           UNCHANGED <<visible, browser, about, dialog, settingsVars, gameVars, exited>>
    PROVE  Kept
  <1>0. /\ savedPanel' = [sel |-> sel, scroll |-> scroll] /\ overlay' = <<title>> /\ sel' = 1 /\ scroll' = 0
        /\ UNCHANGED <<savedOverlay, shown>>
    BY DEF OpenOverlay, Here
  <1>1. historyRows' \in Seq(FolderPaths) /\ Len(historyRows') <= MaxHistory
    BY DEF MenuInv, StoredTyped, PlacesSound, Placed
  <1>2. overlay' \in {<<"Settings">>, <<"History">>}
    BY <1>0
  <1>3. Placed(<<>>, sel, scroll, savedPanel, savedOverlay, historyRows)
    BY DEF MenuInv, PlacesSound
  <1>4. Carries(<<>>, sel, scroll, savedPanel, savedOverlay, historyRows,
                overlay', 1, 0, [sel |-> sel, scroll |-> scroll], savedOverlay, historyRows')
    BY <1>1, <1>2, <1>3, OpenedPlaces
  <1>5. Carries(overlay, sel, scroll, savedPanel, savedOverlay, historyRows,
                overlay', sel', scroll', savedPanel', savedOverlay', historyRows')
    BY <1>0, <1>4
  <1>6. Placed(overlay', sel', scroll', savedPanel', savedOverlay', historyRows')
    BY <1>5 DEF Carries
  <1> QED
    BY <1>0, <1>1, <1>5, <1>6, PlacesStep DEF Bare

LEMMA PushOverlayStep ==
    ASSUME MenuInv, Bare, overlay = <<"Settings">>, NEW title \in SectionTitles, PushOverlay(title),
           UNCHANGED <<visible, browser, about, dialog, settingsVars, gameVars, exited>>
    PROVE  Kept
  <1>0. /\ savedOverlay' = Append(savedOverlay, [sel |-> sel, scroll |-> scroll])
        /\ overlay' = Append(<<"Settings">>, title) /\ sel' = 1 /\ scroll' = 0
        /\ UNCHANGED <<savedPanel, historyRows, shown>>
    BY DEF PushOverlay, Here
  <1>1. Len(historyRows') <= MaxHistory
    BY <1>0 DEF MenuInv, StoredTyped
  <1>3. Placed(<<"Settings">>, sel, scroll, savedPanel, savedOverlay, historyRows)
    BY DEF MenuInv, PlacesSound
  <1>4. Carries(<<"Settings">>, sel, scroll, savedPanel, savedOverlay, historyRows,
                Append(<<"Settings">>, title), 1, 0, savedPanel,
                Append(savedOverlay, [sel |-> sel, scroll |-> scroll]), historyRows)
    BY <1>3, PushedPlaces
  <1>5. Carries(overlay, sel, scroll, savedPanel, savedOverlay, historyRows,
                overlay', sel', scroll', savedPanel', savedOverlay', historyRows')
    BY <1>0, <1>4
  <1>6. Placed(overlay', sel', scroll', savedPanel', savedOverlay', historyRows')
    BY <1>5 DEF Carries
  <1> QED
    BY <1>0, <1>1, <1>5, <1>6, PlacesStep DEF Bare

(* Back from an overlay leads to the one below, or to the panel. *)
LEMMA PopOverlayIs ==
    ASSUME MenuInv, overlay # <<>>, PopOverlay
    PROVE  /\ Carries(overlay, sel, scroll, savedPanel, savedOverlay, historyRows,
                   overlay', sel', scroll', savedPanel', savedOverlay', historyRows')
           /\ UNCHANGED <<savedPanel, historyRows, shown>>
           /\ overlay \in Sections => overlay' = <<"Settings">>
           /\ overlay \notin Sections => overlay' = <<>>
  <1>0. Placed(overlay, sel, scroll, savedPanel, savedOverlay, historyRows)
    BY DEF MenuInv, PlacesSound
  <1>1. CASE overlay \in Sections
    <2>1. /\ Carries(overlay, sel, scroll, savedPanel, savedOverlay, historyRows,
                   Front(overlay), Last(savedOverlay).sel, Last(savedOverlay).scroll, savedPanel,
                   Front(savedOverlay), historyRows)
          /\ savedOverlay # <<>>
      BY <1>0, <1>1, PoppedPlaces
    <2>2. /\ overlay' = Front(overlay)
          /\ sel' = Last(savedOverlay).sel /\ scroll' = Last(savedOverlay).scroll
          /\ savedOverlay' = Front(savedOverlay)
          /\ UNCHANGED <<savedPanel, historyRows, shown>>
      BY <2>1 DEF PopOverlay
    <2>3. Carries(overlay, sel, scroll, savedPanel, savedOverlay, historyRows,
                   overlay', sel', scroll', savedPanel', savedOverlay', historyRows')
      BY <2>1, <2>2
    <2>4. Front(overlay) = <<"Settings">>
      BY <1>1, StackFacts
    <2> QED
      BY <1>1, <2>2, <2>3, <2>4
  <1>2. CASE overlay \notin Sections
    <2>1. savedOverlay = <<>>
      BY <1>0, <1>2, NothingSaved
    <2>2. /\ overlay' = <<>> /\ sel' = savedPanel.sel /\ scroll' = savedPanel.scroll
          /\ UNCHANGED <<savedPanel, historyRows, shown, savedOverlay>>
      BY <2>1 DEF PopOverlay, CloseOverlays
    <2>3. Carries(overlay, sel, scroll, savedPanel, savedOverlay, historyRows,
                  <<>>, savedPanel.sel, savedPanel.scroll, savedPanel, <<>>, historyRows)
      BY <1>0, ClosedPlaces
    <2>4. Carries(overlay, sel, scroll, savedPanel, savedOverlay, historyRows,
                   overlay', sel', scroll', savedPanel', savedOverlay', historyRows')
      BY <2>1, <2>2, <2>3
    <2> QED
      BY <1>2, <2>2, <2>4
  <1> QED
    BY <1>1, <1>2

LEMMA PopOverlayStep ==
    ASSUME MenuInv, Bare, overlay # <<>>, PopOverlay,
           UNCHANGED <<visible, browser, about, dialog, settingsVars, gameVars, exited>>
    PROVE  Kept
  <1>1. /\ Carries(overlay, sel, scroll, savedPanel, savedOverlay, historyRows,
                   overlay', sel', scroll', savedPanel', savedOverlay', historyRows')
        /\ UNCHANGED <<savedPanel, historyRows, shown>>
    BY PopOverlayIs
  <1>2. Placed(overlay', sel', scroll', savedPanel', savedOverlay', historyRows')
    BY <1>1 DEF Carries
  <1>3. Len(historyRows') <= MaxHistory
    BY <1>1 DEF MenuInv, StoredTyped
  <1> QED
    BY <1>1, <1>2, <1>3, PlacesStep DEF Bare

LEMMA ConfirmRowStep ==
    ASSUME MenuInv, Bare, ConfirmRow, Under.enabled
    PROVE  Kept
  <1> DEFINE action == Under.action
  <1>0. action \in {"OPEN_FILE", "SETTINGS", "OPEN_HISTORY", "ABOUT", "EXIT", "GENERAL", "INPUT",
                 "RESET_ALL_SETTINGS", "CLEAR_LOGS", "HISTORY", "NO_HISTORY", "CLEAR_HISTORY", "TOGGLE_VALUE",
                 "PICK_FOLDER", "RELOAD_SETTINGS", "RESTART_APP", "RESET_DEFAULTS", "BACK", "NONE"}
    BY UnderRow DEF MenuInv
  <1>a. browser \in Browsers /\ favourite \in FolderPaths
    BY DEF MenuInv, BrowserSound, StoredTyped
  <1>1. CASE action = "TOGGLE_VALUE"
    <2>1. TurnRow(1)
      BY <1>1 DEF ConfirmRow
    <2> QED
      BY <1>1, <2>1, TurnStep DEF Bare
  <1>2. CASE action = "HISTORY"
    <2>1. LoadFromHistory(Under.key) /\ UNCHANGED <<about, exited>>
      BY <1>2 DEF ConfirmRow
    <2> QED
      BY <1>2, <2>1, LoadStep
  <1>3. CASE action \in {"RESET_DEFAULTS", "RESET_ALL_SETTINGS", "RELOAD_SETTINGS",
                         "CLEAR_HISTORY", "CLEAR_LOGS", "RESTART_APP", "EXIT"}
    <2>1. OpenDialog
      BY <1>3 DEF ConfirmRow
    <2> QED
      BY <1>3, <2>1, OpenDialogStep
  <1>4. CASE action = "OPEN_FILE"
    <2>1. /\ browser' = OpenBrowser(browser, favourite)
          /\ UNCHANGED <<visible, menuVars, about, dialog, settingsVars, gameVars, exited>>
      BY <1>4 DEF ConfirmRow
    <2>2. overlay = <<>>
      BY <1>4, UnderRow DEF MenuInv
    <2>3. Fresh(browser')
      BY <1>a, <2>1, FreshOpen
    <2> QED
      BY <2>1, <2>2, <2>3, BrowserStep DEF Bare, Fresh
  <1>5. CASE action = "PICK_FOLDER"
    <2>1. /\ browser' = OpenForFolderPick(browser, favourite)
          /\ UNCHANGED <<visible, menuVars, about, dialog, settingsVars, gameVars, exited>>
      BY <1>5 DEF ConfirmRow
    <2>3. Fresh(browser')
      BY <1>a, <2>1, FreshOpen
    <2> QED
      BY <1>5, <2>1, <2>3, BrowserStep DEF Bare, Fresh
  <1>6. CASE action = "ABOUT"
    <2>1. /\ about' = TRUE
          /\ UNCHANGED <<visible, menuVars, browser, dialog, settingsVars, gameVars, exited>>
      BY <1>6 DEF ConfirmRow
    <2>2. overlay = <<>>
      BY <1>6, UnderRow DEF MenuInv
    <2> QED
      BY <2>1, <2>2, AboutStep DEF Bare
  <1>7. CASE action = "SETTINGS"
    <2>1. /\ OpenOverlay("Settings") /\ UNCHANGED historyRows
          /\ UNCHANGED <<visible, browser, about, dialog, settingsVars, gameVars, exited>>
      BY <1>7 DEF ConfirmRow
    <2>2. overlay = <<>>
      BY <1>7, UnderRow DEF MenuInv
    <2> QED
      BY <2>1, <2>2, OpenOverlayStep
  <1>8. CASE action = "OPEN_HISTORY"
    <2>1. /\ OpenOverlay("History") /\ historyRows' = history
          /\ UNCHANGED <<visible, browser, about, dialog, settingsVars, gameVars, exited>>
      BY <1>8 DEF ConfirmRow
    <2>2. overlay = <<>>
      BY <1>8, UnderRow DEF MenuInv
    <2> QED
      BY <2>1, <2>2, OpenOverlayStep
  <1>9. CASE action \in {"GENERAL", "INPUT"}
    <2> DEFINE title == IF action = "GENERAL" THEN "General" ELSE "Input"
    <2>1. /\ PushOverlay(title)
          /\ UNCHANGED <<visible, browser, about, dialog, settingsVars, gameVars, exited>>
      BY <1>9 DEF ConfirmRow
    <2>2. overlay = <<"Settings">>
      BY <1>9, UnderRow DEF MenuInv
    <2>3. title \in SectionTitles
      BY DEF SectionTitles
    <2> HIDE DEF title
    <2> QED
      BY <2>1, <2>2, <2>3, PushOverlayStep
  <1>10. CASE action = "BACK"
    <2>1. /\ PopOverlay
          /\ UNCHANGED <<visible, browser, about, dialog, settingsVars, gameVars, exited>>
      BY <1>10 DEF ConfirmRow
    <2>2. overlay # <<>>
      BY <1>10, UnderRow DEF MenuInv
    <2> QED
      BY <2>1, <2>2, PopOverlayStep
  <1>11. CASE action \in {"NONE", "NO_HISTORY"}
    <2>1. UNCHANGED vars
      BY <1>11 DEF ConfirmRow
    <2> QED
      BY <2>1, StutterStep
  <1> HIDE DEF action
  <1> QED
    BY <1>0, <1>1, <1>2, <1>3, <1>4, <1>5, <1>6, <1>7, <1>8, <1>9, <1>10, <1>11
LEMMA DialogClosesStep ==
    ASSUME MenuInv, dialog.open, dialog' = NoDialog, visible' \in BOOLEAN, exited' \in BOOLEAN,
           UNCHANGED <<menuVars, browser, about, settingsVars, gameVars>>,
           exited' = exited \/ dialog.asks \in {"exit", "restart"}
    PROVE  Kept
  <1>1. Asked
    BY DialogsTyped, StillCovered DEF Asked, settingsVars
  <1>2. dialog' \in Dialogs /\ ~dialog'.open
    BY DialogsTyped
  <1> QED
    BY <1>1, <1>2, DialogStep

LEMMA DialogOnBackStep ==
    ASSUME MenuInv, dialog.open, DialogOnBack PROVE Kept
  <1>1. visible' \in BOOLEAN /\ exited' \in BOOLEAN /\ exited' = exited
    BY DEF DialogOnBack, DialogCloses, MenuInv, FlagsTyped
  <1> QED
    BY <1>1, DialogClosesStep DEF DialogOnBack, DialogCloses

LEMMA DialogOnConfirmStep ==
    ASSUME MenuInv, dialog.open, DialogOnConfirm PROVE Kept
  <1> DEFINE asks == dialog.asks
  <1>0. asks \in Questions /\ UNCHANGED <<browser, about, gameVars>>
    BY DEF MenuInv, FlagsTyped, Dialogs, DialogOnConfirm
  <1>a. visible \in BOOLEAN /\ exited \in BOOLEAN
    BY DEF MenuInv, FlagsTyped
  <1>b. /\ ResetSection("General") = "reset General" /\ ResetSection("Input") = "reset Input"
        /\ "General" \in SectionTitles /\ "Input" \in SectionTitles
    BY DEF ResetSection, SectionTitles
  <1>1. CASE asks = "reset General"
    <2>1. ResetDefaults("General")
      BY <1>b, <1>1 DEF DialogOnConfirm
    <2> QED
      BY <1>0, <1>b, <1>1, <2>1, ResetStep
  <1>2. CASE asks = "reset Input"
    <2>1. ResetDefaults("Input")
      BY <1>b, <1>2 DEF DialogOnConfirm
    <2> QED
      BY <1>0, <1>b, <1>2, <2>1, ResetStep
  <1>3. CASE asks \in {"reset all", "reload"}
    <2>1. ResetAll
      BY <1>b, <1>3 DEF DialogOnConfirm
    <2> QED
      BY <1>0, <1>3, <2>1, ResetAllStep
  <1>4. CASE asks = "clear history"
    <2>1. ClearHistory
      BY <1>b, <1>4 DEF DialogOnConfirm
    <2> QED
      BY <1>0, <1>4, <2>1, ClearHistoryStep
  <1>5. CASE asks = "exit"
    <2>1. ExitConfirmed
      BY <1>b, <1>5 DEF DialogOnConfirm
    <2> QED
      BY <1>0, <1>5, <2>1, DialogClosesStep DEF ExitConfirmed
  <1>6. CASE asks = "restart"
    <2>1. RestartConfirmed
      BY <1>b, <1>6 DEF DialogOnConfirm
    <2> QED
      BY <1>0, <1>a, <1>6, <2>1, DialogClosesStep DEF RestartConfirmed
  <1>7. CASE asks \in {"nothing", "clear logs"}
    <2>1. DialogCloses
      BY <1>b, <1>7 DEF DialogOnConfirm
    <2> QED
      BY <1>0, <1>a, <2>1, DialogClosesStep DEF DialogCloses
  <1> HIDE DEF asks
  <1> QED
    BY <1>0, <1>1, <1>2, <1>3, <1>4, <1>5, <1>6, <1>7 DEF Questions

LEMMA AboutCloses ==
    ASSUME MenuInv, about' = FALSE,
           UNCHANGED <<visible, menuVars, browser, dialog, settingsVars, gameVars, exited>>
    PROVE  Kept
  BY AboutStep

LEMMA OnConfirmStep == ASSUME MenuInv, OnConfirm PROVE Kept
  <1>1. CASE dialog.open /\ dialog.ok
    BY <1>1, DialogOnConfirmStep DEF OnConfirm
  <1>2. CASE dialog.open /\ ~dialog.ok
    BY <1>2, DialogOnBackStep DEF OnConfirm
  <1>3. CASE ~dialog.open /\ about
    BY <1>3, AboutCloses DEF OnConfirm
  <1>4. CASE ~dialog.open /\ ~about /\ browser.visible
    BY <1>4, AnswerStep DEF OnConfirm
  <1>5. CASE Bare /\ Under.enabled
    BY <1>5, ConfirmRowStep DEF OnConfirm, Bare
  <1>6. CASE Bare /\ ~Under.enabled
    BY <1>6, StutterStep DEF OnConfirm, Bare
  <1> QED
    BY <1>1, <1>2, <1>3, <1>4, <1>5, <1>6 DEF Bare

LEMMA BrowserBackStep ==
    ASSUME MenuInv, browser.visible, browser' = BrowserBack(browser, favourite),
           UNCHANGED <<visible, menuVars, about, dialog, settingsVars, gameVars, exited>>
    PROVE  Kept
  <1>1. browser \in Browsers /\ favourite \in FolderPaths
    BY DEF MenuInv, BrowserSound, StoredTyped
  <1>2. Fresh(browser')
    BY <1>1, FreshBack
  <1> QED
    BY <1>1, <1>2, BrowserStep DEF Fresh

LEMMA OnBackStep == ASSUME MenuInv, OnBack PROVE Kept
  <1>1. CASE dialog.open
    BY <1>1, DialogOnBackStep DEF OnBack
  <1>2. CASE ~dialog.open /\ about
    BY <1>2, AboutCloses DEF OnBack
  <1>3. CASE ~dialog.open /\ ~about /\ browser.visible
    BY <1>3, BrowserBackStep DEF OnBack
  <1>4. CASE Bare /\ overlay # <<>>
    BY <1>4, PopOverlayStep DEF OnBack, Bare, OverlayActive
  <1>5. CASE Bare /\ overlay = <<>>
    BY <1>5, StutterStep DEF OnBack, Bare, OverlayActive
  <1> QED
    BY <1>1, <1>2, <1>3, <1>4, <1>5 DEF Bare

(* The cursor of the open browser moves. *)
LEMMA BrowseStep ==
    ASSUME MenuInv, browser.visible, NEW STATE b, Moved(browser, b), Keeps(browser, b), Browse(b)
    PROVE  Kept
  <1>1. browser' = b /\ UNCHANGED <<visible, menuVars, about, dialog, settingsVars, gameVars, exited>>
    BY DEF Browse
  <1>2. BrowserSound(browser') /\ (Roomy /\ BrowserCursorShown(browser) => BrowserCursorShown(browser'))
    BY <1>1 DEF Moved, Keeps, Roomy
  <1> QED
    BY <1>1, <1>2, BrowserStep

LEMMA CursorStep ==
    ASSUME MenuInv, ~browser.visible, NEW STATE row, NEW STATE from, Cursor(row, from),
           row \in 1..Len(Items), from \in Nat,
           Roomy /\ FitsAt(Len(Items), sel, scroll) => FitsAt(Len(Items), row, from)
    PROVE  Kept
  <1>1. /\ sel' = row /\ scroll' = from
        /\ UNCHANGED <<visible, overlay, savedPanel, savedOverlay, historyRows, shown, browser, about,
                   dialog, settingsVars, gameVars, exited>>
    BY DEF Cursor
  <1>2. Items = ItemsFor(overlay, historyRows)
    BY ItemsAre
  <1>3. Placed(overlay, sel, scroll, savedPanel, savedOverlay, historyRows)
    BY DEF MenuInv, PlacesSound
  <1>4. Placed(overlay, row, from, savedPanel, savedOverlay, historyRows)
    BY <1>2, <1>3 DEF Placed
  <1>5. Roomy => Carries(overlay, sel, scroll, savedPanel, savedOverlay, historyRows,
                         overlay, row, from, savedPanel, savedOverlay, historyRows)
    BY <1>2, <1>4 DEF Carries, Lit
  <1>6. /\ Roomy => Carries(overlay, sel, scroll, savedPanel, savedOverlay, historyRows,
                   overlay', sel', scroll', savedPanel', savedOverlay', historyRows')
        /\ Placed(overlay', sel', scroll', savedPanel', savedOverlay', historyRows')
    BY <1>1, <1>4, <1>5
  <1>7. Len(historyRows') <= MaxHistory /\ (about => overlay' = <<>>) /\ overlay' = overlay
    BY <1>1 DEF MenuInv, StoredTyped, OneOpen
  <1> QED
    BY <1>1, <1>6, <1>7, PlacesStep
LEMMA MenuCursor ==
    ASSUME MenuInv
    PROVE  /\ Len(Items) \in Nat \ {0} /\ sel \in 1..Len(Items) /\ scroll \in Nat
           /\ browser.visible => browser \in OpenBrowsers
  BY UnderRow, BrowserOpens DEF MenuInv

LEMMA OnDPadStep == ASSUME MenuInv, NEW up \in BOOLEAN, OnDPad(up) PROVE Kept
  <1>1. CASE browser.visible
    <2>1. Browse(BrowserDPad(browser, up))
      BY <1>1 DEF OnDPad
    <2>2. Moved(browser, BrowserDPad(browser, up)) /\ Keeps(browser, BrowserDPad(browser, up))
      BY <1>1, MenuCursor, BrowserDPadMoves
    <2> QED
      BY <1>1, <2>1, <2>2, BrowseStep
  <1>2. CASE ~browser.visible /\ about
    BY <1>2, StutterStep DEF OnDPad
  <1>3. CASE ~browser.visible /\ ~about
    <2> DEFINE row == NextRow(up)
               from == Follow(scroll, row - 1, MenuVisible)
    <2>1. Cursor(row, from)
      BY <1>3 DEF OnDPad
    <2>2. row \in 1..Len(Items)
      BY UnderRow, NextRowStops DEF MenuInv
    <2> HIDE DEF row
    <2>3. from \in Nat /\ (FitsAt(Len(Items), sel, scroll) => FitsAt(Len(Items), row, from))
      BY <2>2, MenuCursor, MenuMoves
    <2> HIDE DEF from
    <2> QED
      BY <1>3, <2>1, <2>2, <2>3, CursorStep
  <1> QED
    BY <1>1, <1>2, <1>3

LEMMA OnDPadLeftRightStep == ASSUME MenuInv, NEW right \in BOOLEAN, OnDPadLeftRight(right) PROVE Kept
  <1>1. CASE dialog.open
    <2>1. /\ dialog' \in {dialog} \cup {[dialog EXCEPT !.ok = right]}
          /\ UNCHANGED <<visible, menuVars, browser, about, settingsVars, gameVars, exited>>
      BY <1>1 DEF OnDPadLeftRight
    <2>2. dialog' \in Dialogs /\ dialog'.asks = dialog.asks
      BY <2>1 DEF MenuInv, FlagsTyped, Dialogs
    <2>3. visible' \in BOOLEAN /\ exited' \in BOOLEAN
      BY <2>1 DEF MenuInv, FlagsTyped
    <2>4. Asked
      BY <1>1, <2>1, StillCovered, NothingAsked DEF settingsVars
    <2>5. ~about /\ (dialog'.asks = "clear history" => overlay \notin Sections)
      BY <1>1, <2>2 DEF MenuInv, OneOpen
    <2> QED
      BY <2>1, <2>2, <2>3, <2>4, <2>5, DialogStep
  <1>2. CASE ~dialog.open /\ Under.action = "TOGGLE_VALUE" /\ Under.enabled
    <2>1. PICK by \in {1, -1} : TurnRow(by)
      BY <1>2 DEF OnDPadLeftRight
    <2>2. \E r \in BOOLEAN : OnDPadLeftRight(r)
      OBVIOUS
    <2> HIDE DEF OnDPadLeftRight
    <2> QED
      BY <1>2, <2>1, <2>2, TurnStep
  <1>3. CASE ~dialog.open /\ ~(Under.action = "TOGGLE_VALUE" /\ Under.enabled)
    BY <1>3, StutterStep DEF OnDPadLeftRight
  <1> QED
    BY <1>1, <1>2, <1>3

LEMMA OnPageUpStep == ASSUME MenuInv, OnPageUp PROVE Kept
  <1>1. CASE browser.visible
    <2>1. Browse(BrowserPageUp(browser))
      BY <1>1 DEF OnPageUp
    <2>2. Moved(browser, BrowserPageUp(browser)) /\ Keeps(browser, BrowserPageUp(browser))
      BY <1>1, MenuCursor, BrowserPageUpMoves
    <2> QED
      BY <1>1, <2>1, <2>2, BrowseStep
  <1>2. CASE ~browser.visible /\ about
    BY <1>2, StutterStep DEF OnPageUp
  <1>3. CASE ~browser.visible /\ ~about
    <2> DEFINE row == AtLeast(1, sel - MenuVisible)
               from == AtLeast(0, scroll - MenuVisible)
    <2>1. Cursor(row, from)
      BY <1>3 DEF OnPageUp
    <2>3. row \in 1..Len(Items) /\ from \in Nat
          /\ (FitsAt(Len(Items), sel, scroll) => FitsAt(Len(Items), row, from))
      BY MenuCursor, MenuMoves
    <2> HIDE DEF from, row
    <2> QED
      BY <1>3, <2>1, <2>3, CursorStep
  <1> QED
    BY <1>1, <1>2, <1>3

LEMMA OnPageDownStep == ASSUME MenuInv, OnPageDown PROVE Kept
  <1>1. CASE browser.visible
    <2>1. Browse(BrowserPageDown(browser))
      BY <1>1 DEF OnPageDown
    <2>2. Moved(browser, BrowserPageDown(browser)) /\ Keeps(browser, BrowserPageDown(browser))
      BY <1>1, MenuCursor, BrowserPageDownMoves
    <2> QED
      BY <1>1, <2>1, <2>2, BrowseStep
  <1>2. CASE ~browser.visible /\ about
    BY <1>2, StutterStep DEF OnPageDown
  <1>3. CASE ~browser.visible /\ ~about
    <2> DEFINE row == AtMost(Len(Items), sel + MenuVisible)
               from == IF row - 1 >= scroll + MenuVisible THEN row - MenuVisible ELSE scroll
    <2>1. Cursor(row, from)
      BY <1>3 DEF OnPageDown
    <2>3. row \in 1..Len(Items) /\ from \in Nat
          /\ (FitsAt(Len(Items), sel, scroll) => FitsAt(Len(Items), row, from))
      BY MenuCursor, MenuMoves
    <2> HIDE DEF from, row
    <2> QED
      BY <1>3, <2>1, <2>3, CursorStep
  <1> QED
    BY <1>1, <1>2, <1>3

(* A row of the menu under the pointer. *)
LEMMA PointedRow ==
    ASSUME MenuInv, NEW row \in HitRows
    PROVE  /\ row \in 1..Len(Items)
           /\ Roomy /\ FitsAt(Len(Items), sel, scroll) => FitsAt(Len(Items), row, scroll)
           /\ Selectable(Items[row])
  <1> DEFINE first == Clamp(scroll, Len(Items), MenuVisible)
  <1>1. /\ row \in (first + 1)..AtMost(Len(Items), first + Visible(Len(Items), MenuVisible) + Below)
        /\ Selectable(Items[row])
    BY DEF HitRows, RowsHit
  <1>2. Len(Items) \in Nat \ {0} /\ sel \in 1..Len(Items) /\ scroll \in Nat
    BY MenuCursor
  <1>3. row \in 1..Len(Items)
        /\ (Fit >= MenuVisible /\ FitsAt(Len(Items), sel, scroll) => FitsAt(Len(Items), row, scroll))
    BY <1>1, <1>2, MenuPointed
  <1> QED
    BY <1>1, <1>3 DEF Roomy

LEMMA PointerMoveStep == ASSUME MenuInv, NEW row \in PointerRows, HandlePointerMove(row) PROVE Kept
  <1>1. CASE browser.visible
    <2>1. Browse(BrowserHover(browser, row)) /\ row \in BrowserHit(browser)
      BY <1>1 DEF HandlePointerMove, PointerRows
    <2>2. Moved(browser, BrowserHover(browser, row)) /\ Keeps(browser, BrowserHover(browser, row))
      BY <1>1, <2>1, MenuCursor, BrowserHoverMoves
    <2> QED
      BY <1>1, <2>1, <2>2, BrowseStep
  <1>2. CASE ~browser.visible
    <2>1. Cursor(row, scroll) /\ row \in HitRows
      BY <1>2 DEF HandlePointerMove, PointerRows
    <2> QED
      BY <1>2, <2>1, PointedRow, MenuCursor, CursorStep
  <1> QED
    BY <1>1, <1>2

LEMMA PointerDownStep == ASSUME MenuInv, NEW row \in PointerRows, HandlePointerDown(row) PROVE Kept
  <1>1. CASE dialog.open
    BY <1>1, DialogOnConfirmStep, DialogOnBackStep DEF HandlePointerDown
  <1>2. CASE ~dialog.open /\ browser.visible /\ row = browser.sel
    BY <1>2, AnswerStep DEF HandlePointerDown
  <1>3. CASE ~dialog.open /\ browser.visible /\ row # browser.sel
    <2>1. Browse(BrowserHover(browser, row)) /\ row \in BrowserHit(browser)
      BY <1>3 DEF HandlePointerDown, PointerRows
    <2>2. Moved(browser, BrowserHover(browser, row)) /\ Keeps(browser, BrowserHover(browser, row))
      BY <1>3, <2>1, MenuCursor, BrowserHoverMoves
    <2> QED
      BY <1>3, <2>1, <2>2, BrowseStep
  <1>4. CASE ~dialog.open /\ ~browser.visible /\ about
    BY <1>4, AboutCloses DEF HandlePointerDown
  <1>5. CASE Bare
    <2>1. row = sel /\ ConfirmRow /\ row \in HitRows
      BY <1>5 DEF HandlePointerDown, Bare, PointerRows
    <2>2. Under.enabled
      BY <2>1, PointedRow DEF Under, Selectable
    <2> QED
      BY <1>5, <2>1, <2>2, ConfirmRowStep
  <1> QED
    BY <1>1, <1>2, <1>3, <1>4, <1>5 DEF Bare

LEMMA PointerWheelStep == ASSUME MenuInv, NEW up \in BOOLEAN, HandlePointerWheel(up) PROVE Kept
  <1>1. CASE browser.visible
    <2>1. Browse(BrowserWheel(browser, up))
      BY <1>1 DEF HandlePointerWheel
    <2>2. Moved(browser, BrowserWheel(browser, up)) /\ Keeps(browser, BrowserWheel(browser, up))
      BY <1>1, MenuCursor, BrowserWheelMoves
    <2> QED
      BY <1>1, <2>1, <2>2, BrowseStep
  <1>2. CASE ~browser.visible
    <2> DEFINE row == IF up THEN AtLeast(1, sel - 1) ELSE AtMost(Len(Items), sel + 1)
               from == Follow(scroll, row - 1, MenuVisible)
    <2>1. Cursor(row, from)
      BY <1>2 DEF HandlePointerWheel
    <2>2. row \in 1..Len(Items)
      BY MenuCursor DEF AtLeast, AtMost
    <2> HIDE DEF row
    <2>3. from \in Nat /\ (FitsAt(Len(Items), sel, scroll) => FitsAt(Len(Items), row, from))
      BY <2>2, MenuCursor, MenuMoves
    <2> HIDE DEF from
    <2> QED
      BY <1>2, <2>1, <2>2, <2>3, CursorStep
  <1> QED
    BY <1>1, <1>2

LEMMA CtrlLStep == ASSUME MenuInv, CtrlL PROVE Kept
  <1>1. /\ browser' = OpenBrowser(browser, favourite)
        /\ UNCHANGED <<visible, menuVars, about, dialog, settingsVars, gameVars, exited>>
    BY DEF CtrlL, Browse
  <1>2. browser \in Browsers /\ favourite \in FolderPaths
    BY DEF MenuInv, BrowserSound, StoredTyped
  <1>3. Fresh(browser')
    BY <1>1, <1>2, FreshOpen
  <1> QED
    BY <1>1, <1>3, BrowserStep DEF Fresh

LEMMA BackRequestedStep == ASSUME MenuInv, BackRequested PROVE Kept
  <1>1. CASE browser.visible
    BY <1>1, BrowserBackStep DEF BackRequested, Browse
  <1>2. CASE ~browser.visible
    BY <1>2, StutterStep DEF BackRequested
  <1> QED
    BY <1>1, <1>2

LEMMA RenderStep == ASSUME MenuInv, Render PROVE Kept
  <1>1. browser.visible /\ Browse(DrawBrowser(browser))
    BY DEF Render
  <1>2. Moved(browser, DrawBrowser(browser)) /\ Keeps(browser, DrawBrowser(browser))
    BY <1>1, MenuCursor, DrawBrowserMoves
  <1> QED
    BY <1>1, <1>2, BrowseStep
(* A game comes or goes, and the lists stay.                               *)
LEMMA GameStep ==
    ASSUME MenuInv, UNCHANGED <<menuVars, browser, about, dialog, options, exited>>,
           FlagsTyped', StoredTyped', history' = <<>> => history = <<>>
    PROVE  Kept
  <1> USE DEF MenuInv, menuVars
  <1>3. RowsStored'
    BY DEF RowsStored, RowsOf
  <1>4. /\ PlacesSound' /\ Under' = Under
        /\ Lit(overlay, sel, scroll, savedPanel, savedOverlay, historyRows)
                => Lit(overlay', sel', scroll', savedPanel', savedOverlay', historyRows')
    BY PlacesKept
  <1>5. OneOpen'
    BY <1>4 DEF OneOpen
  <1>6. BrowserSound(browser)' /\ (BrowserCursorShown(browser) => BrowserCursorShown(browser)')
    BY DEF BrowserSound, BrowserCursorShown
  <1>7. Asked
    BY StillCovered DEF Asked
  <1> QED
    BY <1>3, <1>4, <1>5, <1>6, <1>7, KeptByParts DEF CursorInv

LEMMA SetCoreLoadedStep == ASSUME MenuInv, SetCoreLoaded PROVE Kept
  <1>0. /\ coreLoaded' = loaded /\ RebuildItems
        /\ UNCHANGED <<visible, savedPanel, historyRows, shown, browser, about, dialog, options, favourite,
                        history, loaded, request, exited>>
    BY DEF SetCoreLoaded, settingsVars
  <1>1. FlagsTyped' /\ StoredTyped'
    BY <1>0 DEF MenuInv, FlagsTyped, StoredTyped
  <1>2. RowsStored'
    BY <1>0 DEF MenuInv, RowsStored, RowsOf
  <1>3. Asked
    BY <1>0, StillCovered, NothingAsked
  <1>4. BrowserSound(browser)' /\ (BrowserCursorShown(browser) => BrowserCursorShown(browser)')
    BY <1>0 DEF MenuInv, BrowserSound, BrowserCursorShown
  <1>5. ~(about' /\ dialog'.open)
    <2>1. about' = about /\ dialog' = dialog
      BY <1>0
    <2>2. ~(about /\ dialog.open)
      BY DEF MenuInv, OneOpen
    <2> QED
      BY ONLY <2>1, <2>2, Zenon
  <1> QED
    BY <1>0, <1>1, <1>2, <1>3, <1>4, <1>5, RebuildStep

LEMMA LoadGameStep == ASSUME MenuInv, LoadGame PROVE Kept
  <1>1. FlagsTyped'
    BY DEF LoadGame, MenuInv, FlagsTyped
  <1>2. StoredTyped'
    BY DEF LoadGame, MenuInv, StoredTyped, menuVars, settingsVars
  <1> QED
    BY <1>1, <1>2, GameStep DEF LoadGame, settingsVars

LEMMA GameEndedStep == ASSUME MenuInv, GameEnded PROVE Kept
  <1>1. FlagsTyped'
    BY DEF GameEnded, MenuInv, FlagsTyped
  <1>2. StoredTyped'
    BY DEF GameEnded, MenuInv, StoredTyped, menuVars, settingsVars
  <1> QED
    BY <1>1, <1>2, GameStep DEF GameEnded, settingsVars

LEMMA GameStartedStep == ASSUME MenuInv, GameStarted PROVE Kept
  <1>0. /\ visible' = FALSE /\ request' = None /\ coreLoaded' = TRUE /\ request # None
        /\ history' = IF request = <<>> THEN history ELSE AddToHistoryList(history, request)
        /\ UNCHANGED <<savedPanel, historyRows, shown, browser, about, dialog, options, favourite, loaded, exited>>
        /\ IF coreLoaded THEN UNCHANGED <<overlay, savedOverlay, sel, scroll>> ELSE RebuildItems
    BY DEF GameStarted
  <1>1. request \in FolderPaths /\ history \in Seq(FolderPaths) /\ Len(history) <= MaxHistory
    BY <1>0 DEF MenuInv, FlagsTyped, StoredTyped
  <1>2. history' \in Seq(FolderPaths) /\ Len(history') <= MaxHistory /\ (history' = <<>> => history = <<>>)
    BY <1>0, <1>1, HistoryTyped
  <1>3. FlagsTyped' /\ StoredTyped'
    BY <1>0, <1>2 DEF MenuInv, FlagsTyped, StoredTyped
  <1>4. CASE coreLoaded
    <2>1. UNCHANGED <<menuVars, browser, about, dialog, options, exited>>
      BY <1>0, <1>4 DEF menuVars
    <2> QED
      BY <1>2, <1>3, <2>1, GameStep
  <1>5. CASE ~coreLoaded
    <2>1. RebuildItems
      BY <1>0, <1>5
    <2>2. RowsStored'
      BY <1>0 DEF MenuInv, RowsStored, RowsOf
    <2>3. Asked
      BY <1>0, <1>2, StillCovered DEF Asked
    <2>4. BrowserSound(browser)' /\ (BrowserCursorShown(browser) => BrowserCursorShown(browser)')
      BY <1>0 DEF MenuInv, BrowserSound, BrowserCursorShown
    <2>5. ~(about' /\ dialog'.open)
      <3>1. about' = about /\ dialog' = dialog
        BY <1>0
      <3>2. ~(about /\ dialog.open)
        BY DEF MenuInv, OneOpen
      <3> QED
        BY ONLY <3>1, <3>2, Zenon
    <2> QED
      BY <1>0, <1>3, <2>1, <2>2, <2>3, <2>4, <2>5, RebuildStep
  <1> QED
    BY <1>4, <1>5

LEMMA MenuStep == ASSUME MenuInv, Next PROVE Kept
  <1>1. CASE OnConfirm
    BY <1>1, OnConfirmStep
  <1>2. CASE OnBack
    BY <1>2, OnBackStep
  <1>3. CASE OnPageUp
    BY <1>3, OnPageUpStep
  <1>4. CASE OnPageDown
    BY <1>4, OnPageDownStep
  <1>5. CASE \E b \in BOOLEAN : OnDPad(b)
    BY <1>5, OnDPadStep
  <1>6. CASE \E b \in BOOLEAN : OnDPadLeftRight(b)
    BY <1>6, OnDPadLeftRightStep
  <1>7. CASE \E b \in BOOLEAN : HandlePointerWheel(b)
    BY <1>7, PointerWheelStep
  <1>8. CASE \E row \in PointerRows : HandlePointerMove(row)
    BY <1>8, PointerMoveStep
  <1>9. CASE \E row \in PointerRows : HandlePointerDown(row)
    BY <1>9, PointerDownStep
  <1>10. CASE SetCoreLoaded
    BY <1>10, SetCoreLoadedStep
  <1>11. CASE LoadGame
    BY <1>11, LoadGameStep
  <1>12. CASE GameStarted
    BY <1>12, GameStartedStep
  <1>13. CASE GameEnded
    BY <1>13, GameEndedStep
  <1>14. CASE Render
    BY <1>14, RenderStep
  <1>15. CASE CtrlL
    BY <1>15, CtrlLStep
  <1>16. CASE BackRequested
    BY <1>16, BackRequestedStep
  <1> QED
    BY <1>1, <1>2, <1>3, <1>4, <1>5, <1>6, <1>7, <1>8, <1>9, <1>10, <1>11, <1>12, <1>13, <1>14,
       <1>15, <1>16 DEF Next

LEMMA MenuInit == ASSUME Init PROVE MenuInv /\ CursorInv
  <1>1. FlagsTyped
    BY DialogsTyped DEF Init, FlagsTyped
  <1>2. StoredTyped
    BY EmptyPath DEF Init, StoredTyped
  <1>3. RowsStored
    BY DEF Init, RowsStored
  <1>4. BrowserSound(browser) /\ BrowserCursorShown(browser) /\ ~browser.visible
    BY FreshClosed DEF Init, Fresh
  <1> DEFINE top == [sel |-> 1, scroll |-> 0]
  <1>5. /\ ItemsFor(<<>>, <<>>) = MainItems /\ Len(MainItems) = 7 /\ FitsAt(7, 1, 0)
        /\ top \in Position /\ top.sel = 1 /\ top.scroll = 0 /\ 1 \in 1..7 /\ 0 \in Nat
    BY ItemsOn, MainList, TopFits DEF Position
  <1> HIDE DEF top
  <1>6. Placed(<<>>, 1, 0, top, <<>>, <<>>)
    BY <1>5, StackFacts, EmptyPath DEF Placed
  <1>7. Lit(<<>>, 1, 0, top, <<>>, <<>>)
    <2>1. \A at : <<>> # <<at>>
      OBVIOUS
    <2> QED
      BY <1>5, <2>1 DEF Lit
  <1>8. /\ overlay = <<>> /\ sel = 1 /\ scroll = 0 /\ savedPanel = top /\ savedOverlay = <<>>
        /\ historyRows = <<>> /\ about = FALSE /\ dialog = NoDialog
    BY DEF Init, top
  <1>9. PlacesSound /\ Lit(overlay, sel, scroll, savedPanel, savedOverlay, historyRows)
    BY <1>6, <1>7, <1>8 DEF PlacesSound
  <1>10. OneOpen
    BY <1>4, <1>8, DialogsTyped DEF OneOpen
  <1> QED
    BY <1>1, <1>2, <1>3, <1>4, <1>9, <1>10 DEF MenuInv, CursorInv

(* The menu keeps its types, its places and its layers.                    *)
LEMMA MenuInvariant == Spec => []MenuInv
  <1>1. Init => MenuInv
    BY MenuInit
  <1>2. MenuInv /\ [Next]_vars => MenuInv'
    <2>1. ASSUME MenuInv, Next PROVE MenuInv'
      BY <2>1, MenuStep DEF Kept
    <2>2. ASSUME MenuInv, UNCHANGED vars PROVE MenuInv'
      BY <2>2, StutterStep DEF Kept
    <2> QED
      BY <2>1, <2>2
  <1> QED
    BY <1>1, <1>2, PTL DEF Spec

(***************************************************************************)
(* What the invariant says of the layers.                                  *)
(***************************************************************************)
LEMMA ShortTyped ==
    ASSUME NEW T
    PROVE  /\ <<>> \in Seq(T) /\ \A x \in T : <<x>> \in Seq(T)
           /\ \A x, y \in T : <<x, y>> \in Seq(T)
  OBVIOUS

LEMMA StackTyped ==
    ASSUME NEW stack \in Stacks
    PROVE  stack \in Seq(SectionTitles \cup {"Settings", "History"}) /\ Len(stack) <= 2
  <1> DEFINE T == SectionTitles \cup {"Settings", "History"}
  <1>1. "Settings" \in T /\ "History" \in T /\ "General" \in T /\ "Input" \in T
    BY DEF SectionTitles
  <1> HIDE DEF T
  <1>2. stack \in Seq(T)
    BY <1>1, ShortTyped DEF Stacks, Sections
  <1>3. CASE stack \in Sections
    <2>1. Len(stack) = 2
      BY <1>3, StackFacts
    <2> QED
      BY <1>2, <2>1 DEF T
  <1>4. CASE stack \notin Sections
    <2>1. Len(stack) \in {0, 1}
      BY <1>4, StackFacts DEF Stacks
    <2> QED
      BY <1>2, <2>1 DEF T
  <1> QED
    BY <1>3, <1>4

LEMMA ShownTyped == ASSUME RowsStored PROVE shown \in [OptionKeys -> 0..(RowSize - 1)]
  <1>1. \A k \in OptionKeys : FindVal(k, options[k]) \in 0..(RowSize - 1)
    BY FindValTyped DEF RowsStored
  <1> QED
    BY <1>1 DEF RowsStored, RowsOf

LEMMA TypesHold == ASSUME MenuInv PROVE TypeOK
  <1>1. overlay \in Seq(SectionTitles \cup {"Settings", "History"})
    BY StackTyped DEF MenuInv, PlacesSound, Placed
  <1>2. sel \in Nat \ {0} /\ scroll \in Nat /\ savedPanel \in Position
    <2>1. Len(Items) \in Nat \ {0} /\ sel \in 1..Len(Items) /\ scroll \in Nat
      BY UnderRow DEF MenuInv
    <2>2. savedPanel \in Position
      BY DEF MenuInv, PlacesSound, Placed
    <2> QED
      BY <2>1, <2>2
  <1>3. savedOverlay \in Seq(Position)
    <2>1. savedOverlay = <<>> \/ \E at \in Position : savedOverlay = <<at>>
      BY DEF MenuInv, PlacesSound, Placed
    <2> QED
      BY <2>1, ShortTyped
  <1>4. shown \in [OptionKeys -> 0..(RowSize - 1)]
    BY ShownTyped DEF MenuInv
  <1>5. /\ options \in [OptionKeys -> {None} \cup 0..(RowSize - 1)]
        /\ Len(history) <= MaxHistory /\ Len(historyRows) <= MaxHistory
    BY DEF MenuInv, RowsStored, StoredTyped
  <1>6. dialog.open \in BOOLEAN /\ browser.visible \in BOOLEAN
    BY DEF MenuInv, FlagsTyped, Dialogs, BrowserSound, Browsers
  <1>7. /\ visible \in BOOLEAN /\ about \in BOOLEAN /\ coreLoaded \in BOOLEAN
        /\ loaded \in BOOLEAN /\ exited \in BOOLEAN
    BY DEF MenuInv, FlagsTyped
  <1> QED
    BY <1>1, <1>2, <1>3, <1>4, <1>5, <1>6, <1>7 DEF TypeOK

LEMMA LayersHold == ASSUME MenuInv PROVE LayersFit
  <1>1. overlay \in Stacks
    BY DEF MenuInv, PlacesSound, Placed
  <1>2. Len(overlay) <= 3
    <2>1. Len(overlay) \in Nat /\ Len(overlay) <= 2
      BY <1>1, StackTyped
    <2> QED
      BY <2>1
  <1>3. Len(savedOverlay) = IF OverlayActive THEN Len(overlay) - 1 ELSE 0
    <2>1. CASE overlay \in Sections
      <3>1. Len(overlay) = 2 /\ overlay # <<>>
        BY <2>1, StackFacts
      <3>2. \E at \in Position : savedOverlay = <<at>>
        BY <2>1 DEF MenuInv, PlacesSound, Placed
      <3> QED
        BY <3>1, <3>2 DEF OverlayActive
    <2>2. CASE overlay \notin Sections
      <3>1. savedOverlay = <<>>
        BY <2>2 DEF MenuInv, PlacesSound, Placed
      <3>2. overlay # <<>> => Len(overlay) = 1
        BY <1>1, <2>2, StackFacts DEF Stacks
      <3> QED
        BY <3>1, <3>2 DEF OverlayActive
    <2> QED
      BY <2>1, <2>2
  <1>4. ~(about /\ dialog.open)
    BY DEF MenuInv, OneOpen
  <1> QED
    BY <1>2, <1>3, <1>4 DEF LayersFit

(* The arrays of the overlays never overflow, every overlay but the        *)
(* topmost has a saved position, the about box and the confirm box are     *)
(* never open both, and every variable has its type, whatever is pressed,  *)
(* Ctrl+L over a box included, and whenever a game comes or goes.          *)
THEOREM MenuLayers == Spec => []LayersSound
  <1>1. MenuInv => LayersSound
    BY TypesHold, LayersHold DEF LayersSound
  <1> QED
    BY <1>1, MenuInvariant, PTL

(* Every row shows the stored value, or the default where nothing is       *)
(* stored, through every toggle, reset, reload and rebuild of the lists.   *)
THEOREM MenuShows == Spec => []MenuShowsSettings
  <1>1. MenuInv => MenuShowsSettings
    BY DEF MenuInv, RowsStored, MenuShowsSettings
  <1> QED
    BY <1>1, MenuInvariant, PTL

(* No step changes an option, clears the history or ends the program       *)
(* but by the row under the cursor with no box open, and the browser over  *)
(* it for Left and Right only, or by the yes to the question that asks for *)
(* just that; and only Ctrl+L brings the browser under a box.              *)
THEOREM MenuAsked == Spec => OnlyWhatWasAsked
  <1>1. MenuInv /\ [Next]_vars => [Asked]_vars
    BY MenuStep DEF Kept
  <1> QED
    BY <1>1, MenuInvariant, PTL DEF Spec, OnlyWhatWasAsked

(* Back closes what is on top, and nothing else.                           *)
One(open)  == IF open THEN 1 ELSE 0
Deep(b)    == IF b.visible THEN 1 + Len(b.path) ELSE 0

LEMMA InsideParts ==
    /\ Inside = Len(overlay) + One(about) + One(dialog.open) + Deep(browser)
    /\ Inside' = Len(overlay') + One(about') + One(dialog'.open) + Deep(browser')
  BY DEF Inside, One, Deep

LEMMA PartsTyped ==
    ASSUME MenuInv
    PROVE  /\ Len(overlay) \in Nat /\ Deep(browser) \in Nat
           /\ One(about) \in Nat /\ One(dialog.open) \in Nat /\ Inside \in Nat
  <1>1. Len(overlay) \in Nat
    <2>1. overlay \in Stacks
      BY DEF MenuInv, PlacesSound, Placed
    <2> QED
      BY <2>1, StackTyped
  <1>2. Len(browser.path) \in Nat
    BY DEF MenuInv, BrowserSound, Browsers, FolderPaths
  <1>3. Deep(browser) \in Nat
    BY <1>2 DEF Deep
  <1>4. One(about) \in Nat /\ One(dialog.open) \in Nat
    BY DEF One
  <1> QED
    BY <1>1, <1>3, <1>4, InsideParts

(* A Back of the browser, to the folder above or out of the browser. *)
LEMMA BrowserBackLeads ==
    ASSUME MenuInv, browser.visible, browser' = BrowserBack(browser, favourite),
           UNCHANGED <<menuVars, about, dialog>>
    PROVE  Inside' = Inside - 1
  <1>1. browser \in Browsers /\ favourite \in FolderPaths
    BY DEF MenuInv, BrowserSound, StoredTyped
  <1>2. /\ browser.path = <<>> => ~browser'.visible
        /\ browser.path # <<>> => browser'.visible /\ Len(browser'.path) = Len(browser.path) - 1
    BY <1>1, FreshBack
  <1>3. browser.path \in FolderPaths
    BY <1>1 DEF Browsers
  <1>4. Len(browser.path) \in Nat /\ (browser.path = <<>> => Len(browser.path) = 0)
    BY <1>3 DEF FolderPaths
  <1>5. Deep(browser) = 1 + Len(browser.path)
    BY DEF Deep
  <1>6. Deep(browser') = Deep(browser) - 1
    <2>1. CASE browser.path = <<>>
      BY <1>2, <1>4, <1>5, <2>1 DEF Deep
    <2>2. CASE browser.path # <<>>
      <3>1. Deep(browser') = 1 + Len(browser'.path)
        BY <1>2, <2>2 DEF Deep
      <3> QED
        BY <1>2, <1>4, <1>5, <2>2, <3>1
    <2> QED
      BY <2>1, <2>2
  <1>7. Len(overlay') = Len(overlay) /\ One(about') = One(about) /\ One(dialog'.open) = One(dialog.open)
    BY DEF menuVars
  <1> QED
    BY <1>6, <1>7, InsideParts, PartsTyped

LEMMA BackLeads ==
    ASSUME MenuInv, OnBack
    PROVE  (Inside > 0 => Inside' = Inside - 1) /\ UNCHANGED <<options, favourite, history>>
  <1>1. CASE dialog.open
    <2>1. dialog' = NoDialog /\ UNCHANGED <<menuVars, settingsVars, browser, about>>
      BY <1>1 DEF OnBack, DialogOnBack, DialogCloses
    <2>2. One(dialog.open) = 1 /\ One(dialog'.open) = 0
      BY <1>1, <2>1, DialogsTyped DEF One
    <2>3. Len(overlay') = Len(overlay) /\ One(about') = One(about) /\ Deep(browser') = Deep(browser)
      BY <2>1 DEF menuVars
    <2>4. Inside' = Inside - 1
      BY <2>2, <2>3, InsideParts, PartsTyped
    <2> QED
      BY <2>1, <2>4 DEF settingsVars
  <1>2. CASE ~dialog.open /\ about
    <2>1. about' = FALSE /\ UNCHANGED <<menuVars, settingsVars, browser, dialog>>
      BY <1>2 DEF OnBack
    <2>2. One(about) = 1 /\ One(about') = 0
      BY <1>2, <2>1 DEF One
    <2>3. /\ Len(overlay') = Len(overlay) /\ One(dialog'.open) = One(dialog.open)
          /\ Deep(browser') = Deep(browser)
      BY <2>1 DEF menuVars
    <2>4. Inside' = Inside - 1
      BY <2>2, <2>3, InsideParts, PartsTyped
    <2> QED
      BY <2>1, <2>4 DEF settingsVars
  <1>3. CASE ~dialog.open /\ ~about /\ browser.visible
    <2>1. /\ browser' = BrowserBack(browser, favourite)
          /\ UNCHANGED <<menuVars, settingsVars, about, dialog>>
      BY <1>3 DEF OnBack
    <2>2. Inside' = Inside - 1
      BY <1>3, <2>1, BrowserBackLeads
    <2> QED
      BY <2>1, <2>2 DEF settingsVars
  <1>4. CASE Bare /\ overlay # <<>>
    <2>1. PopOverlay /\ UNCHANGED <<browser, about, dialog, settingsVars>>
      BY <1>4 DEF OnBack, Bare, OverlayActive
    <2>2. /\ overlay \in Sections => overlay' = <<"Settings">>
          /\ overlay \notin Sections => overlay' = <<>>
      BY <1>4, <2>1, PopOverlayIs
    <2>3. overlay \in Stacks
      BY DEF MenuInv, PlacesSound, Placed
    <2>4. Len(overlay') = Len(overlay) - 1
      <3>1. CASE overlay \in Sections
        <4>1. Len(overlay) = 2
          BY <3>1, StackFacts
        <4>2. Len(overlay') = 1
          BY <2>2, <3>1, StackFacts
        <4> QED
          BY <4>1, <4>2
      <3>2. CASE overlay \notin Sections
        <4>1. Len(overlay) = 1
          BY <1>4, <2>3, <3>2, StackFacts DEF Stacks
        <4>2. Len(overlay') = 0
          BY <2>2, <3>2, StackFacts
        <4> QED
          BY <4>1, <4>2
      <3> QED
        BY <3>1, <3>2
    <2>5. One(about') = One(about) /\ One(dialog'.open) = One(dialog.open) /\ Deep(browser') = Deep(browser)
      BY <2>1
    <2>6. Inside' = Inside - 1
      BY <2>4, <2>5, InsideParts, PartsTyped
    <2> QED
      BY <2>1, <2>6 DEF settingsVars
  <1>5. CASE Bare /\ overlay = <<>>
    <2>1. UNCHANGED vars
      BY <1>5 DEF OnBack, Bare, OverlayActive
    <2>2. Len(overlay) = 0 /\ One(about) = 0 /\ One(dialog.open) = 0 /\ Deep(browser) = 0
      BY <1>5 DEF Bare, One, Deep
    <2>3. Inside = 0
      BY <2>2, InsideParts
    <2> QED
      BY <2>1, <2>3 DEF vars, settingsVars
  <1> QED
    BY <1>1, <1>2, <1>3, <1>4, <1>5 DEF Bare

LEMMA BackRequestedLeads ==
    ASSUME MenuInv, BackRequested
    PROVE  /\ Inside' = Inside - (IF browser.visible THEN 1 ELSE 0)
           /\ UNCHANGED <<options, favourite, history>>
  <1>1. CASE browser.visible
    <2>1. /\ browser' = BrowserBack(browser, favourite)
          /\ UNCHANGED <<menuVars, settingsVars, about, dialog>>
      BY <1>1 DEF BackRequested, Browse
    <2> QED
      BY <1>1, <2>1, BrowserBackLeads DEF settingsVars
  <1>2. CASE ~browser.visible
    <2>1. UNCHANGED vars
      BY <1>2 DEF BackRequested
    <2>2. /\ Len(overlay') = Len(overlay) /\ One(about') = One(about)
          /\ One(dialog'.open) = One(dialog.open) /\ Deep(browser') = Deep(browser)
      BY <2>1 DEF vars, menuVars
    <2>3. Inside' = Inside - 0
      BY <2>2, InsideParts, PartsTyped
    <2> QED
      BY <1>2, <2>1, <2>3 DEF vars, settingsVars
  <1> QED
    BY <1>1, <1>2

(* A press of Back leads one step out, whatever is open and wherever the   *)
(* browser is, until the panel is reached; the Back of the system leads    *)
(* one step out of the browser; and neither changes a setting.             *)
THEOREM MenuBack == Spec => BackLeadsOut
  <1>1. MenuInv /\ [Next]_vars => [LeadsOut]_vars
    BY BackLeads, BackRequestedLeads DEF LeadsOut
  <1> QED
    BY <1>1, MenuInvariant, PTL DEF Spec, BackLeadsOut

(***************************************************************************)
(* The rows of the cursor are drawn.                                       *)
(***************************************************************************)
LEMMA FitsDrawn ==
    ASSUME NEW items, NEW at \in Position, Len(items) \in Nat, Fit >= MenuVisible,
           FitsAt(Len(items), at.sel, at.scroll), at.sel <= Len(items)
    PROVE  List(items, at).lit \in List(items, at).rows
  <1> DEFINE len == Len(items)
             s == at.sel
             sc == at.scroll
  <1>1. len \in Nat /\ s \in Nat /\ sc \in Nat /\ FitsAt(len, s, sc) /\ s <= len
    BY DEF Position
  <1> DEFINE first == Clamp(sc, len, MenuVisible)
  <1>2. /\ List(items, at).lit = s
        /\ List(items, at).rows = (first + 1)..AtMost(len, first + Visible(len, MenuVisible) + Below)
    BY DEF List, RowsHit
  <1>3. MenuVisible \in Nat /\ MenuVisible > 0 /\ Fit \in Nat /\ Fit > 0 /\ Below \in Nat
    BY MenuConstants
  <1> HIDE DEF len, s, sc
  <1>4. s \in (first + 1)..AtMost(len, first + Visible(len, MenuVisible) + Below)
    BY <1>1, <1>3 DEF FitsAt, AtMost, AtLeast, Clamp, Visible
  <1> QED
    BY <1>2, <1>4

LEMMA ItemsOfTop == ASSUME overlay # <<>> PROVE ItemsOf(Last(overlay)) = Items
  BY DEF Items, OverlayActive, Title

LEMMA CursorDrawn == ASSUME MenuInv, CursorInv, Roomy PROVE CursorShown
  <1>0. /\ Placed(overlay, sel, scroll, savedPanel, savedOverlay, historyRows)
        /\ Lit(overlay, sel, scroll, savedPanel, savedOverlay, historyRows)
        /\ BrowserCursorShown(browser) /\ Fit >= MenuVisible
    BY DEF MenuInv, PlacesSound, CursorInv, Roomy
  <1>1. overlay \in Stacks /\ Len(Items) \in Nat /\ Len(MainItems) = 7 /\ Len(SettingsItems) = 7
    BY UnderRow, MainList, SettingsList DEF MenuInv
  <1>2. Here \in Position /\ Here.sel = sel /\ Here.scroll = scroll
    BY UnderRow DEF MenuInv, Here, Position
  <1>3. Items = ItemsFor(overlay, historyRows)
    BY ItemsAre
  <1>4. List(Items, Here).lit \in List(Items, Here).rows
    <2>1. FitsAt(Len(Items), Here.sel, Here.scroll) /\ Here.sel <= Len(Items)
      <3>1. FitsAt(Len(Items), Here.sel, Here.scroll)
        BY <1>0, <1>2, <1>3 DEF Lit
      <3> QED
        BY <1>2, <3>1, UnderRow DEF MenuInv
    <2> QED
      BY <1>0, <1>1, <1>2, <2>1, FitsDrawn
  <1>5. List(MainItems, savedPanel).lit \in List(MainItems, savedPanel).rows
    <2>1. savedPanel \in Position /\ FitsAt(Len(MainItems), savedPanel.sel, savedPanel.scroll)
      BY <1>0 DEF Placed, Lit
    <2>2. Len(MainItems) \in Nat /\ savedPanel.sel <= Len(MainItems)
      BY <1>0, <1>1 DEF Placed
    <2> QED
      BY <1>0, <2>1, <2>2, FitsDrawn
  <1>6. PanelDrawn.lit \in PanelDrawn.rows
    <2>1. CASE OverlayActive
      BY <1>5, <2>1 DEF PanelDrawn
    <2>2. CASE ~OverlayActive
      BY <1>4, <2>2 DEF PanelDrawn, Items
    <2> QED
      BY <2>1, <2>2
  <1>7. ASSUME NEW i \in 1..Len(overlay) PROVE OverlaysDrawn[i].lit \in OverlaysDrawn[i].rows
    <2>1. OverlaysDrawn[i] = List(ItemsOf(overlay[i]), IF i = Len(overlay) THEN Here ELSE savedOverlay[i])
      BY DEF OverlaysDrawn
    <2>2. Len(overlay) \in Nat
      BY <1>1, StackTyped
    <2>3. CASE i = Len(overlay)
      <3>1. overlay # <<>> /\ Last(overlay) = overlay[i]
        BY <2>2, <2>3, StackFacts DEF Last
      <3>2. OverlaysDrawn[i] = List(Items, Here)
        BY <2>1, <2>3, <3>1, ItemsOfTop
      <3> QED
        BY <1>4, <3>2
    <2>4. CASE i # Len(overlay)
      <3>1. Len(overlay) > 1
        BY <2>2, <2>4
      <3>2. overlay \in Sections /\ Len(overlay) = 2
        <4>1. CASE overlay \in Sections
          BY <4>1, StackFacts
        <4>2. CASE overlay \notin Sections
          <5>1. overlay \in {<<>>, <<"Settings">>, <<"History">>}
            BY <1>1, <4>2 DEF Stacks
          <5>2. Len(overlay) = 0 \/ Len(overlay) = 1
            <6>1. Len(<<>>) = 0 /\ Len(<<"Settings">>) = 1 /\ Len(<<"History">>) = 1
              BY StackFacts
            <6> QED
              BY ONLY <5>1, <6>1, Zenon
          <5> QED
            BY <2>2, <3>1, <5>2
        <4> QED
          BY <4>1, <4>2
      <3>3. i = 1
        BY <2>4, <3>2
      <3>4. PICK at \in Position : savedOverlay = <<at>> /\ at.sel \in 1..Len(SettingsItems)
        BY <1>0, <3>2 DEF Placed
      <3>5. FitsAt(Len(SettingsItems), at.sel, at.scroll) /\ at.sel <= Len(SettingsItems)
        BY <1>0, <1>1, <3>4 DEF Lit
      <3>6. overlay[1] = "Settings"
        BY <3>2 DEF Sections
      <3>7. ItemsOf("Settings") = SettingsItems /\ savedOverlay[1] = at
        BY <3>4 DEF ItemsOf
      <3>8. OverlaysDrawn[i] = List(SettingsItems, at)
        BY <2>1, <2>4, <3>3, <3>6, <3>7
      <3>9. Len(SettingsItems) \in Nat
        BY <1>1
      <3> QED
        BY <1>0, <3>5, <3>8, <3>9, FitsDrawn
    <2> QED
      BY <2>3, <2>4
  <1> QED
    BY <1>0, <1>6, <1>7 DEF CursorShown

(* Where the panel has room for the rows it is to show, the row a press of *)
(* Confirm takes, and the one each list below comes back with, exists and  *)
(* is one of those drawn or one the pointer was led to just under them,    *)
(* wherever the cursor was moved or put back.                              *)
THEOREM MenuCursorShown ==
    ASSUME Roomy PROVE Spec => []CursorShown
  <1>1. Init => MenuInv /\ CursorInv
    BY MenuInit
  <1>2. MenuInv /\ CursorInv /\ [Next]_vars => (MenuInv /\ CursorInv)'
    <2>1. ASSUME MenuInv, CursorInv, Next PROVE (MenuInv /\ CursorInv)'
      BY <2>1, MenuStep DEF Kept
    <2>2. ASSUME MenuInv, CursorInv, UNCHANGED vars PROVE (MenuInv /\ CursorInv)'
      BY <2>2, StutterStep DEF Kept
    <2> QED
      BY <2>1, <2>2
  <1>3. MenuInv /\ CursorInv => CursorShown
    BY CursorDrawn
  <1> QED
    BY <1>1, <1>2, <1>3, PTL DEF Spec
=============================================================================
