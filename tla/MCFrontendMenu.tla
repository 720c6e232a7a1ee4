--------------------------- MODULE MCFrontendMenu ---------------------------
(* A drive that cannot be read, the folder of the program on it with a game, *)
(* and one option in the section "General"; "Input" has only its reset.      *)
EXTENDS FrontendMenu

MCDrives  == <<"C">>
MCHome    == <<"C", "dos">>
MCFolders == (<<"C", "dos">> :> <<>>)
MCFiles   == (<<"C", "dos">> :> <<"g1">>)

MCGeneralKeys  == <<"dosbox_pure_menu_time">>
MCInputKeys    == <<>>
MCDefaultValue == ("dosbox_pure_menu_time" :> 1)
=============================================================================
