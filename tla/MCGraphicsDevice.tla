-------------------------- MODULE MCGraphicsDevice --------------------------
\* Two sizes, one of them empty; a scale at which the other one is halved
\* and one at which nothing is; two resolutions, each wider or higher than the
\* other, and one of them within the first staging texture.
EXTENDS GraphicsDevice

MCSizes == {[w |-> 0, h |-> 0], [w |-> 2, h |-> 1]}
MCFrameSizes == {[w |-> 3, h |-> 1], [w |-> 1, h |-> 3]}
MCPreallocated == [w |-> 3, h |-> 2]

=============================================================================
