------------------------------- MODULE MCCow -------------------------------
EXTENDS Cow

\* The key set variables are interchangeable.
Symmetry == Permutations(Sets)

\* Names one below the other, so that renaming a root moves several keys at
\* once.
Chain == <<<<"a">>, <<"a", "a">>, <<"a", "a", "a">>>>

\* A name whose removal from the path of a name collides with another name.
Nested == <<<<"a">>, <<"a", "a">>, <<"a", "a", "b">>, <<"a", "b">>>>
=============================================================================
