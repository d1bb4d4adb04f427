----------------------------- MODULE SharedKeys -----------------------------
(***************************************************************************)
(* What the Key and KeySet API promises about lifetimes and sharing,       *)
(* without any copy-on-write: a key is an object with a name and a value,  *)
(* a key set is a set of keys (its keys are shared with every other key    *)
(* set that contains them, the set itself with nobody), and a key dies     *)
(* when the last key set that contains it lets go of it, unless somebody   *)
(* holds a lock (keyIncRef()) on it.  Names are sequences of name parts.   *)
(***************************************************************************)
EXTENDS Naturals, Sequences, SequencesExt, Functions

CONSTANTS Keys,    \* identities of key objects
          Sets,    \* the key set variables of the application
          Names,   \* names of keys
          Values,  \* values of keys
          Null     \* a dead key, a key set that does not exist, no value

VARIABLES key,     \* Null or name and value of every key object
          elems,   \* Null or the keys of every key set
          locks    \* how often the application has locked a key

vars == <<key, elems, locks>>

Dead == {k \in Keys : key[k] = Null}
Exists(s) == elems[s] # Null

Holders(e, k) == {s \in Sets : e[s] # Null /\ k \in e[s]}
Below(s, root) == {k \in elems[s] : IsPrefix(root, key[k].name)}

Init ==
    /\ key = [k \in Keys |-> Null]
    /\ elems = [s \in Sets |-> Null]
    /\ locks = [k \in Keys |-> 0]

(***************************************************************************)
(* The key sets become e, the keys become content, and the keys that were  *)
(* held by some key set and now are held by none and locked by nobody die. *)
(***************************************************************************)
Become(e, content) ==
    /\ UNCHANGED locks
    /\ elems' = e
    /\ key' = [k \in Keys |->
                  IF /\ Holders(elems, k) # {} /\ Holders(e, k) = {}
                     /\ locks[k] = 0
                  THEN Null ELSE content[k]]

Assign(s, ks) == Become([elems EXCEPT ![s] = ks], key)

Content == [name : Names, value : Values \union {Null}]

NewKey(k) ==
    /\ UNCHANGED <<elems, locks>>
    /\ key[k] = Null
    /\ \E c \in Content : key' = [key EXCEPT ![k] = c]

\* A value may be written at any time and every holder sees it; a name only
\* while no key set is ordered by it.
Write(k) ==
    /\ UNCHANGED <<elems, locks>>
    /\ key[k] # Null
    /\ \E c \in Content : /\ key' = [key EXCEPT ![k] = c]
                          /\ c.name # key[k].name => Holders(elems, k) = {}

Delete(k) ==
    /\ UNCHANGED <<elems, locks>>
    /\ key[k] # Null /\ Holders(elems, k) = {} /\ locks[k] = 0
    /\ key' = [key EXCEPT ![k] = Null]

Lock(k) ==
    /\ locks' = [locks EXCEPT ![k] = @ + 1]
    /\ key[k] # Null
    /\ UNCHANGED <<key, elems>>

Unlock(k) ==
    /\ locks[k] > 0
    /\ locks' = [locks EXCEPT ![k] = @ - 1]
    /\ UNCHANGED <<key, elems>>

SetNew(s) == ~Exists(s) /\ Assign(s, {})
SetDup(d, s) == ~Exists(d) /\ Exists(s) /\ Assign(d, elems[s])
SetCopy(d, s) == Exists(d) /\ Exists(s) /\ Assign(d, elems[s])
SetDel(s) == Exists(s) /\ Assign(s, Null)
SetClear(s) == Exists(s) /\ Assign(s, {})

\* A key set holds one key of a name: what is appended replaces it.
AppendAll(s, new) ==
    /\ Exists(s)
    /\ Assign(s, new \union
                 {k \in elems[s] : \A n \in new : key[n].name # key[k].name})

AppendKey(s, k) == key[k] # Null /\ AppendAll(s, {k})
AppendSet(s, t) == Exists(t) /\ AppendAll(s, elems[t])

\* The popped key survives: the application has it in its hands.
Pop(s) ==
    /\ Exists(s)
    /\ \E k \in elems[s] :
          /\ elems' = [elems EXCEPT ![s] = @ \ {k}]
          /\ UNCHANGED <<key, locks>>

BelowSet(d, s, root) ==
    ~Exists(d) /\ Exists(s) /\ Assign(d, Below(s, root))

Cut(d, s, root) ==
    /\ ~Exists(d) /\ Exists(s)
    /\ Become([elems EXCEPT ![s] = @ \ Below(s, root),
                            ![d] = Below(s, root)], key)

Subtract(s, t) ==
    /\ Exists(s) /\ Exists(t)
    /\ Assign(s, {k \in elems[s] :
                     \A n \in elems[t] : key[n].name # key[k].name})

(***************************************************************************)
(* Renaming moves the keys at or below root to newRoot, in this key set    *)
(* only: the keys that somebody else holds too are replaced by copies.     *)
(***************************************************************************)
Rename(s, root, newRoot) ==
    LET moved == Below(s, root)
        New(k) == newRoot \o SubSeq(key[k].name, Len(root) + 1,
                                    Len(key[k].name))
        names == {New(k) : k \in moved}
        foreign == {k \in moved : Holders(elems, k) # {s} \/ locks[k] > 0}
    IN /\ Exists(s) /\ moved # {} /\ root # newRoot
       /\ \E copy \in Injection(foreign, Dead) :
            Become([elems EXCEPT ![s] =
                       {k \in @ \ moved : key[k].name \notin names}
                         \union (moved \ foreign)
                         \union {copy[k] : k \in foreign}],
                   [k \in Keys |->
                       CASE k \in moved \ foreign ->
                              [key[k] EXCEPT !.name = New(k)]
                         [] \E o \in foreign : copy[o] = k ->
                              LET o == CHOOSE f \in foreign : copy[f] = k
                              IN [key[o] EXCEPT !.name = New(o)]
                         [] OTHER -> key[k]])

Next ==
    \/ \E k \in Keys : \/ Lock(k) \/ Unlock(k)
                       \/ Write(k) \/ NewKey(k) \/ Delete(k)
    \/ \E s \in Sets : SetNew(s) \/ SetDel(s) \/ SetClear(s) \/ Pop(s)
    \/ \E s \in Sets, k \in Keys : AppendKey(s, k)
    \/ \E s, t \in Sets : \/ SetDup(s, t) \/ SetCopy(s, t)
                          \/ AppendSet(s, t) \/ Subtract(s, t)
    \/ \E d, s \in Sets, root \in Names : \/ BelowSet(d, s, root)
                                          \/ Cut(d, s, root)
    \/ \E s \in Sets, root, newRoot \in Names : Rename(s, root, newRoot)

Spec == Init /\ [][Next]_vars
=============================================================================
