--------------------------- MODULE Conversations ---------------------------
(***************************************************************************)
(* What the messenger promises to its users, without keys, databases or a  *)
(* hub: what is shown to the reader of one direction of a conversation is  *)
(* what was typed into it, each text at most once and in the order typed.  *)
(* If Lossy, texts may be missing; otherwise what is shown is a prefix.    *)
(***************************************************************************)
EXTENDS Naturals, Sequences

CONSTANTS
    Links,      \* the directions of the conversations
    Texts,      \* what can be typed
    Lossy       \* a Boolean: whether texts may be skipped

VARIABLES
    typed,      \* link -> the texts that were sent, in order
    shown       \* link -> the texts that the other side was shown, in order

TypeInvariant ==
    /\ typed \in [Links -> Seq(Texts)]
    /\ shown \in [Links -> Seq(Texts)]

Occurs(t, texts) == \E i \in DOMAIN texts : texts[i] = t

Init ==
    /\ typed = [l \in Links |-> <<>>]
    /\ shown = [l \in Links |-> <<>>]

\* A text goes out once on a link.
Type(l, t) ==
    /\ ~Occurs(t, typed[l])
    /\ typed' = [typed EXCEPT ![l] = Append(@, t)]
    /\ UNCHANGED shown

\* The n-th text of the link is shown, nothing at or behind it was before.
Show(l, n) ==
    /\ \A i \in n .. Len(typed[l]) : ~Occurs(typed[l][i], shown[l])
    /\ Lossy \/ n = Len(shown[l]) + 1
    /\ shown' = [shown EXCEPT ![l] = Append(@, typed[l][n])]
    /\ UNCHANGED typed

\* (The first conjunct follows from the second, and spares TLC the quantifiers
\* on the many steps of an implementation that are not visible here.)
Next ==
    /\ <<typed, shown>>' # <<typed, shown>>
    /\ \E l \in Links :
        \/ \E t \in Texts : Type(l, t)
        \/ \E n \in DOMAIN typed[l] : Show(l, n)

Spec == Init /\ [][Next]_<<typed, shown>>
=============================================================================
