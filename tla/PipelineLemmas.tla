---------------------------- MODULE PipelineLemmas ----------------------------
(***************************************************************************)
(* Facts about two queues in a row: what leaves the head of the second     *)
(* enters the first at its end.  The events on their way are the           *)
(* concatenation of the two, which such a move leaves unchanged.           *)
(***************************************************************************)
EXTENDS Naturals, Sequences, TLAPS

\* Elements of a sequence with one more element at the end.
LEMMA AppendElements ==
    ASSUME NEW S, NEW s \in Seq(S), NEW e \in S
    PROVE  /\ Append(s, e) \in Seq(S)
           /\ Len(Append(s, e)) = Len(s) + 1
           /\ \A i \in 1..Len(s) : Append(s, e)[i] = s[i]
           /\ Append(s, e)[Len(s) + 1] = e
    OBVIOUS

\* Elements of the tail of a sequence.
LEMMA TailElements ==
    ASSUME NEW S, NEW s \in Seq(S), s # <<>>
    PROVE  /\ Tail(s) \in Seq(S)
           /\ Len(s) > 0
           /\ Len(Tail(s)) = Len(s) - 1
           /\ \A i \in 1..Len(Tail(s)) : Tail(s)[i] = s[i + 1]
           /\ Head(s) = s[1]
           /\ Head(s) \in S
    OBVIOUS

\* Moving the head of w to the end of q keeps what is on its way.
LEMMA MoveHead ==
    ASSUME NEW S, NEW q \in Seq(S), NEW w \in Seq(S), w # <<>>
    PROVE  (q \o <<Head(w)>>) \o Tail(w) = q \o w
    OBVIOUS

\* What is written to the end of w is the last on its way.
LEMMA WriteLast ==
    ASSUME NEW S, NEW q \in Seq(S), NEW w \in Seq(S), NEW e \in S
    PROVE  q \o Append(w, e) = Append(q \o w, e)
    OBVIOUS

\* What is taken from the head of q was the first on its way.
LEMMA TakeFirst ==
    ASSUME NEW S, NEW q \in Seq(S), NEW w \in Seq(S), q # <<>>
    PROVE  /\ Tail(q) \o w = Tail(q \o w)
           /\ q \o w # <<>>
           /\ Head(q) = Head(q \o w)
    BY SMTT(30)

==============================================================================
