----------------------------- MODULE RelayProofs -----------------------------
(***************************************************************************)
(* Proofs about Relay, for any users, connections, capacities and numbers  *)
(* of messages.                                                            *)
(*                                                                         *)
(* What is said of NoGaps goes as follows.  The line of a connection is    *)
(* what was heard on it and what its writer has still to write; its pipe   *)
(* has passed what is in the group's log and no longer in its queue.  As   *)
(* long as both loops run, the line matches all that was passed.  A pipe   *)
(* that ends leaves the line as it is, a writer that ends drops the part   *)
(* that was not heard: so not only the line must match a stretch of the    *)
(* log, but each of its fronts that the writer may leave behind.           *)
(***************************************************************************)
EXTENDS Relay, WellFoundedInduction, TLAPS

-----------------------------------------------------------------------------
(* Induction over the natural numbers, for a set instead of a predicate.    *)

Less == {pair \in Nat \X Nat : pair[1] < pair[2]}

LEMMA LessIsWellFounded == IsWellFoundedOn(Less, Nat)
<1> DEFINE less == OpToRel(<, Nat)
<1>1. IsWellFoundedOn(less, Nat)
  BY NatLessThanWellFounded
<1>2. less = Less
  BY Zenon DEF Less, OpToRel
<1> HIDE DEF less
<1> QED
  BY <1>1, <1>2

LEMMA SmallestOfSet ==
    ASSUME NEW S, S \subseteq Nat, S # {}
    PROVE  \E m \in S : \A n \in S : m <= n
<1>1. PICK m \in S : \A n \in S : ~(<<n, m>> \in Less)
  BY WFMin, LessIsWellFounded
<1>2. ASSUME NEW n \in S PROVE m <= n
  <2>1. ~(<<n, m>> \in Less)
    BY <1>1
  <2>2. ~(n < m)
    BY <2>1 DEF Less
  <2> QED
    BY <2>2
<1> QED
  BY <1>2

LEMMA SetInduction ==
    ASSUME NEW S, 0 \in S, \A n \in Nat : n \in S => n + 1 \in S
    PROVE  Nat \subseteq S
<1> SUFFICES ASSUME Nat \ S # {} PROVE FALSE
  OBVIOUS
<1>1. PICK m \in Nat \ S : \A n \in Nat \ S : m <= n
  BY SmallestOfSet
<1> QED
  BY <1>1, m - 1 \in Nat

-----------------------------------------------------------------------------
(* Kept, element by element.                                                *)

(* f is what Kept computes, up to m.                                        *)
Keeps(f, seq, S, m) ==
    f = [n \in 0 .. m |->
            IF n = 0 THEN <<>>
            ELSE IF seq[n] \in S THEN Append(f[n - 1], seq[n])
            ELSE f[n - 1]]

LEMMA KeepsAt ==
    ASSUME NEW f, NEW seq, NEW S, NEW m \in Nat, Keeps(f, seq, S, m),
           NEW n \in Nat, n + 1 \in 0 .. m
    PROVE  f[n + 1] = IF seq[n + 1] \in S THEN Append(f[n], seq[n + 1]) ELSE f[n]
<1> DEFINE k == n + 1
<1>1. k \in 0 .. m /\ k # 0 /\ k - 1 = n
  OBVIOUS
<1> HIDE DEF k
<1>2. f[k] = IF k = 0 THEN <<>>
             ELSE IF seq[k] \in S THEN Append(f[k - 1], seq[k]) ELSE f[k - 1]
  BY <1>1 DEF Keeps
<1>3. f[k] = IF seq[k] \in S THEN Append(f[n], seq[k]) ELSE f[n]
  BY <1>1, <1>2
<1> QED
  BY <1>3 DEF k

LEMMA KeepsExists ==
    ASSUME NEW T, NEW seq \in Seq(T), NEW S
    PROVE  \E f : Keeps(f, seq, S, Len(seq))
<1> DEFINE Good == {m \in Nat : \E f : Keeps(f, seq, S, m)}
<1>1. 0 \in Good
  <2> DEFINE f == [n \in 0 .. 0 |-> <<>>]
  <2>1. Keeps(f, seq, S, 0)
    BY DEF Keeps
  <2> QED
    BY <2>1
<1>2. ASSUME NEW m \in Nat, m \in Good PROVE m + 1 \in Good
  <2>1. PICK f : Keeps(f, seq, S, m)
    BY <1>2
  <2> DEFINE g == [n \in 0 .. m + 1 |->
                    IF n <= m THEN f[n]
                    ELSE IF seq[n] \in S THEN Append(f[m], seq[n]) ELSE f[m]]
  <2>2. ASSUME NEW n \in 0 .. m + 1
        PROVE  g[n] = IF n = 0 THEN <<>>
                      ELSE IF seq[n] \in S THEN Append(g[n - 1], seq[n])
                      ELSE g[n - 1]
    <3>1. CASE n = 0
      BY <2>1, <3>1 DEF Keeps
    <3> DEFINE k == n - 1
    <3>2. CASE n # 0 /\ n <= m
      <4>1. k \in Nat /\ k + 1 = n /\ k + 1 \in 0 .. m /\ k <= m
        BY <3>2
      <4> HIDE DEF k
      <4>2. f[k + 1] = IF seq[k + 1] \in S THEN Append(f[k], seq[k + 1]) ELSE f[k]
        BY <2>1, <4>1, KeepsAt
      <4>3. g[n] = f[n] /\ g[k] = f[k]
        BY <3>2, <4>1
      <4>4. g[n] = IF seq[n] \in S THEN Append(g[k], seq[n]) ELSE g[k]
        BY <4>1, <4>2, <4>3
      <4> QED
        BY <3>2, <4>4 DEF k
    <3>3. CASE n = m + 1
      BY <3>3
    <3> QED
      BY <3>1, <3>2, <3>3
  <2>3. Keeps(g, seq, S, m + 1)
    BY <2>2 DEF Keeps
  <2> QED
    BY <2>3
<1> HIDE DEF Good
<1>3. Nat \subseteq Good
  BY <1>1, <1>2, SetInduction
<1>4. Len(seq) \in Good
  BY <1>3
<1> QED
  BY <1>4 DEF Good

LEMMA KeptIsKeeps ==
    ASSUME NEW T, NEW seq \in Seq(T), NEW S
    PROVE  \E f : Keeps(f, seq, S, Len(seq)) /\ Kept(seq, S) = f[Len(seq)]
<1> DEFINE f == CHOOSE g : Keeps(g, seq, S, Len(seq))
<1>1. Keeps(f, seq, S, Len(seq))
  BY KeepsExists
<1>2. Kept(seq, S) = f[Len(seq)]
  BY DEF Kept, Keeps
<1> QED
  BY <1>1, <1>2

LEMMA KeptOfNothing == ASSUME NEW S PROVE Kept(<<>>, S) = <<>>
<1>1. PICK f : Keeps(f, <<>>, S, Len(<<>>)) /\ Kept(<<>>, S) = f[Len(<<>>)]
  BY KeptIsKeeps, <<>> \in Seq({})
<1> QED
  BY <1>1 DEF Keeps

LEMMA KeptOfAppend ==
    ASSUME NEW T, NEW seq \in Seq(T), NEW x \in T, NEW S
    PROVE  Kept(Append(seq, x), S) =
               IF x \in S THEN Append(Kept(seq, S), x) ELSE Kept(seq, S)
<1> DEFINE longer == Append(seq, x)
<1>1. longer \in Seq(T) /\ Len(longer) = Len(seq) + 1 /\ longer[Len(seq) + 1] = x
      /\ \A n \in 1 .. Len(seq) : longer[n] = seq[n]
  OBVIOUS
<1> HIDE DEF longer
<1>2. PICK f : Keeps(f, seq, S, Len(seq)) /\ Kept(seq, S) = f[Len(seq)]
  BY KeptIsKeeps
<1>3. PICK g : Keeps(g, longer, S, Len(longer)) /\ Kept(longer, S) = g[Len(longer)]
  BY <1>1, KeptIsKeeps
<1> DEFINE Same == {n \in Nat : n <= Len(seq) => f[n] = g[n]}
<1>4. 0 \in Same
  BY <1>1, <1>2, <1>3 DEF Keeps
<1>5. ASSUME NEW n \in Nat, n \in Same PROVE n + 1 \in Same
  <2> SUFFICES ASSUME n + 1 <= Len(seq) PROVE f[n + 1] = g[n + 1]
    OBVIOUS
  <2>1. f[n] = g[n] /\ seq[n + 1] = longer[n + 1]
    BY <1>1, <1>5
  <2>2. f[n + 1] = IF seq[n + 1] \in S THEN Append(f[n], seq[n + 1]) ELSE f[n]
    BY <1>2, KeepsAt
  <2>3. g[n + 1] = IF longer[n + 1] \in S THEN Append(g[n], longer[n + 1]) ELSE g[n]
    BY <1>1, <1>3, KeepsAt
  <2> QED
    BY <2>1, <2>2, <2>3
<1> HIDE DEF Same
<1>6. Len(seq) \in Same
  BY <1>4, <1>5, SetInduction
<1>7. f[Len(seq)] = g[Len(seq)]
  BY <1>6 DEF Same
<1>8. g[Len(seq) + 1] = IF x \in S THEN Append(g[Len(seq)], x) ELSE g[Len(seq)]
  BY <1>1, <1>3, KeepsAt
<1> QED
  BY <1>1, <1>2, <1>3, <1>7, <1>8 DEF longer

-----------------------------------------------------------------------------
(* Sequences, as they grow and are cut.                                     *)

LEMMA AppendIs ==
    ASSUME NEW T, NEW seq \in Seq(T), NEW x \in T
    PROVE  /\ Append(seq, x) \in Seq(T)
           /\ Len(Append(seq, x)) = Len(seq) + 1
           /\ Append(seq, x)[Len(seq) + 1] = x
           /\ \A k \in 1 .. Len(seq) : Append(seq, x)[k] = seq[k]
OBVIOUS

LEMMA SubSeqOfAppend ==
    ASSUME NEW T, NEW seq \in Seq(T), NEW x \in T, NEW m \in Nat \ {0},
           NEW n \in 0 .. Len(seq)
    PROVE  SubSeq(Append(seq, x), m, n) = SubSeq(seq, m, n)
OBVIOUS

LEMMA SubSeqGrows ==
    ASSUME NEW T, NEW seq \in Seq(T), NEW m \in Nat, NEW n \in Nat,
           m <= n, n < Len(seq)
    PROVE  SubSeq(seq, m + 1, n + 1) = Append(SubSeq(seq, m + 1, n), seq[n + 1])
OBVIOUS

(* t is what is left of s after its first n elements.                       *)
EndsWith(s, t, n) ==
    Len(s) = n + Len(t) /\ \A k \in 1 .. Len(t) : t[k] = s[n + k]

LEMMA EndOfAppend ==
    ASSUME NEW T, NEW s \in Seq(T), NEW t \in Seq(T), NEW x \in T, NEW n \in Nat,
           EndsWith(s, t, n)
    PROVE  EndsWith(Append(s, x), Append(t, x), n)
<1>1. Len(s) = n + Len(t) /\ \A k \in 1 .. Len(t) : t[k] = s[n + k]
  BY DEF EndsWith
<1> SUFFICES ASSUME NEW k \in 1 .. Len(t) + 1
             PROVE  Append(t, x)[k] = Append(s, x)[n + k]
  BY <1>1, AppendIs DEF EndsWith
<1>2. CASE k = Len(t) + 1
  <2>1. n + k = Len(s) + 1
    BY <1>1, <1>2
  <2> QED
    BY <1>2, <2>1
<1>3. CASE k \in 1 .. Len(t)
  <2>1. n + k \in 1 .. Len(s)
    BY <1>1, <1>3
  <2> QED
    BY <1>1, <1>3, <2>1
<1>4. Len(t) \in Nat
  OBVIOUS
<1>5. k = Len(t) + 1 \/ k \in 1 .. Len(t)
  BY <1>4
<1> QED
  BY <1>2, <1>3, <1>5

LEMMA EndOfTail ==
    ASSUME NEW T, NEW s \in Seq(T), NEW t \in Seq(T), t # <<>>, NEW n \in Nat,
           EndsWith(s, t, n)
    PROVE  n < Len(s) /\ Head(t) = s[n + 1] /\ EndsWith(s, Tail(t), n + 1)
<1>1. Len(t) \in Nat /\ Len(t) >= 1 /\ Len(Tail(t)) = Len(t) - 1
      /\ Head(t) = t[1]
      /\ \A k \in 1 .. Len(t) - 1 : Tail(t)[k] = t[k + 1]
  OBVIOUS
<1>2. Len(s) = n + Len(t) /\ \A k \in 1 .. Len(t) : t[k] = s[n + k]
  BY DEF EndsWith
<1>3. Head(t) = s[n + 1] /\ n < Len(s)
  BY <1>1, <1>2
<1>4. ASSUME NEW k \in 1 .. Len(Tail(t)) PROVE Tail(t)[k] = s[(n + 1) + k]
  <2>1. Tail(t)[k] = t[k + 1] /\ k + 1 \in 1 .. Len(t)
    BY <1>1
  <2>2. n + (k + 1) = (n + 1) + k
    OBVIOUS
  <2> QED
    BY <1>2, <2>1, <2>2
<1>5. Len(s) = (n + 1) + Len(Tail(t))
  BY <1>1, <1>2
<1> QED
  BY <1>3, <1>4, <1>5 DEF EndsWith

LEMMA ConcatOfAppend ==
    ASSUME NEW T, NEW s \in Seq(T), NEW t \in Seq(T), NEW x \in T
    PROVE  s \o Append(t, x) = Append(s \o t, x)
OBVIOUS

LEMMA ConcatMovesHead ==
    ASSUME NEW T, NEW s \in Seq(T), NEW t \in Seq(T), t # <<>>
    PROVE  Append(s, Head(t)) \o Tail(t) = s \o t
OBVIOUS

LEMMA ConcatFront ==
    ASSUME NEW T, NEW s \in Seq(T), NEW t \in Seq(T)
    PROVE  /\ SubSeq(s \o t, 1, Len(s)) = s
           /\ s \o <<>> = s
           /\ SubSeq(s, 1, Len(s)) = s
OBVIOUS

-----------------------------------------------------------------------------
(* Lines of frames that match a stretch of the group's log.                 *)

(* The broadcasts of line are what others sent from first + 1 to last.      *)
Matches(c, line, log, first, last) ==
    Kept(line, Broadcasts) = Kept(SubSeq(log, first + 1, last), FromOthers(c))

(* So it is for every front part of the line that is not shorter than m.    *)
FrontsMatch(c, line, m, log, first) ==
    \A i \in m .. Len(line) : \E last \in 0 .. Len(log) :
        Matches(c, SubSeq(line, 1, i), log, first, last)

Line(c) == heard[c] \o inbox[c]
Passed(c) == Len(group) - Len(queue[c])

(* All that is sent to the group is addressed to it.                        *)
GroupInv == \A k \in 1 .. Len(group) : group[k] \in Broadcasts

(* Before its channel opens a connection has no loops, and nothing in them. *)
WaitingInv ==
    \A c \in Conns : channel[c] # "open" =>
        /\ pipe[c] = "none" /\ writer[c] = "none"
        /\ heard[c] = <<>> /\ inbox[c] = <<>> /\ queue[c] = <<>>

(* What a pipe has still to receive is the end of the log.                  *)
QueueInv ==
    \A c \in Conns : pipe[c] = "on" =>
        /\ joined[c] <= Passed(c)
        /\ \A k \in 1 .. Len(queue[c]) : queue[c][k] = group[Passed(c) + k]

(* While both loops run, what the pipe has passed is on the line.           *)
PassedInv ==
    \A c \in Conns : pipe[c] = "on" /\ writer[c] = "on" =>
        Matches(c, Line(c), group, joined[c], Passed(c))

(* And wherever the writer stops, what was heard has no gap.                *)
FrontsInv ==
    \A c \in Conns :
        FrontsMatch(c, Line(c), Len(heard[c]), group, joined[c])

IInv == TypeOK /\ GroupInv /\ WaitingInv /\ QueueInv /\ PassedInv /\ FrontsInv

-----------------------------------------------------------------------------
(* What matches stays matched.                                              *)

LEMMA MatchesInLongerLog ==
    ASSUME NEW c, NEW line, NEW log \in Seq(Frames), NEW frame \in Frames,
           NEW first \in Nat, NEW last \in 0 .. Len(log)
    PROVE  Matches(c, line, Append(log, frame), first, last)
               <=> Matches(c, line, log, first, last)
<1>1. SubSeq(Append(log, frame), first + 1, last) = SubSeq(log, first + 1, last)
  BY SubSeqOfAppend, first + 1 \in Nat \ {0}
<1> QED
  BY <1>1 DEF Matches

LEMMA MatchesNothing ==
    ASSUME NEW c, NEW log \in Seq(Frames), NEW first \in Nat,
           NEW last \in 0 .. first
    PROVE  Matches(c, <<>>, log, first, last)
<1>1. SubSeq(log, first + 1, last) = <<>>
  OBVIOUS
<1> QED
  BY <1>1, KeptOfNothing DEF Matches

LEMMA MatchesWithUnicast ==
    ASSUME NEW c, NEW line \in Seq(Frames), NEW frame \in Frames \ Broadcasts,
           NEW log, NEW first, NEW last, Matches(c, line, log, first, last)
    PROVE  Matches(c, Append(line, frame), log, first, last)
<1>1. Kept(Append(line, frame), Broadcasts) = Kept(line, Broadcasts)
  BY KeptOfAppend
<1> QED
  BY <1>1 DEF Matches

LEMMA MatchesWithNext ==
    ASSUME NEW c, NEW line \in Seq(Frames), NEW log \in Seq(Frames),
           NEW first \in Nat, NEW last \in Nat, first <= last, last < Len(log),
           log[last + 1] \in Broadcasts, Matches(c, line, log, first, last)
    PROVE  IF IsOwn(c, log[last + 1])
           THEN Matches(c, line, log, first, last + 1)
           ELSE Matches(c, Append(line, log[last + 1]), log, first, last + 1)
<1> DEFINE frame == log[last + 1]
           part == SubSeq(log, first + 1, last)
<1>1. part \in Seq(Frames) /\ frame \in Frames
  BY DEF Broadcasts
<1>2. SubSeq(log, first + 1, last + 1) = Append(part, frame)
  BY SubSeqGrows
<1>3. frame \in FromOthers(c) <=> ~IsOwn(c, frame)
  BY <1>1 DEF FromOthers
<1>4. frame \in Broadcasts /\ Kept(line, Broadcasts) = Kept(part, FromOthers(c))
  BY DEF Matches
<1> HIDE DEF frame, part
<1>5. Kept(Append(part, frame), FromOthers(c)) =
          IF IsOwn(c, frame) THEN Kept(part, FromOthers(c))
          ELSE Append(Kept(part, FromOthers(c)), frame)
  BY <1>1, <1>3, KeptOfAppend
<1>6. Kept(Append(line, frame), Broadcasts) = Append(Kept(line, Broadcasts), frame)
  BY <1>1, <1>4, KeptOfAppend
<1>7. IF IsOwn(c, frame)
      THEN Matches(c, line, log, first, last + 1)
      ELSE Matches(c, Append(line, frame), log, first, last + 1)
  BY <1>2, <1>4, <1>5, <1>6 DEF Matches
<1> QED
  BY <1>7 DEF frame

LEMMA FrontsInLongerLog ==
    ASSUME NEW c, NEW line, NEW m, NEW log \in Seq(Frames), NEW frame \in Frames,
           NEW first \in Nat, FrontsMatch(c, line, m, log, first)
    PROVE  FrontsMatch(c, line, m, Append(log, frame), first)
<1> SUFFICES ASSUME NEW i \in m .. Len(line)
             PROVE  \E last \in 0 .. Len(Append(log, frame)) :
                      Matches(c, SubSeq(line, 1, i), Append(log, frame),
                              first, last)
  BY DEF FrontsMatch
<1>1. PICK last \in 0 .. Len(log) : Matches(c, SubSeq(line, 1, i), log, first, last)
  BY DEF FrontsMatch
<1>2. last \in 0 .. Len(Append(log, frame))
  OBVIOUS
<1> QED
  BY <1>1, <1>2, MatchesInLongerLog

LEMMA FrontsOfLongerLine ==
    ASSUME NEW c, NEW line \in Seq(Frames), NEW frame \in Frames,
           NEW m \in 0 .. Len(line), NEW log, NEW first,
           FrontsMatch(c, line, m, log, first),
           \E last \in 0 .. Len(log) :
               Matches(c, Append(line, frame), log, first, last)
    PROVE  FrontsMatch(c, Append(line, frame), m, log, first)
<1> SUFFICES ASSUME NEW i \in m .. Len(Append(line, frame))
             PROVE  \E last \in 0 .. Len(log) :
                      Matches(c, SubSeq(Append(line, frame), 1, i), log,
                              first, last)
  BY DEF FrontsMatch
<1>1. CASE i \in m .. Len(line)
  <2>1. SubSeq(Append(line, frame), 1, i) = SubSeq(line, 1, i)
    BY <1>1, SubSeqOfAppend, 1 \in Nat \ {0}, i \in 0 .. Len(line)
  <2> QED
    BY <1>1, <2>1 DEF FrontsMatch
<1>2. CASE i = Len(line) + 1
  <2>1. SubSeq(Append(line, frame), 1, i) = Append(line, frame)
    BY <1>2
  <2> QED
    BY <2>1
<1> QED
  BY <1>1, <1>2

LEMMA FrontsOfShorterLine ==
    ASSUME NEW c, NEW s \in Seq(Frames), NEW t \in Seq(Frames), NEW log, NEW first,
           FrontsMatch(c, s \o t, Len(s), log, first)
    PROVE  FrontsMatch(c, s \o <<>>, Len(s), log, first)
<1> DEFINE line == s \o t
           m == Len(s)
<1>1. m \in m .. Len(line)
  OBVIOUS
<1>2. PICK last \in 0 .. Len(log) : Matches(c, s, log, first, last)
  <2>1. SubSeq(line, 1, m) = s
    BY ConcatFront
  <2> HIDE DEF line, m
  <2>2. \E last \in 0 .. Len(log) : Matches(c, SubSeq(line, 1, m), log, first, last)
    BY <1>1 DEF FrontsMatch, line, m
  <2> QED
    BY <2>1, <2>2
<1>3. s \o <<>> = s /\ SubSeq(s, 1, Len(s)) = s
  BY ConcatFront
<1>4. FrontsMatch(c, s, Len(s), log, first)
  <2>1. \A i \in Len(s) .. Len(s) : SubSeq(s, 1, i) = s
    <3>1. \A i \in m .. m : i = m
      BY Len(s) \in Nat
    <3> QED
      BY <1>3, <3>1
  <2> QED
    BY <1>2, <2>1 DEF FrontsMatch
<1> QED
  BY <1>3, <1>4

-----------------------------------------------------------------------------
(* Types.                                                                   *)

LEMMA FramesAre ==
    ASSUME NEW c \in Conns, sent \in Nat
    PROVE  /\ \A typ \in {"open", "close"} : Event(typ, c) \in Broadcasts
           /\ Struct(c, user[c]) \in Broadcasts
           /\ \A u \in Users \ {user[c]} :
                Struct(c, u) \in Frames \ Broadcasts
<1>1. user[c] \in Users
  BY ConnsHaveUsers
<1> QED
  BY <1>1 DEF Event, Struct, Broadcasts, IsBroadcast, Frames

LEMMA SendToGroupTypes ==
    ASSUME TypeOK, NEW frame \in Broadcasts, SendToGroup(frame), joined' = joined
    PROVE  /\ group' = Append(group, frame)
           /\ group' \in Seq(Frames)
           /\ queue' \in [Conns -> Seq(Frames)]
           /\ joined' \in [Conns -> 0 .. Len(group')]
<1>1. frame \in Frames
  BY DEF Broadcasts
<1>2. group' = Append(group, frame) /\ group' \in Seq(Frames)
      /\ Len(group') = Len(group) + 1
  BY <1>1 DEF TypeOK, SendToGroup, GroupHasReceiver
<1>3. queue' \in [Conns -> Seq(Frames)]
  BY <1>1 DEF TypeOK, SendToGroup
<1>4. joined' \in [Conns -> 0 .. Len(group')]
  BY <1>2 DEF TypeOK
<1> QED
  BY <1>2, <1>3, <1>4

LEMMA SendToTypes ==
    ASSUME TypeOK, NEW c \in Conns, NEW frame \in Frames, SendTo(c, frame)
    PROVE  inbox' \in [Conns -> Seq(Frames)]
BY DEF SendTo, TypeOK

LEMMA WriterOverTypes ==
    ASSUME TypeOK, NEW c \in Conns, NEW how \in {"lagged", "failed", "ended"},
           WriterOver(c, how)
    PROVE  /\ writer' \in [Conns -> {"none", "on", "lagged", "failed", "ended"}]
           /\ inbox' \in [Conns -> Seq(Frames)]
           /\ heard' \in [Conns -> Seq(Frames)]
BY DEF WriterOver, TypeOK

LEMMA TypeStep == ASSUME TypeOK, [Next]_vars PROVE TypeOK'
<1> USE ConnsHaveUsers, MessagesIsNat
<1>1. CASE UNCHANGED vars
  BY <1>1 DEF TypeOK, vars
<1>2. CASE Next
  <2>1. PICK c \in Conns :
          \/ Register(c) \/ OnOpen(c)
          \/ Announce(c) \/ ReadBroadcast(c) \/ ReadEnds(c)
          \/ \E u \in Users : ReadUnicast(c, u)
          \/ Piping(c) \/ Writing(c)
          \/ Shut(c) \/ HangUp(c) \/ Notice(c) \/ Remove(c)
    BY <1>2 DEF Next
  <2>2. sent \in Nat
    BY DEF TypeOK
  <2>3. ASSUME Register(c) PROVE TypeOK'
    BY <2>3 DEF Register, TypeOK
  <2>4. ASSUME OnOpen(c) PROVE TypeOK'
    BY <2>4 DEF OnOpen, TypeOK
  <2>5. ASSUME Announce(c) PROVE TypeOK'
    <3>1. Event("open", c) \in Broadcasts
      BY <2>2, FramesAre
    <3>2. SendToGroup(Event("open", c)) /\ joined' = joined
      BY <2>5 DEF Announce
    <3> HIDE ConnsHaveUsers
    <3> QED
      BY <2>5, <3>1, <3>2, SendToGroupTypes DEF Announce, Goes, TypeOK
  <2>6. ASSUME ReadBroadcast(c) PROVE TypeOK'
    <3>1. Struct(c, user[c]) \in Broadcasts
      BY <2>2, FramesAre
    <3>2. SendToGroup(Struct(c, user[c])) /\ joined' = joined
      BY <2>6 DEF ReadBroadcast
    <3> QED
      BY <2>6, <3>1, <3>2, SendToGroupTypes
      DEF ReadBroadcast, Reads, Goes, TypeOK
  <2>7. ASSUME ReadEnds(c) PROVE TypeOK'
    BY <2>7 DEF ReadEnds, Goes, TypeOK
  <2>8. ASSUME NEW u \in Users, ReadUnicast(c, u) PROVE TypeOK'
    <3>1. Struct(c, u) \in Frames
      BY <2>2, <2>8, FramesAre DEF ReadUnicast
    <3>2. reader' \in [Conns -> {"none", "opening", "on", "ended", "failed"}]
      <4>1. reader' = reader \/ reader' = [reader EXCEPT ![c] = "failed"]
        BY <2>8 DEF ReadUnicast, Goes
      <4> QED
        BY <4>1 DEF TypeOK
    <3>4. sent' \in 0 .. Messages
      BY <2>8 DEF ReadUnicast, Reads, TypeOK
    <3>3. inbox' \in [Conns -> Seq(Frames)]
      BY <2>8, <3>1, SendToTypes DEF ReadUnicast, TypeOK
    <3> QED
      BY <2>8, <3>2, <3>3, <3>4 DEF ReadUnicast, TypeOK
  <2>9. ASSUME PipeLags(c) PROVE TypeOK'
    BY <2>9 DEF PipeLags, PipeEnds, TypeOK
  <2>10. ASSUME PipeSkipsOwn(c) PROVE TypeOK'
    BY <2>10 DEF PipeSkipsOwn, PipeHas, TypeOK
  <2>11. ASSUME PipeSends(c) PROVE TypeOK'
    <3>1. Head(queue[c]) \in Frames
      BY <2>11 DEF PipeSends, PipeHas, TypeOK
    <3>2. pipe' \in [Conns -> {"none", "on", "lagged", "failed"}]
          /\ queue' \in [Conns -> Seq(Frames)]
      <4>1. \/ pipe' = pipe /\ queue' = [queue EXCEPT ![c] = Tail(queue[c])]
            \/ /\ pipe' = [pipe EXCEPT ![c] = "failed"]
               /\ queue' = [queue EXCEPT ![c] = <<>>]
        BY <2>11 DEF PipeSends, PipeEnds
      <4>2. Tail(queue[c]) \in Seq(Frames) /\ <<>> \in Seq(Frames)
        BY <2>11 DEF PipeSends, PipeHas, TypeOK
      <4>3. queue' \in [Conns -> Seq(Frames)]
        <5>1. queue \in [Conns -> Seq(Frames)]
          BY DEF TypeOK
        <5>2. PICK rest \in Seq(Frames) : queue' = [queue EXCEPT ![c] = rest]
          BY <4>1, <4>2
        <5> QED
          BY <5>1, <5>2
      <4>4. pipe' \in [Conns -> {"none", "on", "lagged", "failed"}]
        BY <4>1 DEF TypeOK
      <4> QED
        BY <4>3, <4>4
    <3>3. inbox' \in [Conns -> Seq(Frames)]
      BY <2>11, <3>1, SendToTypes DEF PipeSends, TypeOK
    <3> QED
      BY <2>11, <3>2, <3>3 DEF PipeSends, TypeOK
  <2>12. ASSUME Write(c) PROVE TypeOK'
    <3>1. Head(inbox[c]) \in Frames /\ Tail(inbox[c]) \in Seq(Frames)
      BY <2>12 DEF Write, TypeOK
    <3>2. CASE WriterOver(c, "failed")
      BY <2>12, <3>2, WriterOverTypes DEF Write, TypeOK
    <3>3. CASE ~WriterOver(c, "failed")
      <4>1. /\ heard' = [heard EXCEPT ![c] = Append(heard[c], Head(inbox[c]))]
            /\ inbox' = [inbox EXCEPT ![c] = Tail(inbox[c])]
            /\ writer' = writer
        BY <2>12, <3>3 DEF Write
      <4>2. Append(heard[c], Head(inbox[c])) \in Seq(Frames)
        BY <3>1 DEF TypeOK
      <4>3. /\ heard' \in [Conns -> Seq(Frames)]
            /\ inbox' \in [Conns -> Seq(Frames)]
        BY <3>1, <4>1, <4>2 DEF TypeOK
      <4> QED
        BY <2>12, <4>1, <4>3 DEF Write, TypeOK
    <3> QED
      BY <3>2, <3>3
  <2>13. ASSUME WriterEnds(c) PROVE TypeOK'
    BY <2>13, WriterOverTypes DEF WriterEnds, TypeOK
  <2>14. ASSUME Shut(c) \/ HangUp(c) PROVE TypeOK'
    BY <2>14 DEF Shut, HangUp, TypeOK
  <2>15. ASSUME Notice(c) PROVE TypeOK'
    <3>1. Event("close", c) \in Broadcasts
      BY <2>2, FramesAre
    <3>2. SendToGroup(Event("close", c)) /\ joined' = joined
      BY <2>15 DEF Notice
    <3> QED
      BY <2>15, <3>1, <3>2, SendToGroupTypes DEF Notice, TypeOK
  <2>16. ASSUME Remove(c) PROVE TypeOK'
    BY <2>16 DEF Remove, TypeOK
  <2> QED
    BY <2>1, <2>3, <2>4, <2>5, <2>6, <2>7, <2>8, <2>9, <2>10, <2>11, <2>12,
       <2>13, <2>14, <2>15, <2>16 DEF Piping, Writing
<1> QED
  BY <1>1, <1>2

LEMMA TypeInit == Init => TypeOK
BY ConnsHaveUsers, MessagesIsNat DEF Init, TypeOK

(* Entries are what they say they are, a connection's channel, loops and    *)
(* callback have one of their states each, and all queues hold frames.      *)
THEOREM TypeCorrect == Spec => []TypeOK
<1>1. TypeOK /\ [Next]_vars => TypeOK'
  BY TypeStep
<1> QED
  BY <1>1, TypeInit, PTL DEF Spec

-----------------------------------------------------------------------------
(* The map of users.                                                        *)

LEMMA UnreachableStep ==
    ASSUME TypeOK, UnreachableByItsOwn, [Next]_vars
    PROVE  UnreachableByItsOwn'
<1> SUFFICES ASSUME NEW c \in Conns, channel'[c] # "none",
                    user_sender_map'[user[c]] = NoConn
             PROVE  \E d \in Conns : user[d] = user[c] /\ callback'[d] = "removed"
  BY DEF UnreachableByItsOwn
<1> DEFINE Unreachable == channel[c] # "none" /\ user_sender_map[user[c]] = NoConn
<1>1. CASE Unreachable
  <2>1. PICK d \in Conns : user[d] = user[c] /\ callback[d] = "removed"
    BY <1>1 DEF UnreachableByItsOwn
  <2>2. callback'[d] = "removed"
    BY <2>1 DEF TypeOK, Next, vars, Register, OnOpen, Announce, ReadBroadcast,
       ReadEnds, ReadUnicast, Piping, PipeLags, PipeSkipsOwn, PipeSends, Writing,
       Write, WriterEnds, Shut, HangUp, Notice, Remove
  <2> QED
    BY <2>1, <2>2
<1>2. ASSUME NEW d \in Conns, Register(d), ~Unreachable
      PROVE  FALSE
  BY <1>2, ConnsHaveUsers DEF Register, TypeOK
<1>3. ASSUME NEW d \in Conns, Remove(d), ~Unreachable
      PROVE  \E e \in Conns : user[e] = user[c] /\ callback'[e] = "removed"
  BY <1>3, ConnsHaveUsers DEF Remove, TypeOK
<1>4. ASSUME NEW d \in Conns, OnOpen(d) PROVE Unreachable
  BY <1>4 DEF OnOpen, TypeOK
<1>5. CASE UNCHANGED <<channel, user_sender_map>>
  BY <1>1, <1>5
<1> QED
  BY <1>1, <1>2, <1>3, <1>4, <1>5 DEF Next, vars, Announce, ReadBroadcast,
     ReadEnds, ReadUnicast, Piping, PipeLags, PipeSkipsOwn, PipeSends, Writing,
     Write, WriterEnds, Shut, HangUp, Notice

(* Nobody else's coming and going takes a user's entry.                     *)
THEOREM EntriesAreLostByTheirOwn == Spec => []UnreachableByItsOwn
<1>1. Init => UnreachableByItsOwn
  BY DEF Init, UnreachableByItsOwn
<1>2. TypeOK /\ UnreachableByItsOwn /\ [Next]_vars => UnreachableByItsOwn'
  BY UnreachableStep
<1> QED
  BY <1>1, <1>2, TypeCorrect, PTL DEF Spec

(* Only a unicast to somebody in the map without a receiver fails a reader. *)
THEOREM OnlyUnicastsFail == Spec => ReadersFailByUnicast
<1> DEFINE Blamed(c) ==
      \E d \in Conns : d # c /\ user_sender_map[user[d]] = d /\ writer[d] # "on"
    Step == \A c \in Conns :
              reader[c] # "failed" /\ reader'[c] = "failed" => Blamed(c)
<1>1. TypeOK /\ [Next]_vars => [Step]_vars
  <2> SUFFICES ASSUME TypeOK, Next, NEW c \in Conns,
                      reader[c] # "failed", reader'[c] = "failed"
               PROVE  Blamed(c)
    OBVIOUS
  <2>1. PICK b \in Conns, u \in Users : ReadUnicast(b, u)
    BY DEF TypeOK, Next, Register, OnOpen, Announce, ReadBroadcast,
       ReadEnds, Goes, GroupHasReceiver, Piping, PipeLags, PipeSkipsOwn, PipeSends,
       Writing, Write, WriterEnds, Shut, HangUp, Notice, Remove
  <2>2. b = c /\ u # user[c]
    BY <2>1 DEF ReadUnicast, Goes, TypeOK
  <2>3. PICK d \in Conns : user_sender_map[u] = d /\ ~HasReceiver(d)
    BY <2>1, <2>2 DEF ReadUnicast
  <2>4. user[d] = u
    BY <2>3 DEF TypeOK
  <2> QED
    BY <2>2, <2>3, <2>4 DEF HasReceiver
<1>2. [Step]_vars => [\A c \in Conns :
          reader[c] # "failed" /\ reader'[c] = "failed" =>
            \E d \in Conns : /\ d # c
                             /\ user_sender_map[user[d]] = d
                             /\ writer[d] # "on"]_vars
  OBVIOUS
<1> HIDE DEF Step
<1> QED
  BY <1>1, <1>2, TypeCorrect, PTL DEF Spec, ReadersFailByUnicast

-----------------------------------------------------------------------------
(* No gaps.  One lemma for each way in which a step moves frames.           *)

LEMMA ConnTypes ==
    ASSUME TypeOK, NEW c \in Conns
    PROVE  /\ group \in Seq(Frames) /\ queue[c] \in Seq(Frames)
           /\ heard[c] \in Seq(Frames) /\ inbox[c] \in Seq(Frames)
           /\ joined[c] \in Nat /\ joined[c] \in 0 .. Len(group)
           /\ Line(c) \in Seq(Frames)
           /\ Len(heard[c]) \in 0 .. Len(Line(c))
<1>1. /\ group \in Seq(Frames) /\ queue[c] \in Seq(Frames)
      /\ heard[c] \in Seq(Frames) /\ inbox[c] \in Seq(Frames)
      /\ joined[c] \in 0 .. Len(group)
  BY DEF TypeOK
<1>2. joined[c] \in Nat
  BY <1>1
<1>3. Line(c) \in Seq(Frames) /\ Len(Line(c)) = Len(heard[c]) + Len(inbox[c])
  BY <1>1 DEF Line
<1>4. Len(heard[c]) \in Nat /\ Len(inbox[c]) \in Nat
  BY <1>1
<1>5. Len(heard[c]) \in 0 .. Len(Line(c))
  <2> DEFINE m == Len(heard[c])
             n == Len(inbox[c])
             k == Len(Line(c))
  <2>1. m \in Nat /\ n \in Nat /\ k = m + n
    BY <1>3, <1>4
  <2> HIDE DEF m, n, k
  <2>2. m \in 0 .. k
    BY <2>1
  <2> QED
    BY <2>2 DEF m, k
<1> QED
  BY <1>1, <1>2, <1>3, <1>5

LEMMA NothingMoves ==
    ASSUME TypeOK, IInv,
           UNCHANGED <<group, pipe, queue, joined, writer, inbox, heard>>,
           \A c \in Conns : channel'[c] # "open" => channel[c] # "open"
    PROVE  GroupInv' /\ WaitingInv' /\ QueueInv' /\ PassedInv' /\ FrontsInv'
<1>1. \A c : Line(c)' = Line(c) /\ Passed(c)' = Passed(c)
  BY DEF Line, Passed
<1> QED
  BY <1>1 DEF IInv, GroupInv, WaitingInv, QueueInv, PassedInv, FrontsInv

(* A broadcast or an event: the log and every queue of a pipe get longer.   *)
LEMMA LogGrows ==
    ASSUME IInv, NEW frame \in Broadcasts, SendToGroup(frame),
           UNCHANGED <<channel, pipe, joined, writer, inbox, heard>>
    PROVE  GroupInv' /\ WaitingInv' /\ QueueInv' /\ PassedInv' /\ FrontsInv'
<1>1. TypeOK /\ frame \in Frames
  BY DEF IInv, Broadcasts
<1>2. group' = Append(group, frame)
  BY DEF SendToGroup, GroupHasReceiver
<1>3. ASSUME NEW c \in Conns
      PROVE  queue'[c] = IF pipe[c] = "on" THEN Append(queue[c], frame)
                         ELSE queue[c]
  BY DEF SendToGroup
<1>4. \A c : Line(c)' = Line(c)
  BY DEF Line
<1>5. GroupInv'
  <2>1. group \in Seq(Frames)
    BY <1>1 DEF TypeOK
  <2> QED
    BY <1>1, <1>2, <2>1 DEF IInv, GroupInv
<1>6. WaitingInv'
  BY <1>3 DEF IInv, WaitingInv
<1>7. ASSUME NEW c \in Conns, pipe[c] = "on" PROVE Passed(c)' = Passed(c)
  <2>1. group \in Seq(Frames) /\ queue[c] \in Seq(Frames)
    BY <1>1, ConnTypes
  <2>2. Len(group') = Len(group) + 1 /\ Len(queue'[c]) = Len(queue[c]) + 1
    <3>1. Len(Append(group, frame)) = Len(group) + 1
          /\ Len(Append(queue[c], frame)) = Len(queue[c]) + 1
      BY <1>1, <2>1, AppendIs
    <3>2. queue'[c] = Append(queue[c], frame)
      BY <1>3, <1>7
    <3> QED
      BY <1>2, <3>1, <3>2
  <2>3. Len(group) \in Nat /\ Len(queue[c]) \in Nat
    BY <2>1
  <2> QED
    BY <2>2, <2>3 DEF Passed
<1>8. QueueInv'
  <2> SUFFICES ASSUME NEW c \in Conns, pipe[c] = "on"
               PROVE  /\ joined[c] <= Passed(c)'
                      /\ \A k \in 1 .. Len(queue'[c]) :
                           queue'[c][k] = group'[Passed(c)' + k]
    BY DEF QueueInv
  <2> DEFINE pending == queue[c]
             from == Passed(c)
  <2>1. group \in Seq(Frames) /\ pending \in Seq(Frames)
        /\ joined[c] \in Nat
    BY <1>1, ConnTypes
  <2>2. /\ joined[c] <= from
        /\ \A k \in 1 .. Len(pending) : pending[k] = group[from + k]
    BY DEF IInv, QueueInv
  <2>3. from = Len(group) - Len(pending)
    BY DEF Passed
  <2>4. Passed(c)' = from /\ queue'[c] = Append(pending, frame)
    BY <1>3, <1>7
  <2> HIDE DEF pending, from
  <2>5. from \in Nat
    BY <2>1, <2>2, <2>3
  <2>6. Len(group) = from + Len(pending)
    BY <2>1, <2>3
  <2>7. EndsWith(group, pending, from)
    BY <2>2, <2>6 DEF EndsWith
  <2>8. EndsWith(Append(group, frame), Append(pending, frame), from)
    BY <1>1, <2>1, <2>5, <2>7, EndOfAppend
  <2> QED
    BY <1>2, <2>2, <2>4, <2>8 DEF EndsWith
<1>9. PassedInv'
  <2> SUFFICES ASSUME NEW c \in Conns, pipe[c] = "on", writer[c] = "on"
               PROVE  Matches(c, Line(c), group', joined[c], Passed(c)')
    BY <1>4 DEF PassedInv
  <2>1. Matches(c, Line(c), group, joined[c], Passed(c))
    BY DEF IInv, PassedInv
  <2>2. group \in Seq(Frames) /\ joined[c] \in Nat /\ queue[c] \in Seq(Frames)
    BY <1>1, ConnTypes
  <2>3. joined[c] <= Passed(c)
    BY DEF IInv, QueueInv
  <2>4. Passed(c) \in 0 .. Len(group)
    BY <2>2, <2>3 DEF Passed
  <2> QED
    BY <1>1, <1>2, <1>7, <2>1, <2>2, <2>4, MatchesInLongerLog
<1>10. FrontsInv'
  <2> SUFFICES ASSUME NEW c \in Conns
               PROVE  FrontsMatch(c, Line(c), Len(heard[c]), group', joined[c])
    BY <1>4 DEF FrontsInv
  <2>1. FrontsMatch(c, Line(c), Len(heard[c]), group, joined[c])
    BY DEF IInv, FrontsInv
  <2>2. group \in Seq(Frames) /\ joined[c] \in Nat
    BY <1>1, ConnTypes
  <2> QED
    BY <1>1, <1>2, <2>1, <2>2, FrontsInLongerLog
<1> QED
  BY <1>5, <1>6, <1>8, <1>9, <1>10

(* A unicast: somebody's line gets longer by a frame that is no broadcast.  *)
LEMMA LineGrows ==
    ASSUME IInv, NEW d \in Conns, writer[d] = "on",
           NEW frame \in Frames \ Broadcasts, SendTo(d, frame),
           UNCHANGED <<channel, group, pipe, queue, joined, writer, heard>>
    PROVE  GroupInv' /\ WaitingInv' /\ QueueInv' /\ PassedInv' /\ FrontsInv'
<1>1. TypeOK
  BY DEF IInv
<1>2. inbox'[d] = Append(inbox[d], frame)
      /\ \A c \in Conns \ {d} : inbox'[c] = inbox[c]
  BY <1>1 DEF SendTo, TypeOK
<1>3. \A c : Passed(c)' = Passed(c)
  BY DEF Passed
<1>4. \A c \in Conns \ {d} : Line(c)' = Line(c)
  BY <1>2 DEF Line
<1>5. Line(d)' = Append(Line(d), frame)
  <2>1. heard[d] \in Seq(Frames) /\ inbox[d] \in Seq(Frames)
    BY <1>1, ConnTypes
  <2>2. Line(d)' = heard[d] \o Append(inbox[d], frame)
    BY <1>2 DEF Line
  <2>3. heard[d] \o Append(inbox[d], frame) = Append(heard[d] \o inbox[d], frame)
    <3> DEFINE s == heard[d]
               t == inbox[d]
    <3>1. s \in Seq(Frames) /\ t \in Seq(Frames) /\ frame \in Frames
      BY <2>1
    <3> HIDE DEF s, t
    <3>2. s \o Append(t, frame) = Append(s \o t, frame)
      BY <3>1, ConcatOfAppend
    <3> QED
      BY <3>2 DEF s, t
  <2> QED
    BY <2>2, <2>3 DEF Line
<1>6. GroupInv' /\ QueueInv'
  BY <1>3 DEF IInv, GroupInv, QueueInv
<1>7. WaitingInv'
  BY <1>2 DEF IInv, WaitingInv
<1>8. PassedInv'
  <2> SUFFICES ASSUME NEW c \in Conns, pipe[c] = "on", writer[c] = "on"
               PROVE  Matches(c, Line(c)', group, joined[c], Passed(c))
    BY <1>3 DEF PassedInv
  <2>1. Matches(c, Line(c), group, joined[c], Passed(c))
    BY DEF IInv, PassedInv
  <2>2. Line(c) \in Seq(Frames)
    BY <1>1, ConnTypes
  <2>3. Matches(c, Append(Line(c), frame), group, joined[c], Passed(c))
    BY <2>1, <2>2, MatchesWithUnicast
  <2>4. Line(c)' = Line(c) \/ Line(c)' = Append(Line(c), frame)
    BY <1>4, <1>5
  <2> QED
    BY <2>1, <2>3, <2>4
<1>9. FrontsInv'
  <2> SUFFICES ASSUME NEW c \in Conns
               PROVE  FrontsMatch(c, Line(c)', Len(heard[c]), group, joined[c])
    BY DEF FrontsInv
  <2>1. FrontsMatch(c, Line(c), Len(heard[c]), group, joined[c])
    BY DEF IInv, FrontsInv
  <2>2. CASE c # d
    BY <1>4, <2>1, <2>2
  <2>3. CASE c = d
    <3>1. Line(c) \in Seq(Frames) /\ Len(heard[c]) \in 0 .. Len(Line(c))
      BY <1>1, ConnTypes
    <3>2. PICK last \in 0 .. Len(group) :
            Matches(c, SubSeq(Line(c), 1, Len(Line(c))), group, joined[c], last)
      <4>1. Len(Line(c)) \in Len(heard[c]) .. Len(Line(c))
        BY <3>1
      <4> QED
        BY <2>1, <4>1 DEF FrontsMatch
    <3>3. SubSeq(Line(c), 1, Len(Line(c))) = Line(c)
      BY <3>1, ConcatFront
    <3>4. Matches(c, Append(Line(c), frame), group, joined[c], last)
      BY <3>1, <3>2, <3>3, MatchesWithUnicast
    <3> QED
      BY <1>5, <2>1, <2>3, <3>1, <3>4, FrontsOfLongerLine
  <2> QED
    BY <2>2, <2>3
<1> QED
  BY <1>6, <1>7, <1>8, <1>9

(* A pipe takes a frame: it is its user's own, or it goes on the line.      *)
LEMMA PipeMoves ==
    ASSUME IInv, NEW d \in Conns, pipe[d] = "on", queue[d] # <<>>,
           queue' = [queue EXCEPT ![d] = Tail(queue[d])],
           \/ IsOwn(d, Head(queue[d])) /\ inbox' = inbox
           \/ /\ ~IsOwn(d, Head(queue[d]))
              /\ writer[d] = "on"
              /\ SendTo(d, Head(queue[d])),
           UNCHANGED <<channel, group, pipe, joined, writer, heard>>
    PROVE  GroupInv' /\ WaitingInv' /\ QueueInv' /\ PassedInv' /\ FrontsInv'
<1> DEFINE frame == Head(queue[d])
           n == Passed(d)
           first == joined[d]
<1>1. TypeOK /\ channel[d] = "open"
  BY DEF IInv, WaitingInv
<1>2. /\ group \in Seq(Frames) /\ queue[d] \in Seq(Frames) /\ first \in Nat
      /\ Line(d) \in Seq(Frames) /\ Len(heard[d]) \in 0 .. Len(Line(d))
      /\ heard[d] \in Seq(Frames) /\ inbox[d] \in Seq(Frames)
  BY <1>1, ConnTypes
<1>3. /\ first <= n /\ n = Len(group) - Len(queue[d])
      /\ \A k \in 1 .. Len(queue[d]) : queue[d][k] = group[n + k]
  BY DEF IInv, QueueInv, Passed
<1>4. n \in Nat /\ Len(group) = n + Len(queue[d])
  <2>1. Len(group) \in Nat /\ Len(queue[d]) \in Nat
    BY <1>2
  <2> HIDE DEF n, first
  <2> QED
    BY <1>2, <1>3, <2>1
<1> HIDE DEF n, first
<1>5. /\ n < Len(group) /\ frame = group[n + 1]
      /\ Len(group) - Len(Tail(queue[d])) = n + 1
      /\ \A k \in 1 .. Len(Tail(queue[d])) : Tail(queue[d])[k] = group[(n + 1) + k]
  <2> DEFINE t == queue[d]
  <2>1. t \in Seq(Frames) /\ t # <<>> /\ EndsWith(group, t, n)
    BY <1>2, <1>3, <1>4 DEF EndsWith
  <2> HIDE DEF t
  <2>2. n < Len(group) /\ Head(t) = group[n + 1] /\ EndsWith(group, Tail(t), n + 1)
    BY <1>2, <1>4, <2>1, EndOfTail
  <2>3. Len(group) - Len(Tail(t)) = n + 1
        /\ \A k \in 1 .. Len(Tail(t)) : Tail(t)[k] = group[(n + 1) + k]
    <3>1. Len(Tail(t)) \in Nat
      BY <2>1
    <3>2. Len(group) = (n + 1) + Len(Tail(t))
          /\ \A k \in 1 .. Len(Tail(t)) : Tail(t)[k] = group[(n + 1) + k]
      BY <2>2 DEF EndsWith
    <3>3. Len(group) - Len(Tail(t)) = n + 1
      <4> DEFINE l == Len(group)
                 m == Len(Tail(t))
      <4>1. m \in Nat /\ l = (n + 1) + m
        BY <3>1, <3>2
      <4> HIDE DEF l, m
      <4>2. l - m = n + 1
        BY <1>4, <4>1
      <4> QED
        BY <4>2 DEF l, m
    <3> QED
      BY <3>2, <3>3
  <2> QED
    BY <2>2, <2>3 DEF t
<1>6. /\ queue'[d] = Tail(queue[d]) /\ Passed(d)' = n + 1
      /\ \A c \in Conns \ {d} : queue'[c] = queue[c] /\ Passed(c)' = Passed(c)
  BY <1>1, <1>5 DEF Passed, TypeOK
<1>7. frame \in Broadcasts /\ frame \in Frames
  <2>1. n + 1 \in 1 .. Len(group)
    BY <1>2, <1>4, <1>5
  <2> QED
    BY <1>5, <2>1 DEF IInv, GroupInv, Broadcasts
<1> HIDE DEF frame
<1>8. /\ \A c \in Conns \ {d} : inbox'[c] = inbox[c] /\ Line(c)' = Line(c)
      /\ IF IsOwn(d, frame)
         THEN inbox' = inbox /\ Line(d)' = Line(d)
         ELSE writer[d] = "on" /\ Line(d)' = Append(Line(d), frame)
  <2>1. CASE IsOwn(d, frame)
    BY <2>1 DEF frame, Line
  <2>2. CASE ~IsOwn(d, frame)
    <3>1. inbox' = [inbox EXCEPT ![d] = Append(inbox[d], frame)] /\ writer[d] = "on"
      BY <2>2 DEF frame, SendTo
    <3>2. inbox'[d] = Append(inbox[d], frame)
          /\ \A c \in Conns \ {d} : inbox'[c] = inbox[c]
      BY <1>1, <3>1 DEF TypeOK
    <3> DEFINE s == heard[d]
               t == inbox[d]
    <3>3. s \in Seq(Frames) /\ t \in Seq(Frames)
      BY <1>2
    <3>4. Line(d)' = s \o Append(t, frame) /\ Line(d) = s \o t
      BY <3>2 DEF Line
    <3> HIDE DEF s, t
    <3>5. s \o Append(t, frame) = Append(s \o t, frame)
      BY <1>7, <3>3, ConcatOfAppend
    <3>6. \A c \in Conns \ {d} : Line(c)' = Line(c)
      BY <3>2 DEF Line
    <3> QED
      BY <2>2, <3>1, <3>2, <3>4, <3>5, <3>6
  <2> QED
    BY <2>1, <2>2
<1>9. GroupInv'
  BY DEF IInv, GroupInv
<1>10. WaitingInv'
  BY <1>1, <1>6, <1>8 DEF IInv, WaitingInv
<1>11. QueueInv'
  <2> SUFFICES ASSUME NEW c \in Conns, pipe[c] = "on"
               PROVE  /\ joined[c] <= Passed(c)'
                      /\ \A k \in 1 .. Len(queue'[c]) :
                           queue'[c][k] = group[Passed(c)' + k]
    BY DEF QueueInv
  <2>1. CASE c = d
    <3>1. joined[d] <= n + 1
      <4>1. first <= n + 1
        <5>1. first \in Nat /\ first <= n /\ n \in Nat
          BY <1>2, <1>3, <1>4
        <5> QED
          BY <5>1
      <4> QED
        BY <4>1 DEF first
    <3> QED
      BY <1>5, <1>6, <2>1, <3>1
  <2>2. CASE c # d
    BY <1>6, <2>2 DEF IInv, QueueInv
  <2> QED
    BY <2>1, <2>2
<1>12. ASSUME writer[d] = "on"
       PROVE  Matches(d, Line(d)', group, first, n + 1)
  <2>1. Matches(d, Line(d), group, first, n)
    BY <1>12 DEF IInv, PassedInv, n, first
  <2>2. IF IsOwn(d, frame)
        THEN Matches(d, Line(d), group, first, n + 1)
        ELSE Matches(d, Append(Line(d), frame), group, first, n + 1)
    BY <1>2, <1>3, <1>4, <1>5, <1>7, <2>1, MatchesWithNext
  <2> QED
    BY <1>8, <2>2
<1>13. PassedInv'
  <2> SUFFICES ASSUME NEW c \in Conns, pipe[c] = "on", writer[c] = "on"
               PROVE  Matches(c, Line(c)', group, joined[c], Passed(c)')
    BY DEF PassedInv
  <2>1. CASE c = d
    BY <1>6, <1>12, <2>1 DEF first
  <2>2. CASE c # d
    BY <1>6, <1>8, <2>2 DEF IInv, PassedInv
  <2> QED
    BY <2>1, <2>2
<1>14. FrontsInv'
  <2> SUFFICES ASSUME NEW c \in Conns
               PROVE  FrontsMatch(c, Line(c)', Len(heard[c]), group, joined[c])
    BY DEF FrontsInv
  <2>1. FrontsMatch(c, Line(c), Len(heard[c]), group, joined[c])
    BY DEF IInv, FrontsInv
  <2>2. CASE Line(c)' = Line(c)
    BY <2>1, <2>2
  <2>3. CASE Line(c)' # Line(c)
    <3>1. c = d /\ ~IsOwn(d, frame) /\ writer[d] = "on"
          /\ Line(d)' = Append(Line(d), frame)
      BY <1>8, <2>3
    <3>2. Matches(d, Append(Line(d), frame), group, first, n + 1)
      BY <1>12, <3>1
    <3>3. n + 1 \in 0 .. Len(group)
      BY <1>2, <1>4, <1>5
    <3> QED
      BY <1>2, <1>7, <2>1, <3>1, <3>2, <3>3, FrontsOfLongerLine DEF first
  <2> QED
    BY <2>2, <2>3
<1> QED
  BY <1>9, <1>10, <1>11, <1>13, <1>14

LEMMA PipeIsOver ==
    ASSUME IInv, NEW d \in Conns, pipe[d] = "on",
           NEW how \in {"lagged", "failed"}, PipeEnds(d, how),
           UNCHANGED <<channel, group, joined, writer, inbox, heard>>
    PROVE  GroupInv' /\ WaitingInv' /\ QueueInv' /\ PassedInv' /\ FrontsInv'
<1>1. TypeOK /\ channel[d] = "open"
  BY DEF IInv, WaitingInv
<1>2. /\ pipe'[d] = how
      /\ \A c \in Conns \ {d} : pipe'[c] = pipe[c] /\ queue'[c] = queue[c]
                                /\ Passed(c)' = Passed(c)
  BY <1>1 DEF PipeEnds, TypeOK, Passed
<1>3. \A c : Line(c)' = Line(c)
  BY DEF Line
<1>4. GroupInv' /\ FrontsInv'
  BY <1>3 DEF IInv, GroupInv, FrontsInv
<1>5. WaitingInv'
  BY <1>1, <1>2 DEF IInv, WaitingInv
<1>6. QueueInv' /\ PassedInv'
  <2>1. \A c \in Conns : pipe'[c] = "on" => c # d
    BY <1>2
  <2> QED
    BY <1>2, <1>3, <2>1 DEF IInv, QueueInv, PassedInv
<1> QED
  BY <1>4, <1>5, <1>6

LEMMA WriterIsOver ==
    ASSUME IInv, NEW d \in Conns, writer[d] = "on",
           NEW how \in {"lagged", "failed", "ended"}, WriterOver(d, how),
           UNCHANGED <<channel, group, pipe, queue, joined>>
    PROVE  GroupInv' /\ WaitingInv' /\ QueueInv' /\ PassedInv' /\ FrontsInv'
<1>1. TypeOK /\ channel[d] = "open"
  BY DEF IInv, WaitingInv
<1>2. /\ writer'[d] = how /\ inbox'[d] = <<>> /\ heard' = heard
      /\ \A c \in Conns \ {d} : writer'[c] = writer[c] /\ inbox'[c] = inbox[c]
  BY <1>1 DEF WriterOver, TypeOK
<1>3. /\ \A c \in Conns \ {d} : Line(c)' = Line(c)
      /\ \A c : Passed(c)' = Passed(c)
  BY <1>2 DEF Line, Passed
<1>4. GroupInv' /\ QueueInv'
  BY <1>3 DEF IInv, GroupInv, QueueInv
<1>5. WaitingInv'
  BY <1>1, <1>2 DEF IInv, WaitingInv
<1>6. PassedInv'
  <2>1. \A c \in Conns : writer'[c] = "on" => c # d /\ writer[c] = "on"
    BY <1>2
  <2> QED
    BY <1>3, <2>1 DEF IInv, PassedInv
<1>7. FrontsInv'
  <2> SUFFICES ASSUME NEW c \in Conns
               PROVE  FrontsMatch(c, Line(c)', Len(heard[c]), group, joined[c])
    BY <1>2 DEF FrontsInv
  <2>1. FrontsMatch(c, Line(c), Len(heard[c]), group, joined[c])
    BY DEF IInv, FrontsInv
  <2>2. CASE c # d
    BY <1>3, <2>1, <2>2
  <2>3. CASE c = d
    <3> DEFINE s == heard[d]
               t == inbox[d]
    <3>1. s \in Seq(Frames) /\ t \in Seq(Frames)
      BY <1>1, ConnTypes
    <3>2. Line(d)' = s \o <<>> /\ Line(d) = s \o t
      BY <1>2 DEF Line
    <3> HIDE DEF s, t
    <3>3. FrontsMatch(d, s \o <<>>, Len(s), group, joined[d])
      BY <2>1, <2>3, <3>1, <3>2, FrontsOfShorterLine DEF s
    <3> QED
      BY <2>3, <3>2, <3>3 DEF s
  <2> QED
    BY <2>2, <2>3
<1> QED
  BY <1>4, <1>5, <1>6, <1>7

(* A frame is written: of the line more is heard.                           *)
LEMMA Writes ==
    ASSUME IInv, NEW d \in Conns, writer[d] = "on", inbox[d] # <<>>,
           heard' = [heard EXCEPT ![d] = Append(heard[d], Head(inbox[d]))],
           inbox' = [inbox EXCEPT ![d] = Tail(inbox[d])],
           UNCHANGED <<channel, group, pipe, queue, joined, writer>>
    PROVE  GroupInv' /\ WaitingInv' /\ QueueInv' /\ PassedInv' /\ FrontsInv'
<1>1. TypeOK /\ channel[d] = "open"
  BY DEF IInv, WaitingInv
<1>2. /\ heard'[d] = Append(heard[d], Head(inbox[d])) /\ inbox'[d] = Tail(inbox[d])
      /\ \A c \in Conns \ {d} : heard'[c] = heard[c] /\ inbox'[c] = inbox[c]
  BY <1>1 DEF TypeOK
<1> DEFINE s == heard[d]
           t == inbox[d]
<1>3. s \in Seq(Frames) /\ t \in Seq(Frames) /\ t # <<>>
  BY <1>1, ConnTypes
<1>4. Line(d)' = Append(s, Head(t)) \o Tail(t) /\ Line(d) = s \o t
  BY <1>2 DEF Line
<1>5. heard'[d] = Append(s, Head(t)) /\ heard[d] = s
  BY <1>2
<1> HIDE DEF s, t
<1>6. Append(s, Head(t)) \o Tail(t) = s \o t
  BY <1>3, ConcatMovesHead
<1>7. \A c \in Conns : Line(c)' = Line(c) /\ Passed(c)' = Passed(c)
  BY <1>2, <1>4, <1>6 DEF Line, Passed
<1>8. GroupInv' /\ QueueInv' /\ PassedInv'
  BY <1>7 DEF IInv, GroupInv, QueueInv, PassedInv
<1>9. WaitingInv'
  BY <1>1, <1>2 DEF IInv, WaitingInv
<1>10. FrontsInv'
  <2> SUFFICES ASSUME NEW c \in Conns
               PROVE  FrontsMatch(c, Line(c), Len(heard'[c]), group, joined[c])
    BY <1>7 DEF FrontsInv
  <2>1. FrontsMatch(c, Line(c), Len(heard[c]), group, joined[c])
    BY DEF IInv, FrontsInv
  <2>2. CASE c # d
    BY <1>2, <2>1, <2>2
  <2>3. CASE c = d
    <3>1. Len(Append(s, Head(t))) = Len(s) + 1 /\ Len(s) \in Nat
      BY <1>3
    <3>2. \A i \in Len(heard'[d]) .. Len(Line(d)) :
            i \in Len(heard[d]) .. Len(Line(d))
      BY <1>5, <3>1
    <3> QED
      BY <2>1, <2>3, <3>2 DEF FrontsMatch
  <2> QED
    BY <2>2, <2>3
<1> QED
  BY <1>8, <1>9, <1>10

LEMMA Opens ==
    ASSUME IInv, NEW d \in Conns, OnOpen(d)
    PROVE  GroupInv' /\ WaitingInv' /\ QueueInv' /\ PassedInv' /\ FrontsInv'
<1>1. TypeOK /\ heard[d] = <<>> /\ inbox[d] = <<>> /\ queue[d] = <<>>
  BY DEF IInv, WaitingInv, OnOpen
<1>2. /\ pipe'[d] = "on" /\ channel'[d] = "open" /\ joined'[d] = Len(group)
      /\ \A c \in Conns \ {d} : /\ pipe'[c] = pipe[c] /\ writer'[c] = writer[c]
                                /\ joined'[c] = joined[c]
                                /\ channel'[c] = channel[c]
  BY <1>1 DEF OnOpen, TypeOK
<1>3. UNCHANGED <<group, queue, inbox, heard>>
  BY DEF OnOpen
<1>4. \A c : Line(c)' = Line(c) /\ Passed(c)' = Passed(c)
  BY <1>3 DEF Line, Passed
<1>5. Line(d) = <<>> /\ Len(heard[d]) = 0 /\ Len(Line(d)) = 0
  BY <1>1 DEF Line
<1>6. Len(group) \in Nat /\ group \in Seq(Frames) /\ Passed(d) = Len(group)
  BY <1>1 DEF TypeOK, Passed
<1>7. GroupInv'
  BY <1>3 DEF IInv, GroupInv
<1>8. WaitingInv'
  BY <1>2, <1>3 DEF IInv, WaitingInv
<1>9. QueueInv'
  <2> SUFFICES ASSUME NEW c \in Conns, pipe'[c] = "on"
               PROVE  /\ joined'[c] <= Passed(c)
                      /\ \A k \in 1 .. Len(queue[c]) :
                           queue[c][k] = group[Passed(c) + k]
    BY <1>3, <1>4 DEF QueueInv
  <2>1. CASE c = d
    BY <1>1, <1>2, <1>6, <2>1
  <2>2. CASE c # d
    BY <1>2, <2>2 DEF IInv, QueueInv
  <2> QED
    BY <2>1, <2>2
<1>10. PassedInv'
  <2> SUFFICES ASSUME NEW c \in Conns, pipe'[c] = "on", writer'[c] = "on"
               PROVE  Matches(c, Line(c), group, joined'[c], Passed(c))
    BY <1>3, <1>4 DEF PassedInv
  <2>1. CASE c = d
    <3>1. Matches(d, <<>>, group, Len(group), Len(group))
      BY <1>6, MatchesNothing
    <3> QED
      BY <1>2, <1>5, <1>6, <2>1, <3>1
  <2>2. CASE c # d
    BY <1>2, <2>2 DEF IInv, PassedInv
  <2> QED
    BY <2>1, <2>2
<1>11. FrontsInv'
  <2> SUFFICES ASSUME NEW c \in Conns
               PROVE  FrontsMatch(c, Line(c), Len(heard[c]), group, joined'[c])
    BY <1>3, <1>4 DEF FrontsInv
  <2>1. CASE c = d
    <3>1. Matches(d, <<>>, group, Len(group), 0) /\ 0 \in 0 .. Len(group)
      BY <1>6, MatchesNothing
    <3>2. \A i \in 0 .. 0 : SubSeq(<<>>, 1, i) = <<>>
      OBVIOUS
    <3> QED
      BY <1>2, <1>5, <2>1, <3>1, <3>2 DEF FrontsMatch
  <2>2. CASE c # d
    BY <1>2, <2>2 DEF IInv, FrontsInv
  <2> QED
    BY <2>1, <2>2
<1> QED
  BY <1>7, <1>8, <1>9, <1>10, <1>11

-----------------------------------------------------------------------------
LEMMA Initially == Init => IInv
<1> SUFFICES ASSUME Init PROVE IInv
  OBVIOUS
<1>1. TypeOK /\ GroupInv /\ WaitingInv /\ QueueInv /\ PassedInv
  BY TypeInit DEF Init, GroupInv, WaitingInv, QueueInv, PassedInv
<1>2. FrontsInv
  <2> SUFFICES ASSUME NEW c \in Conns
               PROVE  FrontsMatch(c, Line(c), Len(heard[c]), group, joined[c])
    BY DEF FrontsInv
  <2>1. group = <<>> /\ Line(c) = <<>> /\ Len(heard[c]) = 0 /\ joined[c] = 0
    BY DEF Init, Line
  <2>2. Matches(c, <<>>, <<>>, 0, 0)
    <3>1. <<>> \in Seq(Frames) /\ 0 \in Nat /\ 0 \in 0 .. 0
      OBVIOUS
    <3> QED
      BY <3>1, MatchesNothing
  <2>3. \A i \in 0 .. 0 : SubSeq(<<>>, 1, i) = <<>>
    OBVIOUS
  <2>4. FrontsMatch(c, <<>>, 0, <<>>, 0)
    <3>1. Len(<<>>) = 0 /\ 0 \in 0 .. 0
      OBVIOUS
    <3> QED
      BY <2>2, <2>3, <3>1 DEF FrontsMatch
  <2> QED
    BY <2>1, <2>4
<1> QED
  BY <1>1, <1>2 DEF IInv

LEMMA IInvStep == ASSUME IInv, [Next]_vars PROVE IInv'
<1> DEFINE Rest == GroupInv /\ WaitingInv /\ QueueInv /\ PassedInv /\ FrontsInv
<1> SUFFICES Rest'
  BY TypeStep DEF IInv
<1>1. TypeOK /\ sent \in Nat
  BY MessagesIsNat DEF IInv, TypeOK
<1>2. CASE UNCHANGED vars
  BY <1>1, <1>2, NothingMoves DEF vars
<1>3. CASE Next
  <2>1. PICK c \in Conns :
          \/ Register(c) \/ OnOpen(c)
          \/ Announce(c) \/ ReadBroadcast(c) \/ ReadEnds(c)
          \/ \E u \in Users : ReadUnicast(c, u)
          \/ Piping(c) \/ Writing(c)
          \/ Shut(c) \/ HangUp(c) \/ Notice(c) \/ Remove(c)
    BY <1>3 DEF Next
  <2>2. ASSUME Register(c) \/ ReadEnds(c) \/ Shut(c) \/ HangUp(c) \/ Remove(c)
        PROVE  Rest'
    <3>1. UNCHANGED <<group, pipe, queue, joined, writer, inbox, heard>>
      BY <2>2 DEF Register, ReadEnds, Shut, HangUp, Remove
    <3>2. \A d \in Conns : channel'[d] # "open" => channel[d] # "open"
      BY <1>1, <2>2 DEF Register, ReadEnds, Shut, HangUp, Remove, TypeOK
    <3> QED
      BY <1>1, <3>1, <3>2, NothingMoves
  <2>3. ASSUME OnOpen(c) PROVE Rest'
    BY <2>3, Opens
  <2>4. ASSUME Announce(c) \/ ReadBroadcast(c) \/ Notice(c) PROVE Rest'
    <3>1. PICK frame \in Broadcasts : SendToGroup(frame)
      BY <1>1, <2>4, FramesAre DEF Announce, ReadBroadcast, Notice
    <3>2. UNCHANGED <<channel, pipe, joined, writer, inbox, heard>>
      BY <2>4 DEF Announce, ReadBroadcast, Notice
    <3> QED
      BY <3>1, <3>2, LogGrows
  <2>5. ASSUME NEW u \in Users, ReadUnicast(c, u) PROVE Rest'
    <3>1. Struct(c, u) \in Frames \ Broadcasts
      BY <1>1, <2>5, FramesAre DEF ReadUnicast
    <3>2. UNCHANGED <<channel, group, pipe, queue, joined, writer, heard>>
      BY <2>5 DEF ReadUnicast
    <3>3. \/ inbox' = inbox
          \/ \E d \in Conns : writer[d] = "on" /\ SendTo(d, Struct(c, u))
      BY <2>5 DEF ReadUnicast, HasReceiver
    <3>4. CASE inbox' = inbox
      BY <1>1, <3>2, <3>4, NothingMoves
    <3>5. ASSUME NEW d \in Conns, writer[d] = "on", SendTo(d, Struct(c, u))
          PROVE  Rest'
      BY <3>1, <3>2, <3>5, LineGrows
    <3> QED
      BY <3>3, <3>4, <3>5
  <2>6. ASSUME PipeLags(c) PROVE Rest'
    <3>1. pipe[c] = "on" /\ PipeEnds(c, "lagged")
          /\ UNCHANGED <<channel, group, joined, writer, inbox, heard>>
      BY <2>6 DEF PipeLags
    <3> QED
      BY <3>1, PipeIsOver
  <2>7. ASSUME PipeSkipsOwn(c) PROVE Rest'
    <3>1. queue[c] # <<>>
      BY <2>7 DEF PipeSkipsOwn, PipeHas
    <3>2. /\ pipe[c] = "on" /\ IsOwn(c, Head(queue[c])) /\ inbox' = inbox
          /\ queue' = [queue EXCEPT ![c] = Tail(queue[c])]
          /\ UNCHANGED <<channel, group, pipe, joined, writer, heard>>
      BY <2>7 DEF PipeSkipsOwn, PipeHas
    <3> QED
      BY <3>1, <3>2, PipeMoves
  <2>8. ASSUME PipeSends(c) PROVE Rest'
    <3>1. queue[c] # <<>> /\ pipe[c] = "on" /\ ~IsOwn(c, Head(queue[c]))
      BY <2>8 DEF PipeSends, PipeHas
    <3>2. UNCHANGED <<channel, group, joined, writer, heard>>
      BY <2>8 DEF PipeSends
    <3>3. CASE HasReceiver(c)
      <4>1. /\ writer[c] = "on" /\ SendTo(c, Head(queue[c])) /\ pipe' = pipe
            /\ queue' = [queue EXCEPT ![c] = Tail(queue[c])]
        BY <2>8, <3>3 DEF PipeSends, HasReceiver
      <4> QED
        BY <3>1, <3>2, <4>1, PipeMoves
    <3>4. CASE ~HasReceiver(c)
      BY <2>8, <3>1, <3>2, <3>4, PipeIsOver DEF PipeSends
    <3> QED
      BY <3>3, <3>4
  <2>9. ASSUME Write(c) PROVE Rest'
    <3>1. writer[c] = "on" /\ inbox[c] # <<>>
          /\ UNCHANGED <<channel, group, pipe, queue, joined>>
      BY <2>9 DEF Write
    <3>2. \/ /\ heard' = [heard EXCEPT ![c] = Append(heard[c], Head(inbox[c]))]
             /\ inbox' = [inbox EXCEPT ![c] = Tail(inbox[c])]
             /\ writer' = writer
          \/ WriterOver(c, "failed")
      BY <2>9 DEF Write
    <3> QED
      BY <3>1, <3>2, Writes, WriterIsOver
  <2>10. ASSUME WriterEnds(c) PROVE Rest'
    <3>1. writer[c] = "on" /\ UNCHANGED <<channel, group, pipe, queue, joined>>
          /\ (WriterOver(c, "lagged") \/ WriterOver(c, "ended"))
      BY <2>10 DEF WriterEnds
    <3> QED
      BY <3>1, WriterIsOver
  <2> QED
    BY <2>1, <2>2, <2>3, <2>4, <2>5, <2>6, <2>7, <2>8, <2>9, <2>10
    DEF Piping, Writing
<1> QED
  BY <1>2, <1>3

(* What a client hears is, without a gap, what others sent to the group     *)
(* since its loops came up.                                                 *)
THEOREM NothingIsSkipped == Spec => []NoGaps
<1>1. IInv => NoGaps
  <2> SUFFICES ASSUME IInv, NEW c \in Conns
               PROVE  \E last \in 0 .. Len(group) :
                        Kept(heard[c], Broadcasts) =
                          Kept(SubSeq(group, joined[c] + 1, last), FromOthers(c))
    BY DEF NoGaps
  <2> DEFINE s == heard[c]
             t == inbox[c]
  <2>1. s \in Seq(Frames) /\ t \in Seq(Frames)
        /\ Len(s) \in 0 .. Len(Line(c)) /\ Line(c) = s \o t
    BY ConnTypes DEF IInv, Line
  <2>2. FrontsMatch(c, Line(c), Len(s), group, joined[c])
    BY DEF IInv, FrontsInv
  <2> HIDE DEF s, t
  <2>3. SubSeq(Line(c), 1, Len(s)) = s
    BY <2>1, ConcatFront
  <2>4. Len(s) \in Len(s) .. Len(Line(c))
    BY <2>1
  <2>5. \E last \in 0 .. Len(group) : Matches(c, s, group, joined[c], last)
    BY <2>2, <2>3, <2>4 DEF FrontsMatch
  <2> QED
    BY <2>5 DEF Matches, s
<1>2. IInv /\ [Next]_vars => IInv'
  BY IInvStep
<1> QED
  BY <1>1, <1>2, Initially, PTL DEF Spec
=============================================================================
