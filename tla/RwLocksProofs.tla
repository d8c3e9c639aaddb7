---------------------------- MODULE RwLocksProofs ----------------------------
(***************************************************************************)
(* Lemmas about the lines of RwLocks, for any set of tasks.                *)
(***************************************************************************)
EXTENDS RwLocks, TLAPS

Lines(Tasks) == SUBSET [task : Tasks, mode : {"read", "write"}, before : SUBSET Tasks]

InLine(line, task) == \E e \in line : e.task = task

(* Nobody is in line twice, who is before whom is settled between any two,  *)
(* and all who are before somebody are in line.                             *)
InOrder(line) ==
    \A e \in line :
        /\ e.task \notin e.before
        /\ \A t \in e.before : InLine(line, t)
        /\ \A f \in line : f # e =>
            /\ f.task # e.task
            /\ f.task \in e.before \/ e.task \in f.before

(* t is at the head of the line to write.                                   *)
Heads(line, t) == \E e \in line : e.task = t /\ e.mode = "write" /\ e.before = {}

-----------------------------------------------------------------------------
(* An unused lock.                                                          *)
LEMMA UnlockedLine ==
    ASSUME NEW Tasks
    PROVE  /\ Unlocked \in Lines(Tasks)
           /\ InOrder(Unlocked)
           /\ \A u : ~InLine(Unlocked, u)
  BY DEF Unlocked, Lines, InOrder, InLine

(* Who asks, and was not in line, is in line, behind all who were.          *)
LEMMA AskedLine ==
    ASSUME NEW Tasks, NEW line \in Lines(Tasks), InOrder(line),
           NEW t \in Tasks, NEW mode \in {"read", "write"}, ~InLine(line, t)
    PROVE  /\ Asked(line, t, mode) \in Lines(Tasks)
           /\ InOrder(Asked(line, t, mode))
           /\ \A u : InLine(Asked(line, t, mode), u) <=> u = t \/ InLine(line, u)
           /\ \A u : Heads(line, u) => Heads(Asked(line, t, mode), u)
<1> DEFINE new == [task |-> t, mode |-> mode, before |-> {e.task : e \in line}]
           after == Asked(line, t, mode)
<1>1. after = line \cup {new}
  BY DEF Asked
<1>2. new \in [task : Tasks, mode : {"read", "write"}, before : SUBSET Tasks]
  BY DEF Lines
<1>3. new.task = t /\ new.before = {e.task : e \in line}
  OBVIOUS
<1> HIDE DEF new, after
<1>4. after \in Lines(Tasks)
  BY <1>1, <1>2 DEF Lines
<1>5. \A u : InLine(after, u) <=> u = t \/ InLine(line, u)
  BY <1>1, <1>3 DEF InLine
<1>6. InOrder(after)
  BY <1>1, <1>3, <1>5 DEF InOrder, InLine
<1>7. \A u : Heads(line, u) => Heads(after, u)
  BY <1>1 DEF Heads
<1> QED
  BY <1>4, <1>5, <1>6, <1>7 DEF after

(* Who gives back is out of line, and the others keep their order.          *)
LEMMA GivenLine ==
    ASSUME NEW Tasks, NEW line \in Lines(Tasks), InOrder(line), NEW t \in Tasks
    PROVE  /\ Given(line, t) \in Lines(Tasks)
           /\ InOrder(Given(line, t))
           /\ \A u : InLine(Given(line, t), u) <=> u # t /\ InLine(line, u)
           /\ \A u : u # t /\ Heads(line, u) => Heads(Given(line, t), u)
<1> DEFINE without(e) == [e EXCEPT !.before = @ \ {t}]
           after == Given(line, t)
<1>1. /\ \A e \in line : e.task # t => without(e) \in after
      /\ \A a \in after : \E e \in line : e.task # t /\ a = without(e)
  BY DEF Given
<1>2. \A e \in line : /\ without(e).task = e.task
                      /\ without(e).mode = e.mode
                      /\ without(e).before = e.before \ {t}
                      /\ without(e) \in [task : Tasks, mode : {"read", "write"},
                                         before : SUBSET Tasks]
  BY DEF Lines
<1> HIDE DEF without, after
<1>3. after \in Lines(Tasks)
  BY <1>1, <1>2 DEF Lines
<1>4. \A u : InLine(after, u) <=> u # t /\ InLine(line, u)
  BY <1>1, <1>2 DEF InLine
<1>5. InOrder(after)
  <2> SUFFICES ASSUME NEW a \in after
               PROVE  /\ a.task \notin a.before
                      /\ \A u \in a.before : InLine(after, u)
                      /\ \A b \in after : b # a =>
                            /\ b.task # a.task
                            /\ b.task \in a.before \/ a.task \in b.before
    BY DEF InOrder
  <2>1. PICK e \in line : e.task # t /\ a = without(e)
    BY <1>1
  <2>2. a.task = e.task /\ a.before = e.before \ {t}
    BY <1>2, <2>1
  <2>3. ASSUME NEW b \in after, b # a
        PROVE  b.task # a.task /\ (b.task \in a.before \/ a.task \in b.before)
    <3>1. PICK f \in line : f.task # t /\ b = without(f)
      BY <1>1
    <3>2. b.task = f.task /\ b.before = f.before \ {t} /\ f # e
      BY <1>2, <2>1, <2>3, <3>1
    <3> QED
      BY <2>1, <2>2, <3>1, <3>2 DEF InOrder
  <2> QED
    BY <1>4, <2>1, <2>2, <2>3 DEF InOrder
<1>6. \A u : u # t /\ Heads(line, u) => Heads(after, u)
  <2> SUFFICES ASSUME NEW u, u # t, NEW e \in line,
                      e.task = u, e.mode = "write", e.before = {}
               PROVE  Heads(after, u)
    BY DEF Heads
  <2> QED
    BY <1>1, <1>2 DEF Heads
<1> QED
  BY <1>3, <1>4, <1>5, <1>6 DEF after

(* A writer that has the lock is at the head of the line ...                *)
LEMMA WriterHeads ==
    ASSUME NEW line, NEW t, Granted(line, t, "write")
    PROVE  Heads(line, t)
  BY DEF Heads, Granted

(* ... of which there is only one.                                          *)
LEMMA OneHead ==
    ASSUME NEW line, InOrder(line), NEW t, NEW u, Heads(line, t), Heads(line, u)
    PROVE  t = u
  BY DEF InOrder, Heads
-----------------------------------------------------------------------------
(* What makes the lines locks.                                             *)

(* Who has a lock to write has it alone.                                    *)
THEOREM WritersAreAlone ==
    ASSUME NEW line, InOrder(line), NEW t, NEW u, NEW mode,
           Granted(line, t, "write"), Granted(line, u, mode)
    PROVE  t = u
<1>1. PICK e \in line : e.task = t /\ e.mode = "write" /\ e.before = {}
  BY DEF Granted
<1>2. PICK f \in line : /\ f.task = u
                        /\ \A g \in line : g.task \in f.before => g.mode = "read"
  BY DEF Granted
<1>3. e.task \notin f.before
  BY <1>1, <1>2
<1>4. CASE e = f
  BY <1>1, <1>2, <1>4
<1>5. CASE e # f
  BY <1>1, <1>3, <1>5 DEF InOrder
<1> QED
  BY <1>4, <1>5

(* Who has a lock keeps it, whoever else asks for it or gives it back.      *)
THEOREM GrantsStay ==
    ASSUME NEW Tasks, NEW line \in Lines(Tasks), InOrder(line),
           NEW t \in Tasks, NEW mode \in {"read", "write"}, Granted(line, t, mode),
           NEW u \in Tasks, u # t
    PROVE  /\ Granted(Given(line, u), t, mode)
           /\ \A m \in {"read", "write"} :
                 ~InLine(line, u) => Granted(Asked(line, u, m), t, mode)
<1>1. PICK e \in line : /\ e.task = t /\ e.mode = mode
                        /\ mode = "write" => e.before = {}
                        /\ \A g \in line : g.task \in e.before => g.mode = "read"
  BY DEF Granted
<1>2. ASSUME NEW m \in {"read", "write"}, ~InLine(line, u)
      PROVE  Granted(Asked(line, u, m), t, mode)
  <2> DEFINE new == [task |-> u, mode |-> m, before |-> {f.task : f \in line}]
  <2>1. u \notin e.before
    BY <1>2 DEF InOrder
  <2>2. new.task = u
    OBVIOUS
  <2>3. Asked(line, u, m) = line \cup {new}
    BY DEF Asked
  <2> HIDE DEF new
  <2> QED
    BY <1>1, <2>1, <2>2, <2>3 DEF Granted
<1>3. Granted(Given(line, u), t, mode)
  <2> DEFINE without(f) == [f EXCEPT !.before = @ \ {u}]
             after == Given(line, u)
  <2>1. /\ \A f \in line : f.task # u => without(f) \in after
        /\ \A a \in after : \E f \in line : f.task # u /\ a = without(f)
    BY DEF Given
  <2>2. \A f \in line : /\ without(f).task = f.task
                        /\ without(f).mode = f.mode
                        /\ without(f).before = f.before \ {u}
    BY DEF Lines
  <2> HIDE DEF without, after
  <2>3. without(e) \in after
    BY <1>1, <2>1
  <2>4. \A a \in after : a.task \in without(e).before => a.mode = "read"
    BY <1>1, <2>1, <2>2
  <2>5. Granted(after, t, mode)
    BY <1>1, <2>2, <2>3, <2>4 DEF Granted
  <2> QED
    BY <2>5 DEF after
<1> QED
  BY <1>2, <1>3
=============================================================================
