---------------------- MODULE TransactionManagerProofs ----------------------
(***************************************************************************)
(* Proofs about TransactionManager, for every finite set of goroutines,    *)
(* every size of the pools, and every bound on depth, calls and statements. *)
(***************************************************************************)
EXTENDS TransactionManager, FiniteSetTheorems, TLAPS

Ats == {"acquiring", "acquired", "callback", "commit", "rollback", "panicked"}
Conns == {"none", "idle", "tx", "aborted", "dead"}

\* The stacks and the number of calls so far have their types.
Shape ==
    /\ stack \in [Callers -> Seq(Calls)]
    /\ \A c \in Callers : Len(stack[c]) <= MaxDepth + 1
    /\ started \in 0..MaxTx

\* What the operations on stacks do to the stack of one caller, call by call.
Others(c) ==
    /\ stack' \in [Callers -> Seq(Calls)]
    /\ \A d \in Callers \ {c} : stack'[d] = stack[d]

TopSet(c, at, conn) ==
    /\ Others(c)
    /\ Len(stack'[c]) = Len(stack[c])
    /\ \A i \in 1..Len(stack[c]) :
          stack'[c][i] = IF i = Len(stack[c]) THEN [Top(c) EXCEPT !.at = at, !.conn = conn]
                                              ELSE stack[c][i]

Pushed(c, call) ==
    /\ Others(c)
    /\ Len(stack'[c]) = Len(stack[c]) + 1
    /\ \A i \in 1..Len(stack[c]) : stack'[c][i] = stack[c][i]
    /\ stack'[c][Len(stack[c]) + 1] = call

Popped(c) ==
    /\ Others(c)
    /\ Len(stack'[c]) = Len(stack[c]) - 1
    /\ \A i \in 1..(Len(stack[c]) - 1) :
          \/ stack'[c][i] = stack[c][i]
          \/ /\ i = Len(stack[c]) - 1
             /\ stack'[c][i] = [stack[c][i] EXCEPT !.at = "panicked"]

Renewed(c, call) ==
    /\ Others(c)
    /\ Len(stack'[c]) = 1
    /\ stack'[c][1] = call

Cancelled(c) ==
    /\ Others(c)
    /\ Len(stack'[c]) = Len(stack[c])
    /\ \A i \in 1..Len(stack[c]) :
          stack'[c][i] = IF i = 1 THEN [stack[c][1] EXCEPT !.cancelled = TRUE] ELSE stack[c][i]

-----------------------------------------------------------------------------
\* The innermost call of a caller that has one.
LEMMA TopType ==
    ASSUME Shape, NEW c \in Callers, stack[c] # <<>>
    PROVE  /\ stack[c] \in Seq(Calls)
           /\ Len(stack[c]) \in 1..(MaxDepth + 1)
           /\ DOMAIN stack[c] = 1..Len(stack[c])
           /\ Top(c) = stack[c][Len(stack[c])]
           /\ Top(c) \in Calls
  <1>1. stack[c] \in Seq(Calls)
    BY DEF Shape
  <1>2. Len(stack[c]) \in Nat \ {0} /\ DOMAIN stack[c] = 1..Len(stack[c])
    BY <1>1
  <1>3. Len(stack[c]) <= MaxDepth + 1
    BY DEF Shape
  <1>4. QED
    BY <1>1, <1>2, <1>3, BoundsAssumption DEF Top

\* SetTop changes two fields of the innermost call.
LEMMA SetTopEffect ==
    ASSUME Shape, NEW c \in Callers, stack[c] # <<>>,
           NEW at \in Ats, NEW conn \in Conns, SetTop(c, at, conn)
    PROVE  TopSet(c, at, conn)
  <1> DEFINE n == Len(stack[c])
             new == [Top(c) EXCEPT !.at = at, !.conn = conn]
             s == [stack[c] EXCEPT ![n] = new]
  <1>1. n \in 1..(MaxDepth + 1) /\ Top(c) \in Calls /\ stack[c] \in Seq(Calls)
        /\ DOMAIN stack[c] = 1..n
    BY TopType
  <1>2. new \in Calls
    BY <1>1 DEF Calls, Ats, Conns
  <1>3. stack' = [stack EXCEPT ![c] = s]
    BY <1>1 DEF SetTop, Top, Shape, Calls
  <1>4. s \in Seq(Calls) /\ Len(s) = n
        /\ \A i \in 1..n : s[i] = IF i = n THEN new ELSE stack[c][i]
    BY <1>1, <1>2
  <1>5. stack'[c] = s /\ \A d \in Callers \ {c} : stack'[d] = stack[d]
    BY <1>3 DEF Shape
  <1>6. stack' \in [Callers -> Seq(Calls)]
    BY <1>3, <1>4 DEF Shape
  <1> HIDE DEF s, new
  <1>7. QED
    BY <1>4, <1>5, <1>6 DEF TopSet, Others, new

\* Push adds a call on top.
LEMMA PushEffect ==
    ASSUME Shape, NEW c \in Callers, NEW call \in Calls, Push(c, call)
    PROVE  Pushed(c, call)
  <1> DEFINE n == Len(stack[c])
             s == Append(stack[c], call)
  <1>1. stack[c] \in Seq(Calls)
    BY DEF Shape
  <1>2. /\ s \in Seq(Calls)
        /\ Len(s) = n + 1
        /\ \A i \in 1..n : s[i] = stack[c][i]
        /\ s[n + 1] = call
    BY <1>1
  <1>3. stack'[c] = s /\ (\A d \in Callers \ {c} : stack'[d] = stack[d])
        /\ stack' \in [Callers -> Seq(Calls)]
    BY <1>2 DEF Push, Shape
  <1> HIDE DEF s
  <1>4. QED
    BY <1>2, <1>3 DEF Pushed, Others

\* Pop removes the innermost call; a panic goes on in the call below it.
LEMMA PopEffect ==
    ASSUME Shape, NEW c \in Callers, stack[c] # <<>>, NEW panics \in BOOLEAN, Pop(c, panics)
    PROVE  Popped(c)
  <1> DEFINE n == Len(stack[c])
             below == SubSeq(stack[c], 1, n - 1)
             s == IF panics /\ below # <<>> THEN [below EXCEPT ![Len(below)].at = "panicked"]
                                            ELSE below
  <1>1. n \in Nat \ {0} /\ stack[c] \in Seq(Calls) /\ DOMAIN stack[c] = 1..n
    BY TopType
  <1>2. below \in Seq(Calls) /\ Len(below) = n - 1 /\ DOMAIN below = 1..(n - 1)
        /\ \A i \in 1..(n - 1) : below[i] = stack[c][i]
    BY <1>1
  <1>3. s \in Seq(Calls) /\ Len(s) = n - 1
        /\ \A i \in 1..(n - 1) :
             \/ s[i] = stack[c][i]
             \/ i = n - 1 /\ s[i] = [stack[c][i] EXCEPT !.at = "panicked"]
    <2>1. CASE panics /\ below # <<>>
      <3> DEFINE hit == [below[n - 1] EXCEPT !.at = "panicked"]
      <3>1. n - 1 \in DOMAIN below /\ below[n - 1] \in Calls
        BY <1>2, <2>1
      <3>2. hit \in Calls
        BY <3>1 DEF Calls
      <3>3. s = [below EXCEPT ![n - 1] = hit]
        BY <1>2, <2>1
      <3>4. below[n - 1] = stack[c][n - 1]
        BY <1>2, <3>1
      <3> HIDE DEF below
      <3>5. [below EXCEPT ![n - 1] = hit] \in Seq(Calls)
            /\ Len([below EXCEPT ![n - 1] = hit]) = n - 1
            /\ \A i \in 1..(n - 1) :
                 [below EXCEPT ![n - 1] = hit][i] = IF i = n - 1 THEN hit ELSE below[i]
        BY <1>2, <3>1, <3>2
      <3> HIDE DEF s
      <3>6. QED
        BY <1>2, <3>3, <3>4, <3>5
    <2>2. CASE ~(panics /\ below # <<>>)
      <3>1. s = below
        BY <2>2
      <3> HIDE DEF s, below
      <3>2. QED
        BY <1>2, <3>1
    <2>3. QED
      BY <2>1, <2>2
  <1>4. stack' = [stack EXCEPT ![c] = s]
    BY DEF Pop
  <1> HIDE DEF s
  <1>5. stack'[c] = s /\ (\A d \in Callers \ {c} : stack'[d] = stack[d])
        /\ stack' \in [Callers -> Seq(Calls)]
    BY <1>3, <1>4 DEF Shape
  <1>6. QED
    BY <1>3, <1>5 DEF Popped, Others

\* A stack of one call is replaced by another one.
LEMMA RenewEffect ==
    ASSUME Shape, NEW c \in Callers, NEW call \in Calls,
           stack' = [stack EXCEPT ![c] = <<call>>]
    PROVE  Renewed(c, call)
  <1>1. <<call>> \in Seq(Calls) /\ Len(<<call>>) = 1 /\ <<call>>[1] = call
    OBVIOUS
  <1>2. stack'[c] = <<call>> /\ (\A d \in Callers \ {c} : stack'[d] = stack[d])
        /\ stack' \in [Callers -> Seq(Calls)]
    BY <1>1 DEF Shape
  <1>3. QED
    BY <1>1, <1>2 DEF Renewed, Others

\* An end of the context changes one field of the outermost call.
LEMMA CancelEffect ==
    ASSUME Shape, NEW c \in Callers, CancelContext(c)
    PROVE  Cancelled(c)
  <1> DEFINE n == Len(stack[c])
             new == [stack[c][1] EXCEPT !.cancelled = TRUE]
             s == [stack[c] EXCEPT ![1] = new]
  <1>1. stack[c] # <<>> /\ stack' = [stack EXCEPT ![c] = [@ EXCEPT ![1].cancelled = TRUE]]
    BY DEF CancelContext
  <1>2. n \in 1..(MaxDepth + 1) /\ stack[c] \in Seq(Calls) /\ DOMAIN stack[c] = 1..n
    BY <1>1, TopType
  <1>3. stack[c][1] \in Calls
    BY <1>2
  <1>3b. \A x \in Calls : [x EXCEPT !.cancelled = TRUE] \in Calls
    BY DEF Calls
  <1>4. stack' = [stack EXCEPT ![c] = s]
    BY <1>1
  <1>5. s \in Seq(Calls) /\ Len(s) = n
        /\ \A i \in 1..n : s[i] = IF i = 1 THEN new ELSE stack[c][i]
    BY <1>2, <1>3, <1>3b
  <1>6. stack'[c] = s /\ (\A d \in Callers \ {c} : stack'[d] = stack[d])
        /\ stack' \in [Callers -> Seq(Calls)]
    BY <1>4, <1>5 DEF Shape
  <1> HIDE DEF s, new
  <1>7. QED
    BY <1>5, <1>6, <1>2 DEF Cancelled, Others, new
-----------------------------------------------------------------------------
(* The stacks stay sound.                                                  *)

OpenConns == {"tx", "aborted", "dead"}
OpenAts == {"callback", "commit", "rollback", "panicked"}

\* What StackInv says of one call, when n calls of execute have started.
Sound(s, i, n) ==
    /\ s[i].conn = "none" <=> s[i].at = "acquiring"
    /\ s[i].conn \in OpenConns <=> s[i].at \in OpenAts
    /\ s[i].kind = "tx" => s[i].id \in 1..n
    /\ s[i].kind # "tx" => s[i].id = 0 /\ Len(s) = 1 /\ s[i].at \in {"acquiring", "acquired"}
    /\ i < Len(s) => s[i].at = "callback"

LEMMA StackInvIsSound ==
    ASSUME Shape
    PROVE  StackInv <=> \A c \in Callers : \A i \in 1..Len(stack[c]) : Sound(stack[c], i, started)
  <1>1. \A c \in Callers : DOMAIN stack[c] = 1..Len(stack[c])
    BY DEF Shape
  <1>2. QED
    BY <1>1 DEF StackInv, Sound, OpenConns, OpenAts

StackIInv == Shape /\ StackInv /\ IdInv

\* A new stack of one caller keeps the invariant when its calls are sound and
\* each is an old one, the newest call of execute, or alone and not a call of execute.
LEMMA NewStack ==
    ASSUME StackIInv, NEW c \in Callers, Others(c),
           Len(stack'[c]) <= MaxDepth + 1,
           started' \in 0..MaxTx, started <= started',
           \A i \in 1..Len(stack'[c]) : Sound(stack'[c], i, started'),
           \A i \in 1..Len(stack'[c]) :
              \/ /\ i \in 1..Len(stack[c])
                 /\ stack'[c][i].kind = stack[c][i].kind
                 /\ stack'[c][i].id = stack[c][i].id
              \/ i = Len(stack'[c]) /\ stack'[c][i].id = started + 1
              \/ stack'[c][i].kind # "tx"
    PROVE  StackIInv'
  <1>1. Shape'
    BY DEF StackIInv, Shape, Others
  <1>2. \A d \in Callers : \A i \in 1..Len(stack[d]) : Sound(stack[d], i, started)
    BY StackInvIsSound DEF StackIInv
  <1>3. /\ \A d \in Callers : DOMAIN stack[d] = 1..Len(stack[d])
        /\ \A d \in Callers : DOMAIN stack'[d] = 1..Len(stack'[d])
        /\ \A d \in Callers : Len(stack[d]) \in Nat /\ Len(stack'[d]) \in Nat
        /\ started \in Nat /\ started' \in Nat
    BY <1>1, BoundsAssumption DEF StackIInv, Shape
  <1>4. \A d \in Callers \ {c} : stack'[d] = stack[d]
    BY DEF Others
  <1>5. StackInv'
    <2> SUFFICES ASSUME NEW d \in Callers, NEW i \in 1..Len(stack'[d])
                 PROVE  Sound(stack'[d], i, started')
      BY <1>3 DEF StackInv, Sound, OpenConns, OpenAts
    <2>1. CASE d = c
      BY <2>1
    <2>2. CASE d # c
      <3>1. stack'[d] = stack[d] /\ Sound(stack[d], i, started)
        BY <2>2, <1>2, <1>4
      <3>2. QED
        BY <3>1, <1>3 DEF Sound
    <2>3. QED
      BY <2>1, <2>2
  <1>6. \A d \in Callers : \A i \in 1..Len(stack[d]) :
          /\ stack[d][i].kind = "tx" => stack[d][i].id \in 1..started
          /\ stack[d][i].kind # "tx" => stack[d][i].id = 0
    BY <1>2 DEF Sound
  <1>7. \A i \in 1..Len(stack'[c]) :
          /\ stack'[c][i].kind = "tx" => stack'[c][i].id \in 1..started'
          /\ stack'[c][i].kind # "tx" => stack'[c][i].id = 0
    BY DEF Sound
  <1>8. ASSUME NEW d \in Callers, NEW e \in Callers,
               NEW i \in 1..Len(stack'[d]), NEW j \in 1..Len(stack'[e]),
               stack'[d][i].kind = "tx", stack'[d][i].id = stack'[e][j].id
        PROVE  d = e /\ i = j
    <2>1. \A f, g \in Callers : \A k \in 1..Len(stack[f]), l \in 1..Len(stack[g]) :
            stack[f][k].kind = "tx" /\ stack[f][k].id = stack[g][l].id => f = g /\ k = l
      BY <1>3 DEF StackIInv, IdInv
    <2>2. stack'[d][i].id # 0
      <3>1. CASE d = c
        BY <1>7, <1>3, <1>8, <3>1
      <3>2. CASE d # c
        BY <1>6, <1>4, <1>3, <1>8, <3>2
      <3>3. QED
        BY <3>1, <3>2
    <2>3. stack'[e][j].kind = "tx"
      BY <1>4, <1>6, <1>7, <1>8, <2>2
    <2>4. CASE d = c /\ e = c
      <3> DEFINE Old(k) == /\ k \in 1..Len(stack[c])
                           /\ stack[c][k].kind = "tx"
                           /\ stack'[c][k].id = stack[c][k].id
                           /\ stack[c][k].id <= started
                 New(k) == k = Len(stack'[c]) /\ stack'[c][k].id = started + 1
      <3>1. \A k \in 1..Len(stack'[c]) : stack'[c][k].kind = "tx" => Old(k) \/ New(k)
        <4> SUFFICES ASSUME NEW k \in 1..Len(stack'[c]), stack'[c][k].kind = "tx"
                     PROVE  Old(k) \/ New(k)
          OBVIOUS
        <4>1. CASE /\ k \in 1..Len(stack[c])
                   /\ stack'[c][k].kind = stack[c][k].kind
                   /\ stack'[c][k].id = stack[c][k].id
          <5>1. stack[c][k].id \in 1..started
            BY <4>1, <1>6
          <5>2. stack[c][k].id <= started
            BY <5>1, <1>3
          <5>3. QED
            BY <4>1, <5>2
        <4>2. CASE k = Len(stack'[c]) /\ stack'[c][k].id = started + 1
          BY <4>2
        <4>3. QED
          BY <4>1, <4>2
      <3>2. (Old(i) \/ New(i)) /\ (Old(j) \/ New(j))
        BY <3>1, <2>3, <2>4, <1>8
      <3>3. stack'[c][i].id = stack'[c][j].id
        BY <2>4, <1>8
      <3>4. CASE Old(i) /\ Old(j)
        <4>1. stack[c][i].id = stack[c][j].id
          BY <3>3, <3>4
        <4>2. QED
          BY <3>4, <4>1, <2>1, <2>4
      <3>5. CASE New(i) /\ New(j)
        BY <3>5, <2>4
      <3>6. CASE Old(i) /\ New(j)
        <4>1. stack'[c][i].id <= started /\ stack'[c][i].id = started + 1
          BY <3>3, <3>6
        <4>2. QED
          BY <4>1, <1>3
      <3>7. CASE New(i) /\ Old(j)
        <4>1. stack'[c][j].id <= started /\ stack'[c][j].id = started + 1
          BY <3>3, <3>7
        <4>2. QED
          BY <4>1, <1>3
      <3>8. QED
        BY <3>2, <3>4, <3>5, <3>6, <3>7
    <2>5. CASE d = c /\ e # c
      BY <2>1, <2>3, <2>5, <1>4, <1>6, <1>8, <1>3
    <2>6. CASE d # c /\ e = c
      BY <2>1, <2>3, <2>6, <1>4, <1>6, <1>8, <1>3
    <2>7. CASE d # c /\ e # c
      BY <2>1, <2>7, <1>4, <1>8
    <2>8. QED
      BY <2>4, <2>5, <2>6, <2>7
  <1>9. \A d, e \in Callers : \A i \in 1..Len(stack'[d]), j \in 1..Len(stack'[e]) :
          stack'[d][i].kind = "tx" /\ stack'[d][i].id = stack'[e][j].id => d = e /\ i = j
    BY <1>8
  <1>10. IdInv'
    <2>1. \A d \in Callers : DOMAIN stack'[d] = 1..Len(stack'[d])
      BY <1>3
    <2>2. QED
      BY <1>9, <2>1 DEF IdInv
  <1>11. QED
    BY <1>1, <1>5, <1>10 DEF StackIInv

\* What the invariant says of the stack of a caller.
LEMMA SoundCalls ==
    ASSUME StackIInv, NEW c \in Callers
    PROVE  /\ Len(stack[c]) \in Nat
           /\ Len(stack[c]) <= MaxDepth + 1
           /\ stack[c] # <<>> => Len(stack[c]) > 0
           /\ \A i \in 1..Len(stack[c]) : stack[c][i] \in Calls /\ Sound(stack[c], i, started)
           /\ started \in Nat
  <1>1. Shape /\ stack[c] \in Seq(Calls)
    BY DEF StackIInv, Shape
  <1>2. \A i \in 1..Len(stack[c]) : Sound(stack[c], i, started)
    BY <1>1, StackInvIsSound DEF StackIInv
  <1>3. QED
    BY <1>1, <1>2, BoundsAssumption DEF Shape

\* SetTop keeps the invariant when the connection fits the place.
LEMMA SetTopSound ==
    ASSUME StackIInv, UNCHANGED started, NEW c \in Callers, stack[c] # <<>>,
           NEW at \in Ats, NEW conn \in Conns, SetTop(c, at, conn),
           conn = "none" <=> at = "acquiring",
           conn \in OpenConns <=> at \in OpenAts,
           Top(c).kind # "tx" => at \in {"acquiring", "acquired"}
    PROVE  StackIInv' /\ TopSet(c, at, conn)
  <1> DEFINE n == Len(stack[c])
             new == [Top(c) EXCEPT !.at = at, !.conn = conn]
  <1>1. Shape
    BY DEF StackIInv
  <1>2. TopSet(c, at, conn)
    BY <1>1, SetTopEffect
  <1>3. Others(c) /\ Len(stack'[c]) = n
        /\ \A i \in 1..n : stack'[c][i] = IF i = n THEN new ELSE stack[c][i]
    BY <1>2 DEF TopSet
  <1>4. n \in 1..(MaxDepth + 1) /\ Top(c) = stack[c][n] /\ Top(c) \in Calls
    BY <1>1, TopType
  <1>5. new.at = at /\ new.conn = conn /\ new.kind = Top(c).kind /\ new.id = Top(c).id
    BY <1>4 DEF Calls
  <1> HIDE DEF new
  <1>6. \A i \in 1..n : Sound(stack[c], i, started)
    BY SoundCalls
  <1>7. \A i \in 1..n : Sound(stack'[c], i, started')
    BY <1>3, <1>4, <1>5, <1>6 DEF Sound
  <1>8. \A i \in 1..n : stack'[c][i].kind = stack[c][i].kind /\ stack'[c][i].id = stack[c][i].id
    BY <1>3, <1>4, <1>5
  <1>9. n <= MaxDepth + 1 /\ started' \in 0..MaxTx /\ started <= started'
    BY <1>1, BoundsAssumption DEF Shape
  <1>10. QED
    BY <1>2, <1>3, <1>7, <1>8, <1>9, NewStack

\* So does Push of a call that waits for a connection: the newest execute, from
\* the outside or from a callback, or another call from the outside.
LEMMA PushSound ==
    ASSUME StackIInv, NEW c \in Callers, NEW call \in Calls, Push(c, call),
           call.at = "acquiring", call.conn = "none",
           Len(stack[c]) <= MaxDepth, started' \in 0..MaxTx,
           \/ /\ call.kind = "tx" /\ call.id = started' /\ started' = started + 1
              /\ stack[c] = <<>> \/ InTx(c)
           \/ /\ call.kind # "tx" /\ call.id = 0 /\ started' = started
              /\ stack[c] = <<>>
    PROVE  StackIInv' /\ Pushed(c, call)
  <1> DEFINE n == Len(stack[c])
  <1>1. Shape
    BY DEF StackIInv
  <1>2. Pushed(c, call)
    BY <1>1, PushEffect
  <1>3. Others(c) /\ Len(stack'[c]) = n + 1 /\ stack'[c][n + 1] = call
        /\ \A i \in 1..n : stack'[c][i] = stack[c][i]
    BY <1>2 DEF Pushed
  <1>4. n \in Nat /\ started \in Nat /\ \A i \in 1..n : Sound(stack[c], i, started)
    BY SoundCalls
  <1>5. \/ n = 0
        \/ n > 0 /\ stack[c][n].kind = "tx" /\ stack[c][n].at = "callback" /\ call.kind = "tx"
    BY <1>1, TopType DEF InTx
  <1>6. \A i \in 1..(n + 1) : Sound(stack'[c], i, started')
    <2> SUFFICES ASSUME NEW i \in 1..(n + 1) PROVE Sound(stack'[c], i, started')
      OBVIOUS
    <2>1. CASE i = n + 1
      BY <1>3, <1>4, <1>5, <2>1 DEF Sound, OpenConns, OpenAts
    <2>2. CASE i # n + 1
      <3>1. i \in 1..n /\ stack'[c][i] = stack[c][i] /\ Sound(stack[c], i, started)
        BY <2>2, <1>3, <1>4
      <3>2. started' \in Nat /\ started <= started'
        BY <1>4
      <3>3. QED
        BY <1>3, <1>4, <1>5, <3>1, <3>2 DEF Sound
    <2>3. QED
      BY <2>1, <2>2
  <1>7. \A i \in 1..(n + 1) :
          \/ i \in 1..n /\ stack'[c][i] = stack[c][i]
          \/ i = n + 1 /\ (stack'[c][i].id = started + 1 \/ stack'[c][i].kind # "tx")
    BY <1>3, <1>4
  <1>8. n + 1 <= MaxDepth + 1 /\ started <= started'
    BY <1>4, BoundsAssumption
  <1>9. QED
    BY <1>2, <1>3, <1>6, <1>7, <1>8, NewStack

\* So does Pop.
LEMMA PopSound ==
    ASSUME StackIInv, UNCHANGED started, NEW c \in Callers, stack[c] # <<>>,
           NEW panics \in BOOLEAN, Pop(c, panics)
    PROVE  StackIInv' /\ Popped(c)
  <1> DEFINE n == Len(stack[c])
  <1>1. Shape
    BY DEF StackIInv
  <1>2. Popped(c)
    BY <1>1, PopEffect
  <1>3. n \in Nat \ {0} /\ n <= MaxDepth + 1
        /\ \A i \in 1..n : stack[c][i] \in Calls /\ Sound(stack[c], i, started)
    BY SoundCalls
  <1>4. Others(c) /\ Len(stack'[c]) = n - 1
    BY <1>2 DEF Popped
  <1>5. \A i \in 1..(n - 1) :
          /\ stack'[c][i].kind = stack[c][i].kind
          /\ stack'[c][i].id = stack[c][i].id
          /\ stack'[c][i].conn = stack[c][i].conn
          /\ \/ stack'[c][i].at = stack[c][i].at
             \/ i = n - 1 /\ stack'[c][i].at = "panicked"
    <2>1. \A x \in Calls : LET y == [x EXCEPT !.at = "panicked"]
                           IN  /\ y.kind = x.kind /\ y.id = x.id /\ y.conn = x.conn
                               /\ y.at = "panicked"
      BY DEF Calls
    <2> SUFFICES ASSUME NEW i \in 1..(n - 1)
                 PROVE  /\ stack'[c][i].kind = stack[c][i].kind
                        /\ stack'[c][i].id = stack[c][i].id
                        /\ stack'[c][i].conn = stack[c][i].conn
                        /\ \/ stack'[c][i].at = stack[c][i].at
                           \/ i = n - 1 /\ stack'[c][i].at = "panicked"
      OBVIOUS
    <2>2. stack[c][i] \in Calls
      BY <1>3
    <2>3. \/ stack'[c][i] = stack[c][i]
          \/ i = n - 1 /\ stack'[c][i] = [stack[c][i] EXCEPT !.at = "panicked"]
      BY <1>2 DEF Popped
    <2>4. QED
      BY <2>1, <2>2, <2>3
  <1>6. \A i \in 1..(n - 1) : Sound(stack'[c], i, started')
    <2> SUFFICES ASSUME NEW i \in 1..(n - 1) PROVE Sound(stack'[c], i, started')
      OBVIOUS
    <2>1. i \in 1..n /\ i < n /\ n # 1 /\ Sound(stack[c], i, started)
      BY <1>3
    <2>2. stack[c][i].at = "callback" /\ stack[c][i].kind = "tx"
      BY <2>1 DEF Sound
    <2>3. stack'[c][i].at \in OpenAts /\ stack'[c][i].at # "acquiring"
          /\ (i < n - 1 => stack'[c][i].at = "callback")
      BY <1>3, <1>5, <2>2 DEF OpenAts
    <2>4. stack[c][i].conn \in OpenConns /\ stack[c][i].conn # "none" /\ stack[c][i].id \in 1..started
      BY <2>1, <2>2 DEF Sound, OpenAts
    <2>5. QED
      BY <1>4, <1>5, <2>2, <2>3, <2>4 DEF Sound
  <1>7. n - 1 <= MaxDepth + 1 /\ started' \in 0..MaxTx /\ started <= started'
    BY <1>1, <1>3, BoundsAssumption DEF Shape
  <1>8. \A i \in 1..(n - 1) : i \in 1..n
    BY <1>3
  <1>9. QED
    BY <1>2, <1>4, <1>5, <1>6, <1>7, <1>8, NewStack

\* So does the replacement of a call that is not an execute by another one.
LEMMA RenewedSound ==
    ASSUME StackIInv, UNCHANGED started, NEW c \in Callers, NEW call \in Calls,
           Renewed(c, call),
           call.kind # "tx", call.id = 0, call.at = "acquiring", call.conn = "none"
    PROVE  StackIInv'
  <1>1. Others(c) /\ Len(stack'[c]) = 1 /\ stack'[c][1] = call
    BY DEF Renewed
  <1>2. Sound(stack'[c], 1, started')
    BY <1>1 DEF Sound, OpenConns, OpenAts
  <1>3. \A i \in 1..Len(stack'[c]) : Sound(stack'[c], i, started') /\ stack'[c][i].kind # "tx"
    BY <1>1, <1>2
  <1>4. 1 <= MaxDepth + 1 /\ started' \in 0..MaxTx /\ started <= started'
    BY BoundsAssumption DEF StackIInv, Shape
  <1>5. QED
    BY <1>1, <1>3, <1>4, NewStack

LEMMA RenewSound ==
    ASSUME StackIInv, UNCHANGED started, NEW c \in Callers, NEW call \in Calls,
           stack' = [stack EXCEPT ![c] = <<call>>],
           call.kind # "tx", call.id = 0, call.at = "acquiring", call.conn = "none"
    PROVE  StackIInv' /\ Renewed(c, call)
  BY RenewEffect, RenewedSound DEF StackIInv

\* So does the end of a context.
LEMMA CancelSound ==
    ASSUME StackIInv, NEW c \in Callers, CancelContext(c)
    PROVE  StackIInv' /\ Cancelled(c)
  <1> DEFINE n == Len(stack[c])
  <1>1. Shape /\ started' = started
    BY DEF StackIInv, CancelContext, txs
  <1>2. Cancelled(c)
    BY <1>1, CancelEffect
  <1>3. n \in Nat /\ n <= MaxDepth + 1
        /\ \A i \in 1..n : stack[c][i] \in Calls /\ Sound(stack[c], i, started)
    BY SoundCalls
  <1>4. Others(c) /\ Len(stack'[c]) = n
        /\ \A i \in 1..n :
             stack'[c][i] = IF i = 1 THEN [stack[c][1] EXCEPT !.cancelled = TRUE] ELSE stack[c][i]
    BY <1>2 DEF Cancelled
  <1>5. \A x \in Calls : LET y == [x EXCEPT !.cancelled = TRUE]
                         IN  y.kind = x.kind /\ y.id = x.id /\ y.at = x.at /\ y.conn = x.conn
    BY DEF Calls
  <1>6. \A i \in 1..n :
          /\ stack'[c][i].kind = stack[c][i].kind
          /\ stack'[c][i].id = stack[c][i].id
          /\ stack'[c][i].conn = stack[c][i].conn
          /\ stack'[c][i].at = stack[c][i].at
    <2> SUFFICES ASSUME NEW i \in 1..n
                 PROVE  /\ stack'[c][i].kind = stack[c][i].kind
                        /\ stack'[c][i].id = stack[c][i].id
                        /\ stack'[c][i].conn = stack[c][i].conn
                        /\ stack'[c][i].at = stack[c][i].at
      OBVIOUS
    <2>1. stack[c][i] \in Calls
      BY <1>3
    <2>2. \/ stack'[c][i] = stack[c][i]
          \/ stack'[c][i] = [stack[c][i] EXCEPT !.cancelled = TRUE]
      BY <1>4
    <2>3. QED
      BY <1>5, <2>1, <2>2
  <1>7. \A i \in 1..n : Sound(stack'[c], i, started')
    BY <1>1, <1>3, <1>4, <1>6 DEF Sound
  <1>8. started' \in 0..MaxTx /\ started <= started'
    BY <1>1, BoundsAssumption DEF Shape
  <1>9. QED
    BY <1>2, <1>3, <1>4, <1>6, <1>7, <1>8, NewStack

\* A call as the operations make it.
LEMMA CallType ==
    ASSUME NEW kind \in {"tx", "statement", "ping", "scrape"}, NEW role \in Role,
           NEW id \in 0..MaxTx, NEW meta \in Metas
    PROVE  /\ Call(kind, role, id, meta) \in Calls
           /\ Call(kind, role, id, meta).kind = kind
           /\ Call(kind, role, id, meta).id = id
           /\ Call(kind, role, id, meta).at = "acquiring"
           /\ Call(kind, role, id, meta).conn = "none"
  <1>1. PoolOf(role) \in Role
    BY DEF PoolOf, Role
  <1>2. (IF kind = "scrape" THEN ScrapeQueries ELSE 1) \in 1..ScrapeQueries
    BY ScrapeQueriesAssumption
  <1>3. QED
    BY <1>1, <1>2 DEF Call, Calls

\* Leaving a pool ends a call that is not an execute, or replaces it.
LEMMA NextPoolSound ==
    ASSUME StackIInv, UNCHANGED started, NEW c \in Callers, stack[c] # <<>>,
           Top(c).kind # "tx", NEW ok \in BOOLEAN, NextPool(c, ok)
    PROVE  /\ StackIInv'
           /\ Popped(c) \/ \E call \in Calls : call.conn = "none" /\ call.id = 0 /\ Renewed(c, call)
  <1>1. Shape /\ Top(c) \in Calls
    BY TopType DEF StackIInv
  <1>2. CASE Pop(c, FALSE)
    BY <1>2, PopSound
  <1>3. CASE stack' = [stack EXCEPT ![c] = <<[Call(Top(c).kind, "read_only", 0, Top(c).meta)
                                             EXCEPT !.cancelled = CtxDone(c)]>>]
    <2> DEFINE base == Call(Top(c).kind, "read_only", 0, Top(c).meta)
               call == [base EXCEPT !.cancelled = CtxDone(c)]
    <2>1. /\ Top(c).kind \in {"tx", "statement", "ping", "scrape"}
          /\ "read_only" \in Role /\ 0 \in 0..MaxTx /\ Top(c).meta \in Metas
      BY <1>1, BoundsAssumption DEF Calls, Role
    <2>2. /\ base \in Calls /\ base.kind = Top(c).kind /\ base.id = 0
          /\ base.at = "acquiring" /\ base.conn = "none"
      BY <2>1, CallType
    <2>3. CtxDone(c) \in BOOLEAN
      BY DEF CtxDone
    <2>4. \A x \in Calls, b \in BOOLEAN :
            LET y == [x EXCEPT !.cancelled = b]
            IN  /\ y \in Calls /\ y.kind = x.kind /\ y.id = x.id
                /\ y.at = x.at /\ y.conn = x.conn
      BY DEF Calls
    <2> HIDE DEF base
    <2>5. /\ call \in Calls /\ call.kind # "tx" /\ call.id = 0
          /\ call.at = "acquiring" /\ call.conn = "none"
      BY <2>2, <2>3, <2>4
    <2>6. stack' = [stack EXCEPT ![c] = <<call>>]
      BY <1>3 DEF base
    <2> HIDE DEF call
    <2>7. QED
      BY <2>5, <2>6, RenewSound
  <1>4. QED
    BY <1>2, <1>3 DEF NextPool

\* The innermost call, as the invariant has it.
LEMMA TopSound ==
    ASSUME StackIInv, NEW c \in Callers, stack[c] # <<>>
    PROVE  /\ Len(stack[c]) \in 1..(MaxDepth + 1)
           /\ Top(c) = stack[c][Len(stack[c])]
           /\ Top(c) \in Calls
           /\ Top(c).conn = "none" <=> Top(c).at = "acquiring"
           /\ Top(c).conn \in OpenConns <=> Top(c).at \in OpenAts
           /\ Top(c).kind = "tx" => Top(c).id \in 1..started
           /\ Top(c).kind # "tx" => Top(c).id = 0 /\ Len(stack[c]) = 1
                                    /\ Top(c).at \in {"acquiring", "acquired"}
  <1>1. /\ Len(stack[c]) \in 1..(MaxDepth + 1)
        /\ Top(c) = stack[c][Len(stack[c])]
        /\ Top(c) \in Calls
    BY TopType DEF StackIInv
  <1>2. Sound(stack[c], Len(stack[c]), started)
    BY <1>1, SoundCalls
  <1>3. QED
    BY <1>1, <1>2 DEF Sound

\* execute and the other calls begin on top.
LEMMA DoEffect ==
    ASSUME StackIInv, NEW c \in Callers, NEW m \in Metas, Do(c, m)
    PROVE  StackIInv' /\ \E call \in Calls : call.conn = "none" /\ call.id = started' /\ Pushed(c, call)
  <1> DEFINE call == Call("tx", "master", started', m)
  <1>1. /\ stack[c] = <<>> \/ InTx(c)
        /\ Len(stack[c]) < MaxDepth /\ started < MaxTx /\ started' = started + 1
        /\ Push(c, call)
    BY DEF Do
  <1>2. started' \in 0..MaxTx /\ "master" \in Role
    BY <1>1, BoundsAssumption DEF StackIInv, Shape, Role
  <1>3. /\ call \in Calls /\ call.kind = "tx" /\ call.id = started'
        /\ call.at = "acquiring" /\ call.conn = "none"
    BY <1>2, CallType
  <1> HIDE DEF call
  <1>4. Len(stack[c]) <= MaxDepth
    BY <1>1, SoundCalls, BoundsAssumption
  <1>5. StackIInv' /\ Pushed(c, call)
    BY <1>1, <1>2, <1>3, <1>4, PushSound
  <1>6. QED
    BY <1>3, <1>5

LEMMA BeginEffect ==
    ASSUME StackIInv, NEW c \in Callers, NEW kind \in {"statement", "ping", "scrape"},
           NEW role \in Role, Begin(c, kind, role)
    PROVE  StackIInv' /\ \E call \in Calls : call.conn = "none" /\ call.id = 0 /\ Pushed(c, call)
  <1> DEFINE call == Call(kind, role, 0, DoMeta)
  <1>1. stack[c] = <<>> /\ started' = started /\ Push(c, call)
    BY DEF Begin, txs
  <1>2. started' \in 0..MaxTx /\ 0 \in 0..MaxTx /\ DoMeta \in Metas
    BY <1>1, BoundsAssumption DEF StackIInv, Shape, Metas
  <1>3. /\ call \in Calls /\ call.kind # "tx" /\ call.id = 0
        /\ call.at = "acquiring" /\ call.conn = "none"
    BY <1>2, CallType
  <1> HIDE DEF call
  <1>4. Len(stack[c]) <= MaxDepth
    BY <1>1, BoundsAssumption
  <1>5. StackIInv' /\ Pushed(c, call)
    BY <1>1, <1>2, <1>3, <1>4, PushSound
  <1>6. QED
    BY <1>3, <1>5

\* pool.Acquire gives the innermost call its connection, or the call ends.
LEMMA AcquireEffect ==
    ASSUME StackIInv, NEW c \in Callers, Acquire(c)
    PROVE  StackIInv' /\ Top(c).conn = "none" /\ TopSet(c, "acquired", "idle")
  <1>1. stack[c] # <<>> /\ Top(c).at = "acquiring" /\ SetTop(c, "acquired", "idle") /\ started' = started
    BY DEF Acquire, txs
  <1>2. "acquired" \in Ats /\ "idle" \in Conns /\ "idle" \notin OpenConns /\ "acquired" \notin OpenAts
    BY DEF Ats, Conns, OpenConns, OpenAts
  <1>3. Top(c).conn = "none"
    BY <1>1, TopSound
  <1>4. QED
    BY <1>1, <1>2, <1>3, SetTopSound

LEMMA AcquireFailsEffect ==
    ASSUME StackIInv, NEW c \in Callers, AcquireFails(c)
    PROVE  /\ StackIInv' /\ stack[c] # <<>> /\ Top(c).conn = "none"
           /\ \/ Popped(c)
              \/ Top(c).kind # "tx" /\ \E call \in Calls : call.conn = "none" /\ call.id = 0 /\ Renewed(c, call)
  <1>1. stack[c] # <<>> /\ Top(c).at = "acquiring" /\ GiveUp(c) /\ started' = started
    BY DEF AcquireFails, GiveUp
  <1>2. Top(c).conn = "none"
    BY <1>1, TopSound
  <1>3. CASE Top(c).kind = "tx"
    BY <1>1, <1>2, <1>3, PopSound DEF GiveUp
  <1>4. CASE Top(c).kind # "tx"
    BY <1>1, <1>2, <1>4, NextPoolSound DEF GiveUp
  <1>5. QED
    BY <1>3, <1>4

\* A query has a connection of its own, and gives it back.
LEMMA QueryEffect ==
    ASSUME StackIInv, NEW c \in Callers, Query(c)
    PROVE  /\ StackIInv' /\ stack[c] # <<>> /\ Top(c).conn = "idle" /\ Top(c).kind # "tx"
           /\ Popped(c) \/ \E call \in Calls : call.conn = "none" /\ call.id = 0 /\ Renewed(c, call)
  <1>1. stack[c] # <<>> /\ Top(c).kind # "tx" /\ Top(c).at = "acquired" /\ started' = started
    BY DEF Query, txs
  <1>2. Top(c).conn = "idle" /\ Top(c) \in Calls /\ Top(c).id = 0 /\ Top(c) = stack[c][1]
    BY <1>1, TopSound DEF OpenConns, OpenAts, Calls
  <1>3. CASE NextPool(c, FALSE) \/ NextPool(c, TRUE)
    BY <1>1, <1>2, <1>3, NextPoolSound
  <1>4. CASE Top(c).left > 1 /\ stack' = [stack EXCEPT ![c] = <<NextQuery(Top(c))>>]
    <2> DEFINE call == NextQuery(Top(c))
    <2>1. Top(c).left - 1 \in 1..ScrapeQueries
      BY <1>2, <1>4, ScrapeQueriesAssumption DEF Calls
    <2>2. /\ call \in Calls /\ call.kind = Top(c).kind /\ call.id = Top(c).id
          /\ call.at = "acquiring" /\ call.conn = "none"
      BY <1>2, <2>1 DEF Calls, NextQuery
    <2> HIDE DEF call
    <2>3. stack' = [stack EXCEPT ![c] = <<call>>]
      BY <1>4 DEF call
    <2>4. QED
      BY <1>1, <1>2, <2>2, <2>3, RenewSound
  <1>5. QED
    BY <1>3, <1>4 DEF Query

\* Begin, and what becomes of the transaction until its outcome is known.
LEMMA BeginTxEffect ==
    ASSUME StackIInv, NEW c \in Callers, BeginTx(c)
    PROVE  /\ StackIInv' /\ stack[c] # <<>> /\ Top(c).conn = "idle"
           /\ TopSet(c, "callback", "tx")
  <1>1. stack[c] # <<>> /\ Top(c).at = "acquired" /\ Top(c).kind = "tx" /\ started' = started
        /\ SetTop(c, "callback", "tx")
    BY DEF BeginTx, At
  <1>2. Top(c).conn = "idle"
    BY <1>1, TopSound DEF OpenConns, OpenAts, Calls
  <1>3. /\ "callback" \in Ats /\ "tx" \in Conns
        /\ "tx" \in OpenConns /\ "callback" \in OpenAts
    BY DEF Ats, Conns, OpenConns, OpenAts
  <1>4. QED
    BY <1>1, <1>2, <1>3, SetTopSound

LEMMA InCallbackEffect ==
    ASSUME StackIInv, NEW c \in Callers, StatementFails(c) \/ CallbackReturns(c)
    PROVE  /\ StackIInv' /\ stack[c] # <<>> /\ Top(c).conn \in OpenConns
           /\ \E at \in OpenAts, conn \in OpenConns : TopSet(c, at, conn)
  <1>1. stack[c] # <<>> /\ Top(c).at = "callback" /\ Top(c).kind = "tx" /\ started' = started
    BY DEF StatementFails, CallbackReturns, InTx, txs
  <1>2. Top(c).conn \in OpenConns
    BY <1>1, TopSound DEF OpenAts
  <1>3. PICK at \in OpenAts, conn \in OpenConns : SetTop(c, at, conn)
    <2>1. CASE StatementFails(c)
      BY <2>1 DEF StatementFails, OpenAts, OpenConns
    <2>2. CASE CallbackReturns(c)
      BY <1>2, <2>2 DEF CallbackReturns, OpenAts
    <2>3. QED
      BY <2>1, <2>2
  <1>4. at \in Ats /\ conn \in Conns /\ conn # "none" /\ at # "acquiring"
    BY DEF Ats, Conns, OpenConns, OpenAts
  <1>5. StackIInv' /\ TopSet(c, at, conn)
    BY <1>1, <1>3, <1>4, SetTopSound
  <1>6. QED
    BY <1>1, <1>2, <1>5

\* The outcome is known: the call ends, whose connection and transaction were open.
Ends(c) == Commit(c) \/ CommitFails(c) \/ Rollback(c) \/ RollbackFails(c) \/ PanicRollback(c)

LEMMA EndsEffect ==
    ASSUME StackIInv, NEW c \in Callers, Ends(c)
    PROVE  /\ StackIInv' /\ stack[c] # <<>> /\ Top(c).kind = "tx"
           /\ Top(c).conn \in OpenConns /\ Popped(c)
           /\ started' = started
           /\ \E outcome \in Outcome, panics \in BOOLEAN : Leave(c, outcome, panics)
  <1>1. stack[c] # <<>> /\ Top(c).at \in OpenAts /\ Top(c).kind = "tx"
    BY DEF Ends, Commit, CommitFails, Rollback, RollbackFails, PanicRollback, At, OpenAts
  <1>2. PICK outcome \in Outcome, panics \in BOOLEAN : Leave(c, outcome, panics)
    BY DEF Ends, Commit, CommitFails, Rollback, RollbackFails, PanicRollback, Outcome
  <1>3. started' = started /\ Pop(c, panics)
    BY <1>2 DEF Leave
  <1>4. QED
    BY <1>1, <1>2, <1>3, TopSound, PopSound

LEMMA BeginTxFailsEffect ==
    ASSUME StackIInv, NEW c \in Callers, BeginTxFails(c)
    PROVE  /\ StackIInv' /\ stack[c] # <<>> /\ Top(c).kind = "tx"
           /\ Top(c).conn = "idle" /\ Popped(c)
  <1>1. stack[c] # <<>> /\ Top(c).at = "acquired" /\ Top(c).kind = "tx" /\ started' = started
        /\ Pop(c, FALSE)
    BY DEF BeginTxFails, At
  <1>2. Top(c).conn = "idle"
    BY <1>1, TopSound DEF OpenConns, OpenAts, Calls
  <1>3. QED
    BY <1>1, <1>2, PopSound

\* What leaves the stacks alone.
LEMMA SameStack ==
    ASSUME StackIInv, stack' = stack, started' \in 0..MaxTx, started <= started'
    PROVE  StackIInv'
  <1>1. \A c \in Callers : \A i \in DOMAIN stack[c] :
           stack[c][i].kind = "tx" => stack[c][i].id \in 1..started
    BY DEF StackIInv, StackInv
  <1>2. started \in Nat /\ started' \in Nat
    BY BoundsAssumption DEF StackIInv, Shape
  <1>3. \A c \in Callers : \A i \in DOMAIN stack[c] :
           stack[c][i].kind = "tx" => stack[c][i].id \in 1..started'
    BY <1>1, <1>2
  <1>4. Shape'
    BY DEF StackIInv, Shape
  <1>5. StackInv'
    BY <1>3 DEF StackIInv, StackInv
  <1>6. IdInv'
    BY DEF StackIInv, IdInv
  <1>7. QED
    BY <1>4, <1>5, <1>6 DEF StackIInv

\* The steps of the manager and the pools, and the statements of a transaction.
Quiet ==
    \/ NewMaster \/ NewReadOnly \/ RegisterCollector
    \/ Close \/ \E r \in Role : CloseReturns(r)
    \/ \E c \in Callers : Statement(c) \/ DoWithoutPool(c)

LEMMA QuietEffect ==
    ASSUME StackIInv, Quiet
    PROVE  StackIInv' /\ stack' = stack
  <1>1. stack' = stack
    BY DEF Quiet, NewMaster, NewReadOnly, RegisterCollector, Close, CloseReturns,
           Statement, DoWithoutPool, txs
  <1>2. started' = started \/ (started < MaxTx /\ started' = started + 1)
    BY DEF Quiet, NewMaster, NewReadOnly, RegisterCollector, Close, CloseReturns,
           Statement, DoWithoutPool, txs
  <1>3. started' \in 0..MaxTx /\ started <= started'
    BY <1>2, BoundsAssumption DEF StackIInv, Shape
  <1>4. QED
    BY <1>1, <1>3, SameStack

\* The steps of Next, as the proofs below take them.
LEMMA Cases ==
    ASSUME [Next]_vars
    PROVE  \/ Quiet \/ UNCHANGED vars
           \/ \E c \in Callers :
                \/ \E m \in Metas : Do(c, m)
                \/ \E kind \in {"statement", "ping", "scrape"}, r \in Role : Begin(c, kind, r)
                \/ Acquire(c) \/ AcquireFails(c) \/ Query(c)
                \/ BeginTx(c) \/ BeginTxFails(c)
                \/ StatementFails(c) \/ CallbackReturns(c)
                \/ Ends(c) \/ CancelContext(c)
  BY DEF Next, Step, Quiet, Ends

LEMMA StackInit == Init => StackIInv
  <1> SUFFICES ASSUME Init PROVE StackIInv
    OBVIOUS
  <1>1. \A c \in Callers : stack[c] = <<>> /\ stack[c] \in Seq(Calls) /\ DOMAIN stack[c] = {}
    BY DEF Init
  <1>2. Shape
    BY <1>1, BoundsAssumption DEF Init, Shape
  <1>3. StackInv /\ IdInv
    BY <1>1 DEF StackInv, IdInv
  <1>4. QED
    BY <1>2, <1>3 DEF StackIInv

LEMMA StackNext == StackIInv /\ [Next]_vars => StackIInv'
  <1> SUFFICES ASSUME StackIInv, [Next]_vars PROVE StackIInv'
    OBVIOUS
  <1>1. CASE UNCHANGED vars
    BY <1>1, SameStack, BoundsAssumption DEF vars, txs, StackIInv, Shape
  <1>2. QED
    BY <1>1, Cases, QuietEffect, DoEffect, BeginEffect, AcquireEffect, AcquireFailsEffect,
       QueryEffect, BeginTxEffect, BeginTxFailsEffect, InCallbackEffect, EndsEffect, CancelSound

-----------------------------------------------------------------------------
(* Counting calls.                                                         *)

\* The places of calls that are in K.
In(K) == {s \in Slots : s[2] \in 1..Len(stack[s[1]]) /\ stack[s[1]][s[2]] \in K}

\* The number of calls in K goes from a state with the call in question in K or
\* not (was) to one with it in K or not (is).
Counts(K, was, is) ==
    /\ (was <=> is) => Cardinality(In(K)') = Cardinality(In(K))
    /\ is /\ ~was => Cardinality(In(K)') = Cardinality(In(K)) + 1
    /\ was /\ ~is => Cardinality(In(K)') = Cardinality(In(K)) - 1

\* The sets of calls that are counted depend on the role, the labels and the
\* connection of a call only, so neither on a panic nor on the context.
Steady(K) ==
    \A x, y \in Calls : x.role = y.role /\ x.meta = y.meta /\ x.conn = y.conn
                           => (x \in K <=> y \in K)

LEMMA SteadySteps ==
    ASSUME NEW x \in Calls, NEW K, Steady(K)
    PROVE  /\ [x EXCEPT !.at = "panicked"] \in K <=> x \in K
           /\ [x EXCEPT !.cancelled = TRUE] \in K <=> x \in K
  <1>1. \A z \in Calls : LET y == [z EXCEPT !.at = "panicked"]
                         IN y \in Calls /\ y.role = z.role /\ y.meta = z.meta /\ y.conn = z.conn
    BY DEF Calls
  <1>2. \A z \in Calls : LET y == [z EXCEPT !.cancelled = TRUE]
                         IN y \in Calls /\ y.role = z.role /\ y.meta = z.meta /\ y.conn = z.conn
    BY DEF Calls
  <1> DEFINE panicked == [x EXCEPT !.at = "panicked"]
             cancelled == [x EXCEPT !.cancelled = TRUE]
  <1>3. /\ panicked \in Calls /\ panicked.role = x.role
        /\ panicked.meta = x.meta /\ panicked.conn = x.conn
    BY <1>1
  <1>4. /\ cancelled \in Calls /\ cancelled.role = x.role
        /\ cancelled.meta = x.meta /\ cancelled.conn = x.conn
    BY <1>2
  <1> HIDE DEF panicked, cancelled
  <1>5. (panicked \in K <=> x \in K) /\ (cancelled \in K <=> x \in K)
    BY <1>3, <1>4 DEF Steady
  <1>6. QED
    BY <1>5 DEF panicked, cancelled

LEMMA FiniteSlots == IsFiniteSet(Slots)
  <1>1. 1 \in Int /\ MaxDepth + 1 \in Int
    BY BoundsAssumption
  <1>2. IsFiniteSet(1..(MaxDepth + 1))
    BY <1>1, FS_Interval
  <1>3. QED
    BY <1>2, CallersAssumption, FS_Product DEF Slots

LEMMA FiniteIn ==
    ASSUME NEW K
    PROVE  IsFiniteSet(In(K)) /\ Cardinality(In(K)) \in Nat
  <1>1. In(K) \in SUBSET Slots
    BY DEF In
  <1>2. QED
    BY <1>1, FiniteSlots, FS_Subset, FS_CardinalityType

\* One place changes.
LEMMA CountOne ==
    ASSUME StackIInv, NEW c \in Callers, Others(c), Len(stack'[c]) <= MaxDepth + 1,
           NEW K, NEW n \in 1..(MaxDepth + 1),
           \A i \in 1..(MaxDepth + 1) : i # n =>
              (i \in 1..Len(stack'[c]) /\ stack'[c][i] \in K
                <=> i \in 1..Len(stack[c]) /\ stack[c][i] \in K)
    PROVE  Counts(K, n \in 1..Len(stack[c]) /\ stack[c][n] \in K,
                     n \in 1..Len(stack'[c]) /\ stack'[c][n] \in K)
  <1> DEFINE was == n \in 1..Len(stack[c]) /\ stack[c][n] \in K
             is == n \in 1..Len(stack'[c]) /\ stack'[c][n] \in K
             slot == <<c, n>>
  <1>1. slot \in Slots
    BY DEF Slots
  <1>2. slot \in In(K) <=> was
    BY <1>1 DEF In
  <1>3. slot \in In(K)' <=> is
    BY <1>1 DEF In, Slots
  <1>4. ASSUME NEW s \in Slots, s # slot PROVE s \in In(K)' <=> s \in In(K)
    <2>1. s[1] \in Callers /\ s[2] \in 1..(MaxDepth + 1) /\ s = <<s[1], s[2]>>
      BY DEF Slots
    <2>2. CASE s[1] = c
      <3>1. s[2] # n
        BY <2>1, <2>2, <1>4
      <3>2. s[2] \in 1..Len(stack'[c]) /\ stack'[c][s[2]] \in K
              <=> s[2] \in 1..Len(stack[c]) /\ stack[c][s[2]] \in K
        BY <2>1, <3>1
      <3>3. QED
        BY <2>2, <3>2 DEF In, Slots
    <2>3. CASE s[1] # c
      BY <2>1, <2>3 DEF In, Slots, Others
    <2>4. QED
      BY <2>2, <2>3
  <1>5. In(K) \subseteq Slots /\ In(K)' \subseteq Slots
    BY DEF In, Slots
  <1>6. IsFiniteSet(In(K)) /\ Cardinality(In(K)) \in Nat
    BY FiniteIn
  <1> HIDE DEF was, is, slot
  <1>7. CASE was <=> is
    <2>1. \A s \in Slots : s \in In(K)' <=> s \in In(K)
      BY <1>2, <1>3, <1>4, <1>7
    <2>2. In(K)' = In(K)
      BY <1>5, <2>1
    <2>3. QED
      BY <2>2, <1>7 DEF Counts, was, is
  <1>8. CASE is /\ ~was
    <2>1. In(K)' = In(K) \cup {slot} /\ slot \notin In(K)
      BY <1>1, <1>2, <1>3, <1>4, <1>5, <1>8
    <2>2. QED
      BY <2>1, <1>6, <1>8, FS_AddElement DEF Counts, was, is
  <1>9. CASE was /\ ~is
    <2>1. In(K)' = In(K) \ {slot} /\ slot \in In(K)
      BY <1>1, <1>2, <1>3, <1>4, <1>5, <1>9
    <2>2. QED
      BY <2>1, <1>6, <1>9, FS_RemoveElement DEF Counts, was, is
  <1>10. QED
    BY <1>7, <1>8, <1>9

\* The operations on stacks, counted.
LEMMA CountTopSet ==
    ASSUME StackIInv, NEW c \in Callers, stack[c] # <<>>, NEW at, NEW conn,
           TopSet(c, at, conn), NEW K
    PROVE  Counts(K, Top(c) \in K, [Top(c) EXCEPT !.at = at, !.conn = conn] \in K)
  <1> DEFINE n == Len(stack[c])
             new == [Top(c) EXCEPT !.at = at, !.conn = conn]
  <1>1. n \in 1..(MaxDepth + 1) /\ Top(c) = stack[c][n]
    BY TopSound
  <1>2. Others(c) /\ Len(stack'[c]) = n
        /\ \A i \in 1..n : stack'[c][i] = IF i = n THEN new ELSE stack[c][i]
    BY DEF TopSet
  <1> HIDE DEF new
  <1>3. n \in 1..n /\ stack'[c][n] = new
    BY <1>1, <1>2
  <1>4. n <= MaxDepth + 1
    BY <1>1, BoundsAssumption
  <1>5. \A i \in 1..(MaxDepth + 1) : i # n =>
          (i \in 1..Len(stack'[c]) /\ stack'[c][i] \in K
             <=> i \in 1..Len(stack[c]) /\ stack[c][i] \in K)
    BY <1>2
  <1>6. Counts(K, n \in 1..Len(stack[c]) /\ stack[c][n] \in K,
                  n \in 1..Len(stack'[c]) /\ stack'[c][n] \in K)
    BY <1>1, <1>2, <1>4, <1>5, CountOne
  <1>7. QED
    BY <1>1, <1>2, <1>3, <1>6 DEF new, Counts

LEMMA CountPushed ==
    ASSUME StackIInv, StackIInv', NEW c \in Callers, NEW call \in Calls, Pushed(c, call), NEW K
    PROVE  Counts(K, FALSE, call \in K)
  <1> DEFINE n == Len(stack[c]) + 1
  <1>1. /\ Others(c) /\ Len(stack'[c]) = n /\ stack'[c][n] = call
        /\ \A i \in 1..Len(stack[c]) : stack'[c][i] = stack[c][i]
    BY DEF Pushed
  <1>2. Len(stack[c]) \in Nat /\ Len(stack'[c]) <= MaxDepth + 1
    BY SoundCalls DEF StackIInv, Shape
  <1>3. n \in 1..(MaxDepth + 1) /\ n \notin 1..Len(stack[c]) /\ n \in 1..n
    BY <1>1, <1>2, BoundsAssumption
  <1>4. \A i \in 1..(MaxDepth + 1) : i # n =>
          (i \in 1..Len(stack'[c]) /\ stack'[c][i] \in K
             <=> i \in 1..Len(stack[c]) /\ stack[c][i] \in K)
    BY <1>1, <1>2
  <1>5. Counts(K, n \in 1..Len(stack[c]) /\ stack[c][n] \in K,
                  n \in 1..Len(stack'[c]) /\ stack'[c][n] \in K)
    BY <1>1, <1>2, <1>3, <1>4, CountOne
  <1>6. QED
    BY <1>1, <1>3, <1>5 DEF Counts

LEMMA CountPopped ==
    ASSUME StackIInv, NEW c \in Callers, stack[c] # <<>>, Popped(c), NEW K, Steady(K)
    PROVE  Counts(K, Top(c) \in K, FALSE)
  <1> DEFINE n == Len(stack[c])
  <1>1. n \in 1..(MaxDepth + 1) /\ Top(c) = stack[c][n]
        /\ \A i \in 1..n : stack[c][i] \in Calls
    BY TopSound, SoundCalls
  <1>2. Others(c) /\ Len(stack'[c]) = n - 1
    BY DEF Popped
  <1>3. n \in 1..n /\ n \notin 1..Len(stack'[c]) /\ Len(stack'[c]) <= MaxDepth + 1
    BY <1>1, <1>2, BoundsAssumption
  <1>4. ASSUME NEW i \in 1..(n - 1)
        PROVE  i \in 1..n /\ (stack'[c][i] \in K <=> stack[c][i] \in K)
    <2>1. i \in 1..n
      BY <1>1
    <2>2. \/ stack'[c][i] = stack[c][i]
          \/ stack'[c][i] = [stack[c][i] EXCEPT !.at = "panicked"]
      BY DEF Popped
    <2>3. stack[c][i] \in Calls
      BY <1>1, <2>1
    <2>4. [stack[c][i] EXCEPT !.at = "panicked"] \in K <=> stack[c][i] \in K
      BY <2>3, SteadySteps
    <2>5. QED
      BY <2>1, <2>2, <2>4
  <1>5. \A i \in 1..(MaxDepth + 1) : i # n =>
          (i \in 1..Len(stack'[c]) /\ stack'[c][i] \in K
             <=> i \in 1..Len(stack[c]) /\ stack[c][i] \in K)
    BY <1>1, <1>2, <1>4
  <1>6. Counts(K, n \in 1..Len(stack[c]) /\ stack[c][n] \in K,
                  n \in 1..Len(stack'[c]) /\ stack'[c][n] \in K)
    BY <1>1, <1>2, <1>3, <1>5, CountOne
  <1>7. QED
    BY <1>1, <1>2, <1>3, <1>6 DEF Counts

LEMMA CountRenewed ==
    ASSUME StackIInv, NEW c \in Callers, stack[c] # <<>>, Top(c).kind # "tx",
           NEW call \in Calls, Renewed(c, call), NEW K
    PROVE  Counts(K, Top(c) \in K, call \in K)
  <1>1. Len(stack[c]) = 1 /\ Top(c) = stack[c][1]
    BY TopSound
  <1>2. Others(c) /\ Len(stack'[c]) = 1 /\ stack'[c][1] = call
    BY DEF Renewed
  <1>3. 1 \in 1..(MaxDepth + 1) /\ Len(stack'[c]) <= MaxDepth + 1 /\ 1 \in 1..1
    BY <1>2, BoundsAssumption
  <1>4. \A i \in 1..(MaxDepth + 1) : i # 1 =>
          (i \in 1..Len(stack'[c]) /\ stack'[c][i] \in K
             <=> i \in 1..Len(stack[c]) /\ stack[c][i] \in K)
    BY <1>1, <1>2
  <1>5. Counts(K, 1 \in 1..Len(stack[c]) /\ stack[c][1] \in K,
                  1 \in 1..Len(stack'[c]) /\ stack'[c][1] \in K)
    BY <1>2, <1>3, <1>4, CountOne
  <1>6. QED
    BY <1>1, <1>2, <1>3, <1>5 DEF Counts

LEMMA CountCancelled ==
    ASSUME StackIInv, NEW c \in Callers, Cancelled(c), NEW K, Steady(K)
    PROVE  Counts(K, FALSE, FALSE)
  <1> DEFINE n == Len(stack[c])
  <1>1. n \in Nat /\ n <= MaxDepth + 1 /\ \A i \in 1..n : stack[c][i] \in Calls
    BY SoundCalls
  <1>2. Others(c) /\ Len(stack'[c]) = n
    BY DEF Cancelled
  <1>3. ASSUME NEW i \in 1..n PROVE stack'[c][i] \in K <=> stack[c][i] \in K
    <2>1. \/ stack'[c][i] = stack[c][i]
          \/ stack'[c][i] = [stack[c][i] EXCEPT !.cancelled = TRUE]
      BY DEF Cancelled
    <2>2. stack[c][i] \in Calls
      BY <1>1
    <2>3. [stack[c][i] EXCEPT !.cancelled = TRUE] \in K <=> stack[c][i] \in K
      BY <2>2, SteadySteps
    <2>4. QED
      BY <2>1, <2>3
  <1>4. \A i \in 1..(MaxDepth + 1) :
          (i \in 1..Len(stack'[c]) /\ stack'[c][i] \in K
             <=> i \in 1..Len(stack[c]) /\ stack[c][i] \in K)
    BY <1>2, <1>3
  <1>5. 1 \in 1..(MaxDepth + 1)
    BY BoundsAssumption
  <1>6. Counts(K, 1 \in 1..Len(stack[c]) /\ stack[c][1] \in K,
                  1 \in 1..Len(stack'[c]) /\ stack'[c][1] \in K)
    BY <1>1, <1>2, <1>4, <1>5, CountOne
  <1>7. QED
    BY <1>4, <1>5, <1>6 DEF Counts

LEMMA CountSame ==
    ASSUME stack' = stack, NEW K
    PROVE  Counts(K, FALSE, FALSE)
  BY DEF Counts, In

\* The calls that hold a connection of a role, and those with an open transaction.
HeldCalls(role) == {x \in Calls : x.role = role /\ x.conn # "none"}
OpenCalls(meta) == {x \in Calls : x.meta = meta /\ x.conn \in OpenConns}

LEMMA CountedSets ==
    Shape => /\ \A r \in Role : HeldIn(r) = In(HeldCalls(r))
             /\ \A m \in Metas : OpenWith(m) = In(OpenCalls(m))
  <1> SUFFICES ASSUME Shape
               PROVE  /\ \A r \in Role : HeldIn(r) = In(HeldCalls(r))
                      /\ \A m \in Metas : OpenWith(m) = In(OpenCalls(m))
    OBVIOUS
  <1>1. \A s \in Slots : s[1] \in Callers
    BY DEF Slots
  <1>2. \A c \in Callers : /\ DOMAIN stack[c] = 1..Len(stack[c])
                           /\ \A i \in 1..Len(stack[c]) : stack[c][i] \in Calls
    BY DEF Shape
  <1>3. ASSUME NEW r \in Role PROVE HeldIn(r) = In(HeldCalls(r))
    BY <1>1, <1>2 DEF HeldIn, Holds, In, HeldCalls
  <1>4. ASSUME NEW m \in Metas PROVE OpenWith(m) = In(OpenCalls(m))
    BY <1>1, <1>2 DEF OpenWith, IsOpenWith, In, OpenCalls, OpenConns
  <1>5. QED
    BY <1>3, <1>4

LEMMA SteadySets ==
    /\ \A r \in Role : Steady(HeldCalls(r))
    /\ \A m \in Metas : Steady(OpenCalls(m))
  BY DEF Steady, HeldCalls, OpenCalls

-----------------------------------------------------------------------------
(* The pools.                                                              *)

PoolsInv ==
    /\ phase \in {"new", "master", "pools", "ready", "failed", "closing", "closed"}
    /\ pool \in [Role -> {"none", "open", "closing", "closed"}]
    /\ size \in [Role -> 0..PoolSize]
    /\ PoolInv

LEMMA PoolsInit == Init => PoolsInv
  BY PoolSizeAssumption DEF Init, PoolsInv, PoolInv, Role

LEMMA PoolsNext == PoolsInv /\ [Next]_vars => PoolsInv'
  <1> SUFFICES ASSUME PoolsInv, [Next]_vars PROVE PoolsInv'
    OBVIOUS
  <1>1. CASE UNCHANGED <<phase, pool, size>>
    BY <1>1 DEF PoolsInv, PoolInv
  <1>2. PoolSize \in 0..PoolSize /\ PoolSize # 0
    BY PoolSizeAssumption
  <1>3. CASE NewMaster
    BY <1>2, <1>3 DEF PoolsInv, PoolInv, NewMaster, NewPool, Role
  <1>4. CASE NewReadOnly
    BY <1>2, <1>4 DEF PoolsInv, PoolInv, NewReadOnly, NewPool, Role
  <1>5. CASE RegisterCollector
    BY <1>5 DEF PoolsInv, PoolInv, RegisterCollector, Role
  <1>6. CASE Close
    BY <1>6, DedicatedAssumption DEF PoolsInv, PoolInv, Close, CloseOrder, Role
  <1>7. CASE \E r \in Role : CloseReturns(r)
    <2>1. CASE CloseReturns("master")
      BY <2>1, DedicatedAssumption DEF PoolsInv, PoolInv, CloseReturns, Role
    <2>2. CASE CloseReturns("read_only")
      <3>1. /\ pool["read_only"] = "closing" /\ phase = "closing"
            /\ pool' = [pool EXCEPT !["read_only"] = "closed", !["master"] = "closing"]
            /\ phase' = phase /\ size' = size
        BY <2>2 DEF PoolsInv, PoolInv, CloseReturns, Role
      <3>2. /\ pool'["read_only"] = "closed" /\ pool'["master"] = "closing"
            /\ pool' \in [Role -> {"none", "open", "closing", "closed"}]
        BY <3>1 DEF PoolsInv, Role
      <3>3. pool["master"] # "none"
        BY <3>1 DEF PoolsInv, PoolInv
      <3>4. PoolInv'
        BY <3>1, <3>2, <3>3 DEF PoolsInv, PoolInv, Role
      <3>5. QED
        BY <3>1, <3>2, <3>4 DEF PoolsInv
    <2>3. QED
      BY <1>7, <2>1, <2>2 DEF Role
  <1>8. CASE \E c \in Callers :
                \/ Step(c) \/ Statement(c) \/ StatementFails(c) \/ CancelContext(c)
                \/ DoWithoutPool(c)
                \/ \E m \in Metas : Do(c, m)
                \/ \E kind \in {"statement", "ping", "scrape"}, r \in Role : Begin(c, kind, r)
    <2>1. UNCHANGED <<phase, pool, size>>
      BY <1>8 DEF pools, Step, Acquire, AcquireFails, GiveUp, Query, BeginTx, BeginTxFails,
             CallbackReturns, Commit, CommitFails, Rollback, RollbackFails, PanicRollback,
             Leave, Statement, StatementFails, CancelContext, DoWithoutPool, Do, Begin
    <2>2. QED
      BY <2>1, <1>1
  <1>9. CASE UNCHANGED vars
    BY <1>1, <1>9 DEF vars, pools
  <1>10. QED
    BY <1>3, <1>4, <1>5, <1>6, <1>7, <1>8, <1>9 DEF Next

-----------------------------------------------------------------------------
(* Every connection is free or held, through every path of execute.        *)

FreeType == free \in [Role -> 0..PoolSize]
Held(r) == Cardinality(In(HeldCalls(r)))
Conserved == \A r \in Role : free[r] + Held(r) = size[r]

\* A step keeps the sum when the free connections and the calls that hold one
\* change together.
LEMMA SumKept ==
    ASSUME FreeType, Conserved, PoolsInv, size' = size, NEW r \in Role,
           free'[r] \in Nat, free'[r] - free[r] = Held(r) - Held(r)'
    PROVE  free'[r] \in 0..PoolSize /\ free'[r] + Held(r)' = size'[r]
  <1>1. Held(r) \in Nat /\ Held(r)' \in Nat
    <2>1. Cardinality(In(HeldCalls(r))) \in Nat
      BY FiniteIn
    <2>2. IsFiniteSet(In(HeldCalls(r))')
      <3>1. In(HeldCalls(r))' \in SUBSET Slots
        BY DEF In, Slots
      <3>2. QED
        BY <3>1, FiniteSlots, FS_Subset
    <2>3. Cardinality(In(HeldCalls(r))') \in Nat
      BY <2>2, FS_CardinalityType
    <2>4. QED
      BY <2>1, <2>3 DEF Held
  <1>2. free[r] \in 0..PoolSize /\ size[r] \in 0..PoolSize /\ free[r] + Held(r) = size[r]
    BY DEF FreeType, Conserved, PoolsInv
  <1> DEFINE f == free[r]
             g == free'[r]
             h == Held(r)
             i == Held(r)'
             s == size[r]
  <1>3. h \in Nat /\ i \in Nat /\ g \in Nat
    BY <1>1
  <1>4. f \in 0..PoolSize /\ s \in 0..PoolSize /\ f + h = s
    BY <1>2
  <1>5. g - f = h - i
    OBVIOUS
  <1>6. size'[r] = s
    OBVIOUS
  <1> HIDE DEF f, g, h, i, s
  <1>7. g + i = s /\ g \in 0..PoolSize
    BY <1>3, <1>4, <1>5, PoolSizeAssumption
  <1>8. QED
    BY <1>6, <1>7 DEF g, i

\* Nothing is acquired or released.
LEMMA HeldSame ==
    ASSUME FreeType, Conserved, PoolsInv, UNCHANGED <<size, free>>,
           \A r \in Role : Counts(HeldCalls(r), FALSE, FALSE)
    PROVE  FreeType' /\ Conserved'
  <1>1. \A r \in Role : Held(r)' = Held(r)
    BY DEF Counts, Held
  <1>2. QED
    BY <1>1 DEF FreeType, Conserved

\* The innermost call acquires a connection.
LEMMA HeldMore ==
    ASSUME StackIInv, FreeType, Conserved, PoolsInv, NEW c \in Callers, Acquire(c)
    PROVE  FreeType' /\ Conserved'
  <1> DEFINE top == Top(c)
             new == [Top(c) EXCEPT !.at = "acquired", !.conn = "idle"]
  <1>1. top.conn = "none" /\ TopSet(c, "acquired", "idle") /\ stack[c] # <<>>
    BY AcquireEffect DEF Acquire
  <1>2. top \in Calls
    BY <1>1, TopSound
  <1>3. new \in Calls /\ new.role = top.role /\ new.conn = "idle"
    BY <1>2 DEF Calls
  <1>4. \A r \in Role : Counts(HeldCalls(r), top \in HeldCalls(r), new \in HeldCalls(r))
    BY <1>1, CountTopSet
  <1>5. size' = size /\ free' = [free EXCEPT ![top.role] = @ - 1] /\ free[top.role] > 0
    BY DEF Acquire
  <1>6. top.role \in Role
    BY <1>2 DEF Calls
  <1> HIDE DEF top, new
  <1>7. \A r \in Role : top \notin HeldCalls(r) /\ (new \in HeldCalls(r) <=> r = top.role)
    BY <1>1, <1>2, <1>3 DEF HeldCalls
  <1>8. \A r \in Role : Held(r)' = IF r = top.role THEN Held(r) + 1 ELSE Held(r)
    BY <1>4, <1>7 DEF Counts, Held
  <1>9. \A r \in Role : Held(r) \in Nat
    BY FiniteIn DEF Held
  <1>10. \A r \in Role : free'[r] \in Nat /\ free'[r] - free[r] = Held(r) - Held(r)'
    BY <1>5, <1>6, <1>8, <1>9 DEF FreeType
  <1>11. \A r \in Role : free'[r] \in 0..PoolSize /\ free'[r] + Held(r)' = size'[r]
    BY <1>5, <1>10, SumKept
  <1>12. FreeType'
    BY <1>5, <1>11 DEF FreeType
  <1>13. QED
    BY <1>11, <1>12 DEF Conserved

\* The innermost call gives its connection back, as it ends or goes on without one.
LEMMA HeldLess ==
    ASSUME StackIInv, FreeType, Conserved, PoolsInv, NEW c \in Callers, stack[c] # <<>>,
           Top(c).conn # "none", Release(c), size' = size,
           \/ Popped(c)
           \/ Top(c).kind # "tx" /\ \E call \in Calls : call.conn = "none" /\ call.id = 0 /\ Renewed(c, call)
    PROVE  FreeType' /\ Conserved'
  <1> DEFINE top == Top(c)
  <1>1. top \in Calls /\ top.role \in Role
    BY TopSound DEF Calls
  <1>2. \A r \in Role : Counts(HeldCalls(r), top \in HeldCalls(r), FALSE)
    <2>1. CASE Popped(c)
      BY <2>1, CountPopped, SteadySets
    <2>2. CASE Top(c).kind # "tx" /\ \E call \in Calls : call.conn = "none" /\ call.id = 0 /\ Renewed(c, call)
      <3>1. PICK call \in Calls : call.conn = "none" /\ call.id = 0 /\ Renewed(c, call)
        BY <2>2
      <3>2. \A r \in Role : Counts(HeldCalls(r), top \in HeldCalls(r), call \in HeldCalls(r))
        BY <2>2, <3>1, CountRenewed
      <3>3. \A r \in Role : call \notin HeldCalls(r)
        BY <3>1 DEF HeldCalls
      <3>4. QED
        BY <3>2, <3>3 DEF Counts
    <2>3. QED
      BY <2>1, <2>2
  <1>3. free' = [free EXCEPT ![top.role] = @ + 1]
    BY DEF Release
  <1>4. top.conn # "none"
    OBVIOUS
  <1> HIDE DEF top
  <1>5. \A r \in Role : top \in HeldCalls(r) <=> r = top.role
    BY <1>1, <1>4 DEF HeldCalls
  <1>6. \A r \in Role : Held(r)' = IF r = top.role THEN Held(r) - 1 ELSE Held(r)
    BY <1>2, <1>5 DEF Counts, Held
  <1>7. \A r \in Role : Held(r) \in Nat
    BY FiniteIn DEF Held
  <1>8. \A r \in Role : free'[r] \in Nat /\ free'[r] - free[r] = Held(r) - Held(r)'
    BY <1>1, <1>3, <1>6, <1>7 DEF FreeType
  <1>9. \A r \in Role : free'[r] \in 0..PoolSize /\ free'[r] + Held(r)' = size'[r]
    BY <1>8, SumKept
  <1>10. FreeType'
    BY <1>3, <1>9 DEF FreeType
  <1>11. QED
    BY <1>9, <1>10 DEF Conserved

\* A step that leaves the connections and transactions of all calls alone.
SameHeld == \A r \in Role : Counts(HeldCalls(r), FALSE, FALSE)
SameOpen == \A m \in Metas : Counts(OpenCalls(m), FALSE, FALSE)

\* A call without a connection comes, goes, or follows another one.
LEMMA BareCalls ==
    ASSUME StackIInv, StackIInv', NEW c \in Callers,
           \/ \E call \in Calls : call.conn = "none" /\ Pushed(c, call)
           \/ /\ stack[c] # <<>> /\ Top(c).conn = "none"
              /\ \/ Popped(c)
                 \/ Top(c).kind # "tx" /\ \E call \in Calls : call.conn = "none" /\ call.id = 0 /\ Renewed(c, call)
    PROVE  SameHeld /\ SameOpen
  <1>1. \A x \in Calls : x.conn = "none" => /\ \A r \in Role : x \notin HeldCalls(r)
                                            /\ \A m \in Metas : x \notin OpenCalls(m)
    BY DEF HeldCalls, OpenCalls, OpenConns
  <1>2. CASE \E call \in Calls : call.conn = "none" /\ Pushed(c, call)
    <2>1. PICK call \in Calls : call.conn = "none" /\ Pushed(c, call)
      BY <1>2
    <2>2. \A K : Counts(K, FALSE, call \in K)
      BY <2>1, CountPushed
    <2>3. QED
      BY <1>1, <2>1, <2>2 DEF SameHeld, SameOpen, Counts
  <1>3. CASE stack[c] # <<>> /\ Top(c).conn = "none" /\ Popped(c)
    <2>1. \A K : Steady(K) => Counts(K, Top(c) \in K, FALSE)
      BY <1>3, CountPopped
    <2>2. Top(c) \in Calls
      BY <1>3, TopSound
    <2>3. QED
      BY <1>1, <1>3, <2>1, <2>2, SteadySets DEF SameHeld, SameOpen, Counts
  <1>4. CASE /\ stack[c] # <<>> /\ Top(c).conn = "none" /\ Top(c).kind # "tx"
             /\ \E call \in Calls : call.conn = "none" /\ call.id = 0 /\ Renewed(c, call)
    <2>1. PICK call \in Calls : call.conn = "none" /\ call.id = 0 /\ Renewed(c, call)
      BY <1>4
    <2>2. \A K : Counts(K, Top(c) \in K, call \in K)
      BY <1>4, <2>1, CountRenewed
    <2>3. Top(c) \in Calls
      BY <1>4, TopSound
    <2>4. QED
      BY <1>1, <1>4, <2>1, <2>2, <2>3 DEF SameHeld, SameOpen, Counts
  <1>5. QED
    BY <1>2, <1>3, <1>4

\* A call with an idle connection ends, or goes on without it.
LEMMA IdleEnds ==
    ASSUME StackIInv, NEW c \in Callers, stack[c] # <<>>, Top(c).conn \in {"none", "idle"},
           \/ Popped(c)
           \/ Top(c).kind # "tx" /\ \E call \in Calls : call.conn = "none" /\ call.id = 0 /\ Renewed(c, call)
    PROVE  SameOpen
  <1>1. \A x \in Calls : x.conn \in {"none", "idle"} => \A m \in Metas : x \notin OpenCalls(m)
    BY DEF OpenCalls, OpenConns
  <1>2. Top(c) \in Calls
    BY TopSound
  <1>3. CASE Popped(c)
    <2>1. \A K : Steady(K) => Counts(K, Top(c) \in K, FALSE)
      BY <1>3, CountPopped
    <2>2. QED
      BY <1>1, <1>2, <2>1, SteadySets DEF SameOpen, Counts
  <1>4. CASE Top(c).kind # "tx" /\ \E call \in Calls : call.conn = "none" /\ call.id = 0 /\ Renewed(c, call)
    <2>1. PICK call \in Calls : call.conn = "none" /\ call.id = 0 /\ Renewed(c, call)
      BY <1>4
    <2>2. \A K : Counts(K, Top(c) \in K, call \in K)
      BY <1>4, <2>1, CountRenewed
    <2>3. QED
      BY <1>1, <1>2, <2>1, <2>2 DEF SameOpen, Counts
  <1>5. QED
    BY <1>3, <1>4

\* The innermost call keeps what it has of a connection and of a transaction.
LEMMA TopKept ==
    ASSUME StackIInv, NEW c \in Callers, stack[c] # <<>>, NEW at \in Ats, NEW conn \in Conns,
           TopSet(c, at, conn)
    PROVE  /\ (Top(c).conn = "none" <=> conn = "none") => SameHeld
           /\ (Top(c).conn \in OpenConns <=> conn \in OpenConns) => SameOpen
  <1> DEFINE top == Top(c)
             new == [Top(c) EXCEPT !.at = at, !.conn = conn]
  <1>1. top \in Calls
    BY TopSound
  <1>2. new \in Calls /\ new.role = top.role /\ new.meta = top.meta /\ new.conn = conn
    BY <1>1 DEF Calls, Ats, Conns
  <1>3. \A K : Counts(K, top \in K, new \in K)
    BY CountTopSet
  <1> HIDE DEF top, new
  <1>4. ASSUME top.conn = "none" <=> conn = "none" PROVE SameHeld
    <2>1. \A r \in Role : top \in HeldCalls(r) <=> new \in HeldCalls(r)
      BY <1>1, <1>2, <1>4 DEF HeldCalls
    <2>2. QED
      BY <1>3, <2>1 DEF SameHeld, Counts
  <1>5. ASSUME top.conn \in OpenConns <=> conn \in OpenConns PROVE SameOpen
    <2>1. \A m \in Metas : top \in OpenCalls(m) <=> new \in OpenCalls(m)
      BY <1>1, <1>2, <1>5 DEF OpenCalls
    <2>2. QED
      BY <1>3, <2>1 DEF SameOpen, Counts
  <1>6. QED
    BY <1>4, <1>5 DEF top

\* A new pool has all its connections, and no call had one of them.
LEMMA NewPoolConserves ==
    ASSUME PoolsInv, FreeType, Conserved, stack' = stack,
           NEW role \in Role, pool[role] = "none", NewPool(role)
    PROVE  FreeType' /\ Conserved'
  <1>1. \A r \in Role : Held(r)' = Held(r) /\ Held(r) \in Nat
    BY CountSame, FiniteIn DEF Counts, Held
  <1>2. size[role] = 0 /\ free[role] \in Nat /\ free[role] + Held(role) = size[role]
    BY PoolSizeAssumption DEF PoolsInv, PoolInv, FreeType, Conserved
  <1>3. Held(role) = 0
    BY <1>1, <1>2
  <1>4. /\ size' = [size EXCEPT ![role] = PoolSize]
        /\ free' = [free EXCEPT ![role] = PoolSize]
    BY DEF NewPool
  <1>5. FreeType'
    BY <1>4, PoolSizeAssumption DEF FreeType
  <1>6. \A r \in Role : free'[r] + Held(r)' = size'[r]
    BY <1>1, <1>3, <1>4, PoolSizeAssumption DEF FreeType, Conserved, PoolsInv
  <1>7. QED
    BY <1>5, <1>6 DEF Conserved

LEMMA ConservedNext ==
    StackIInv /\ PoolsInv /\ FreeType /\ Conserved /\ [Next]_vars => FreeType' /\ Conserved'
  <1> SUFFICES ASSUME StackIInv, PoolsInv, FreeType, Conserved, [Next]_vars
               PROVE  FreeType' /\ Conserved'
    OBVIOUS
  <1>1. StackIInv'
    BY StackNext
  <1>2. ASSUME UNCHANGED <<size, free>>, SameHeld PROVE FreeType' /\ Conserved'
    BY <1>2, HeldSame DEF SameHeld
  <1>3. CASE UNCHANGED vars
    BY <1>2, <1>3, CountSame DEF vars, pools, SameHeld
  <1>4. CASE Quiet
    <2>1. stack' = stack
      BY <1>4, QuietEffect
    <2>2. SameHeld
      BY <2>1, CountSame DEF SameHeld
    <2>3. CASE UNCHANGED <<size, free>>
      BY <2>2, <2>3, <1>2
    <2>4. CASE NewMaster
      BY <2>1, <2>3, <2>4, NewPoolConserves DEF NewMaster, PoolsInv, PoolInv, Role
    <2>5. CASE NewReadOnly
      BY <2>1, <2>3, <2>5, NewPoolConserves DEF NewReadOnly, PoolsInv, PoolInv, Role
    <2>6. CASE \/ RegisterCollector \/ Close \/ \E r \in Role : CloseReturns(r)
               \/ \E c \in Callers : Statement(c) \/ DoWithoutPool(c)
      <3>1. UNCHANGED <<size, free>>
        BY <2>6 DEF RegisterCollector, Close, CloseReturns, Statement, DoWithoutPool, pools
      <3>2. QED
        BY <3>1, <2>3
    <2>7. QED
      BY <1>4, <2>4, <2>5, <2>6 DEF Quiet
  <1>5. ASSUME NEW c \in Callers, NEW m \in Metas, Do(c, m) PROVE FreeType' /\ Conserved'
    BY <1>1, <1>2, <1>5, DoEffect, BareCalls DEF Do, pools
  <1>6. ASSUME NEW c \in Callers, NEW kind \in {"statement", "ping", "scrape"}, NEW r \in Role,
               Begin(c, kind, r)
        PROVE  FreeType' /\ Conserved'
    BY <1>1, <1>2, <1>6, BeginEffect, BareCalls DEF Begin, pools
  <1>7. ASSUME NEW c \in Callers, Acquire(c) PROVE FreeType' /\ Conserved'
    BY <1>7, HeldMore
  <1>8. ASSUME NEW c \in Callers, AcquireFails(c) PROVE FreeType' /\ Conserved'
    <2>1. UNCHANGED <<size, free>>
      BY <1>8 DEF AcquireFails, GiveUp, pools
    <2>2. QED
      BY <1>1, <1>2, <1>8, <2>1, AcquireFailsEffect, BareCalls
  <1>9. ASSUME NEW c \in Callers, Query(c) PROVE FreeType' /\ Conserved'
    <2>1. Release(c) /\ size' = size
      BY <1>9 DEF Query
    <2>2. /\ stack[c] # <<>> /\ Top(c).conn # "none" /\ Top(c).kind # "tx"
          /\ Popped(c) \/ \E call \in Calls : call.conn = "none" /\ call.id = 0 /\ Renewed(c, call)
      BY <1>9, QueryEffect
    <2>3. QED
      BY <2>1, <2>2, HeldLess
  <1>10. ASSUME NEW c \in Callers, BeginTx(c) PROVE FreeType' /\ Conserved'
    <2>1. UNCHANGED <<size, free>>
      BY <1>10 DEF BeginTx, pools
    <2>2. "callback" \in Ats /\ "tx" \in Conns
      BY DEF Ats, Conns
    <2>3. SameHeld
      BY <1>10, <2>2, BeginTxEffect, TopKept
    <2>4. QED
      BY <1>2, <2>1, <2>3
  <1>11. ASSUME NEW c \in Callers, BeginTxFails(c) PROVE FreeType' /\ Conserved'
    <2>1. Release(c) /\ size' = size
      BY <1>11 DEF BeginTxFails
    <2>2. QED
      BY <1>11, <2>1, BeginTxFailsEffect, HeldLess
  <1>12. ASSUME NEW c \in Callers, StatementFails(c) \/ CallbackReturns(c)
         PROVE  FreeType' /\ Conserved'
    <2>1. UNCHANGED <<size, free>>
      BY <1>12 DEF StatementFails, CallbackReturns, pools
    <2>2. stack[c] # <<>> /\ Top(c).conn \in OpenConns
      BY <1>12, InCallbackEffect
    <2>3. PICK at \in OpenAts, conn \in OpenConns : TopSet(c, at, conn)
      BY <1>12, InCallbackEffect
    <2>4. at \in Ats /\ conn \in Conns /\ Top(c).conn # "none" /\ conn # "none"
      BY <2>2 DEF Ats, Conns, OpenAts, OpenConns
    <2>5. SameHeld
      BY <2>2, <2>3, <2>4, TopKept
    <2>6. QED
      BY <1>2, <2>1, <2>5
  <1>13. ASSUME NEW c \in Callers, Ends(c) PROVE FreeType' /\ Conserved'
    <2>1. Release(c) /\ size' = size
      BY <1>13, EndsEffect DEF Leave
    <2>2. stack[c] # <<>> /\ Top(c).conn # "none" /\ Popped(c)
      BY <1>13, EndsEffect DEF OpenConns
    <2>3. QED
      BY <2>1, <2>2, HeldLess
  <1>14. ASSUME NEW c \in Callers, CancelContext(c) PROVE FreeType' /\ Conserved'
    <2>1. UNCHANGED <<size, free>>
      BY <1>14 DEF CancelContext, pools
    <2>2. SameHeld
      BY <1>14, CancelSound, CountCancelled, SteadySets DEF SameHeld
    <2>3. QED
      BY <1>2, <2>1, <2>2
  <1>15. QED
    BY <1>3, <1>4, <1>5, <1>6, <1>7, <1>8, <1>9, <1>10, <1>11, <1>12, <1>13, <1>14, Cases

-----------------------------------------------------------------------------
(* The gauge counts the open transactions.                                 *)

ActiveType == active \in [Metas -> Nat]
OpenNr(m) == Cardinality(In(OpenCalls(m)))
Counted == \A m \in Metas : active[m] = OpenNr(m)

LEMMA ActiveSame ==
    ASSUME ActiveType, Counted, active' = active, SameOpen
    PROVE  ActiveType' /\ Counted'
  <1>1. \A m \in Metas : OpenNr(m)' = OpenNr(m)
    BY DEF SameOpen, Counts, OpenNr
  <1>2. QED
    BY <1>1 DEF ActiveType, Counted

\* BEGIN increments the gauge of the labels of the call.
LEMMA ActiveMore ==
    ASSUME StackIInv, ActiveType, Counted, NEW c \in Callers, BeginTx(c)
    PROVE  ActiveType' /\ Counted'
  <1> DEFINE top == Top(c)
             new == [Top(c) EXCEPT !.at = "callback", !.conn = "tx"]
  <1>1. top.conn = "idle" /\ TopSet(c, "callback", "tx") /\ stack[c] # <<>>
    BY BeginTxEffect
  <1>2. top \in Calls
    BY <1>1, TopSound
  <1>3. new \in Calls /\ new.meta = top.meta /\ new.conn = "tx"
    BY <1>2 DEF Calls
  <1>4. \A m \in Metas : Counts(OpenCalls(m), top \in OpenCalls(m), new \in OpenCalls(m))
    BY <1>1, CountTopSet
  <1>5. active' = [active EXCEPT ![top.meta] = @ + 1]
    BY DEF BeginTx, IncActive
  <1>6. top.meta \in Metas
    BY <1>2 DEF Calls
  <1> HIDE DEF top, new
  <1>7. \A m \in Metas : top \notin OpenCalls(m) /\ (new \in OpenCalls(m) <=> m = top.meta)
    BY <1>1, <1>2, <1>3 DEF OpenCalls, OpenConns
  <1>8. \A m \in Metas : OpenNr(m)' = IF m = top.meta THEN OpenNr(m) + 1 ELSE OpenNr(m)
    BY <1>4, <1>7 DEF Counts, OpenNr
  <1>9. ActiveType' /\ \A m \in Metas : active'[m] = OpenNr(m)'
    BY <1>5, <1>6, <1>8 DEF ActiveType, Counted
  <1>10. QED
    BY <1>9 DEF Counted

\* The outcome is known: the deferred DecActive runs, whatever the outcome.
LEMMA ActiveLess ==
    ASSUME StackIInv, ActiveType, Counted, NEW c \in Callers, Ends(c)
    PROVE  ActiveType' /\ Counted'
  <1> DEFINE top == Top(c)
  <1>1. top.conn \in OpenConns /\ stack[c] # <<>> /\ Popped(c)
    BY EndsEffect
  <1>2. top \in Calls /\ top.meta \in Metas
    BY <1>1, TopSound DEF Calls
  <1>3. \A m \in Metas : Counts(OpenCalls(m), top \in OpenCalls(m), FALSE)
    BY <1>1, CountPopped, SteadySets
  <1>4. active' = [active EXCEPT ![top.meta] = @ - 1]
    BY EndsEffect DEF Leave, DecActive
  <1> HIDE DEF top
  <1>5. \A m \in Metas : top \in OpenCalls(m) <=> m = top.meta
    BY <1>1, <1>2 DEF OpenCalls
  <1>6. \A m \in Metas : OpenNr(m)' = IF m = top.meta THEN OpenNr(m) - 1 ELSE OpenNr(m)
    BY <1>3, <1>5 DEF Counts, OpenNr
  <1>7. \A m \in Metas : OpenNr(m)' \in Nat
    <2> SUFFICES ASSUME NEW m \in Metas PROVE OpenNr(m)' \in Nat
      OBVIOUS
    <2>1. In(OpenCalls(m))' \in SUBSET Slots
      BY DEF In, Slots
    <2>2. IsFiniteSet(In(OpenCalls(m))')
      BY <2>1, FiniteSlots, FS_Subset
    <2>3. QED
      BY <2>2, FS_CardinalityType DEF OpenNr
  <1>8. \A m \in Metas : active'[m] = OpenNr(m)'
    BY <1>2, <1>4, <1>6 DEF ActiveType, Counted
  <1>9. ActiveType'
    BY <1>4, <1>7, <1>8 DEF ActiveType
  <1>10. QED
    BY <1>8, <1>9 DEF Counted

LEMMA ActiveNext ==
    StackIInv /\ ActiveType /\ Counted /\ [Next]_vars => ActiveType' /\ Counted'
  <1> SUFFICES ASSUME StackIInv, ActiveType, Counted, [Next]_vars
               PROVE  ActiveType' /\ Counted'
    OBVIOUS
  <1>1. StackIInv'
    BY StackNext
  <1>2. ASSUME active' = active, SameOpen PROVE ActiveType' /\ Counted'
    BY <1>2, ActiveSame
  <1>3. CASE UNCHANGED vars
    BY <1>2, <1>3, CountSame DEF vars, txs, SameOpen
  <1>4. CASE Quiet
    <2>1. SameOpen
      BY <1>4, QuietEffect, CountSame DEF SameOpen
    <2>2. active' = active
      BY <1>4 DEF Quiet, NewMaster, NewReadOnly, RegisterCollector, Close, CloseReturns,
             Statement, DoWithoutPool, txs
    <2>3. QED
      BY <1>2, <2>1, <2>2
  <1>5. ASSUME NEW c \in Callers, NEW m \in Metas, Do(c, m) PROVE ActiveType' /\ Counted'
    BY <1>1, <1>2, <1>5, DoEffect, BareCalls DEF Do
  <1>6. ASSUME NEW c \in Callers, NEW kind \in {"statement", "ping", "scrape"}, NEW r \in Role,
               Begin(c, kind, r)
        PROVE  ActiveType' /\ Counted'
    BY <1>1, <1>2, <1>6, BeginEffect, BareCalls DEF Begin, txs
  <1>7. ASSUME NEW c \in Callers, Acquire(c) PROVE ActiveType' /\ Counted'
    <2>1. "acquired" \in Ats /\ "idle" \in Conns /\ "none" \notin OpenConns /\ "idle" \notin OpenConns
      BY DEF Ats, Conns, OpenConns
    <2>2. SameOpen
      BY <1>7, <2>1, AcquireEffect, TopKept DEF Acquire
    <2>3. QED
      BY <1>2, <1>7, <2>2 DEF Acquire, txs
  <1>8. ASSUME NEW c \in Callers, AcquireFails(c) PROVE ActiveType' /\ Counted'
    <2>1. active' = active
      BY <1>8 DEF AcquireFails, GiveUp
    <2>2. QED
      BY <1>2, <1>8, <2>1, AcquireFailsEffect, IdleEnds
  <1>9. ASSUME NEW c \in Callers, Query(c) PROVE ActiveType' /\ Counted'
    <2>1. active' = active
      BY <1>9 DEF Query, txs
    <2>2. QED
      BY <1>2, <1>9, <2>1, QueryEffect, IdleEnds
  <1>10. ASSUME NEW c \in Callers, BeginTx(c) PROVE ActiveType' /\ Counted'
    BY <1>10, ActiveMore
  <1>11. ASSUME NEW c \in Callers, BeginTxFails(c) PROVE ActiveType' /\ Counted'
    <2>1. active' = active
      BY <1>11 DEF BeginTxFails
    <2>2. QED
      BY <1>2, <1>11, <2>1, BeginTxFailsEffect, IdleEnds
  <1>12. ASSUME NEW c \in Callers, StatementFails(c) \/ CallbackReturns(c)
         PROVE  ActiveType' /\ Counted'
    <2>1. active' = active
      BY <1>12 DEF StatementFails, CallbackReturns, txs
    <2>2. stack[c] # <<>> /\ Top(c).conn \in OpenConns
      BY <1>12, InCallbackEffect
    <2>3. PICK at \in OpenAts, conn \in OpenConns : TopSet(c, at, conn)
      BY <1>12, InCallbackEffect
    <2>4. at \in Ats /\ conn \in Conns
      BY DEF Ats, Conns, OpenAts, OpenConns
    <2>5. SameOpen
      BY <2>2, <2>3, <2>4, TopKept
    <2>6. QED
      BY <1>2, <2>1, <2>5
  <1>13. ASSUME NEW c \in Callers, Ends(c) PROVE ActiveType' /\ Counted'
    BY <1>13, ActiveLess
  <1>14. ASSUME NEW c \in Callers, CancelContext(c) PROVE ActiveType' /\ Counted'
    <2>1. active' = active
      BY <1>14 DEF CancelContext, txs
    <2>2. SameOpen
      BY <1>14, CancelSound, CountCancelled, SteadySets DEF SameOpen
    <2>3. QED
      BY <1>2, <2>1, <2>2
  <1>15. QED
    BY <1>3, <1>4, <1>5, <1>6, <1>7, <1>8, <1>9, <1>10, <1>11, <1>12, <1>13, <1>14, Cases

-----------------------------------------------------------------------------
(* The outcome that is counted is what happened.                           *)

\* Which calls of execute run, after an operation on a stack.
LEMMA RunsSame ==
    ASSUME StackIInv, stack' = stack \/ (\E c \in Callers :
              \/ Cancelled(c)
              \/ stack[c] # <<>> /\ \E at \in Ats, conn \in Conns : TopSet(c, at, conn))
    PROVE  \A id \in TxId : Running(id)' <=> Running(id)
  <1>1. CASE stack' = stack
    BY <1>1 DEF Running
  <1>2. ASSUME NEW c \in Callers, Others(c), Len(stack'[c]) = Len(stack[c]),
               \A i \in 1..Len(stack[c]) : stack'[c][i].id = stack[c][i].id
        PROVE  \A id \in TxId : Running(id)' <=> Running(id)
    <2>1. \A d \in Callers : /\ DOMAIN stack[d] = 1..Len(stack[d])
                             /\ DOMAIN stack'[d] = 1..Len(stack'[d])
      BY <1>2 DEF StackIInv, Shape, Others
    <2>2. \A d \in Callers : /\ DOMAIN stack'[d] = DOMAIN stack[d]
                             /\ \A i \in DOMAIN stack[d] : stack'[d][i].id = stack[d][i].id
      BY <1>2, <2>1 DEF Others
    <2>3. QED
      BY <2>2 DEF Running
  <1>3. ASSUME NEW c \in Callers, Cancelled(c) PROVE \A id \in TxId : Running(id)' <=> Running(id)
    <2>1. \A x \in Calls : [x EXCEPT !.cancelled = TRUE].id = x.id
      BY DEF Calls
    <2>2. \A i \in 1..Len(stack[c]) : stack[c][i] \in Calls
      BY SoundCalls
    <2>3. ASSUME NEW i \in 1..Len(stack[c]) PROVE stack'[c][i].id = stack[c][i].id
      <3>1. \/ stack'[c][i] = stack[c][i]
            \/ stack'[c][i] = [stack[c][i] EXCEPT !.cancelled = TRUE]
        BY <1>3 DEF Cancelled
      <3>2. QED
        BY <2>1, <2>2, <3>1
    <2>4. QED
      BY <1>2, <1>3, <2>3 DEF Cancelled
  <1>4. ASSUME NEW c \in Callers, stack[c] # <<>>, NEW at \in Ats, NEW conn \in Conns,
               TopSet(c, at, conn)
        PROVE  \A id \in TxId : Running(id)' <=> Running(id)
    <2> DEFINE new == [Top(c) EXCEPT !.at = at, !.conn = conn]
    <2>1. Top(c) \in Calls /\ Top(c) = stack[c][Len(stack[c])]
      BY <1>4, TopSound
    <2>2. new.id = Top(c).id
      BY <2>1 DEF Calls
    <2>3. Others(c) /\ Len(stack'[c]) = Len(stack[c])
          /\ \A i \in 1..Len(stack[c]) :
               stack'[c][i] = IF i = Len(stack[c]) THEN new ELSE stack[c][i]
      BY <1>4 DEF TopSet
    <2> HIDE DEF new
    <2>4. \A i \in 1..Len(stack[c]) : stack'[c][i].id = stack[c][i].id
      BY <2>1, <2>2, <2>3
    <2>5. QED
      BY <1>2, <2>3, <2>4
  <1>5. QED
    BY <1>1, <1>3, <1>4

LEMMA RunsPushed ==
    ASSUME StackIInv, NEW c \in Callers, NEW call \in Calls, Pushed(c, call)
    PROVE  \A id \in TxId : Running(id)' <=> Running(id) \/ id = call.id
  <1>1. /\ Others(c) /\ Len(stack'[c]) = Len(stack[c]) + 1
        /\ \A i \in 1..Len(stack[c]) : stack'[c][i] = stack[c][i]
        /\ stack'[c][Len(stack[c]) + 1] = call
    BY DEF Pushed
  <1>2. \A d \in Callers : /\ DOMAIN stack[d] = 1..Len(stack[d])
                           /\ DOMAIN stack'[d] = 1..Len(stack'[d])
    BY <1>1 DEF StackIInv, Shape, Others
  <1>3. Len(stack[c]) \in Nat
    BY SoundCalls
  <1>4. ASSUME NEW id \in TxId, Running(id) PROVE Running(id)'
    <2>1. PICK d \in Callers : \E i \in 1..Len(stack[d]) : stack[d][i].id = id
      BY <1>2, <1>4 DEF Running
    <2>2. PICK i \in 1..Len(stack[d]) : stack[d][i].id = id
      BY <2>1
    <2>3. i \in DOMAIN stack'[d] /\ stack'[d][i].id = id
      <3>1. CASE d = c
        BY <1>1, <1>2, <1>3, <2>2, <3>1
      <3>2. CASE d # c
        BY <1>1, <1>2, <2>2, <3>2 DEF Others
      <3>3. QED
        BY <3>1, <3>2
    <2>4. QED
      BY <2>3 DEF Running
  <1>5. Running(call.id)'
    <2>1. Len(stack[c]) + 1 \in DOMAIN stack'[c]
      BY <1>1, <1>2, <1>3
    <2>2. QED
      BY <1>1, <2>1 DEF Running
  <1>6. ASSUME NEW id \in TxId, Running(id)' PROVE Running(id) \/ id = call.id
    <2>1. PICK d \in Callers : \E i \in 1..Len(stack'[d]) : stack'[d][i].id = id
      BY <1>2, <1>6 DEF Running
    <2>2. PICK i \in 1..Len(stack'[d]) : stack'[d][i].id = id
      BY <2>1
    <2>3. CASE d = c /\ i = Len(stack[c]) + 1
      BY <1>1, <2>2, <2>3
    <2>4. CASE d = c /\ i # Len(stack[c]) + 1
      <3>1. i \in 1..Len(stack[c])
        BY <1>1, <1>3, <2>4
      <3>2. stack[c][i].id = id
        BY <1>1, <2>2, <2>4, <3>1
      <3>3. QED
        BY <1>2, <3>1, <3>2 DEF Running
    <2>5. CASE d # c
      <3>1. stack'[d] = stack[d]
        BY <1>1, <2>5 DEF Others
      <3>2. QED
        BY <1>2, <2>2, <3>1 DEF Running
    <2>6. QED
      BY <2>3, <2>4, <2>5
  <1>7. QED
    BY <1>4, <1>5, <1>6

LEMMA RunsPopped ==
    ASSUME StackIInv, NEW c \in Callers, stack[c] # <<>>, Popped(c)
    PROVE  \A id \in TxId : Running(id)' <=> Running(id) /\ id # Top(c).id
  <1> DEFINE n == Len(stack[c])
  <1>1. n \in Nat \ {0} /\ Top(c) = stack[c][n] /\ \A i \in 1..n : stack[c][i] \in Calls
    BY TopSound, SoundCalls
  <1>2. Others(c) /\ Len(stack'[c]) = n - 1
    BY DEF Popped
  <1>3. \A d \in Callers : /\ DOMAIN stack[d] = 1..Len(stack[d])
                           /\ DOMAIN stack'[d] = 1..Len(stack'[d])
    BY <1>2 DEF StackIInv, Shape, Others
  <1>4. ASSUME NEW i \in 1..(n - 1) PROVE stack'[c][i].id = stack[c][i].id /\ i \in 1..n
    <2>1. \A x \in Calls : [x EXCEPT !.at = "panicked"].id = x.id
      BY DEF Calls
    <2>2. \/ stack'[c][i] = stack[c][i]
          \/ stack'[c][i] = [stack[c][i] EXCEPT !.at = "panicked"]
      BY DEF Popped
    <2>3. i \in 1..n
      BY <1>1
    <2>4. QED
      BY <1>1, <2>1, <2>2, <2>3
  <1>5. ASSUME NEW id \in TxId, Running(id)' PROVE Running(id) /\ id # Top(c).id
    <2>1. PICK d \in Callers : \E i \in 1..Len(stack'[d]) : stack'[d][i].id = id
      BY <1>3, <1>5 DEF Running
    <2>2. PICK i \in 1..Len(stack'[d]) : stack'[d][i].id = id
      BY <2>1
    <2>3. i \in 1..Len(stack[d]) /\ stack[d][i].id = id /\ (d = c => i # n)
      <3>1. CASE d = c
        BY <1>1, <1>2, <1>4, <2>2, <3>1
      <3>2. CASE d # c
        BY <1>2, <2>2, <3>2 DEF Others
      <3>3. QED
        BY <3>1, <3>2
    <2>4. Running(id)
      BY <1>3, <2>3 DEF Running
    <2>5. stack[d][i].kind = "tx"
      <3>1. Sound(stack[d], i, started)
        BY <2>3, SoundCalls
      <3>2. id # 0
        BY BoundsAssumption DEF TxId
      <3>3. QED
        BY <2>3, <3>1, <3>2 DEF Sound
    <2>6. ~(d = c /\ i = n) => stack[d][i].id # stack[c][n].id
      <3>1. i \in DOMAIN stack[d] /\ n \in DOMAIN stack[c]
        BY <1>1, <1>3, <2>3
      <3>2. QED
        BY <2>5, <3>1 DEF StackIInv, IdInv
    <2>7. QED
      BY <1>1, <2>3, <2>4, <2>6
  <1>6. ASSUME NEW id \in TxId, Running(id), id # Top(c).id PROVE Running(id)'
    <2>1. PICK d \in Callers : \E i \in 1..Len(stack[d]) : stack[d][i].id = id
      BY <1>3, <1>6 DEF Running
    <2>2. PICK i \in 1..Len(stack[d]) : stack[d][i].id = id
      BY <2>1
    <2>3. i \in 1..Len(stack'[d]) /\ stack'[d][i].id = id
      <3>1. CASE d = c
        <4>1. i # n
          BY <1>1, <1>6, <2>2, <3>1
        <4>2. i \in 1..(n - 1)
          BY <1>1, <2>2, <3>1, <4>1
        <4>3. QED
          BY <1>2, <1>4, <2>2, <3>1, <4>2
      <3>2. CASE d # c
        BY <1>2, <2>2, <3>2 DEF Others
      <3>3. QED
        BY <3>1, <3>2
    <2>4. QED
      BY <1>3, <2>3 DEF Running
  <1>7. QED
    BY <1>5, <1>6

LEMMA RunsRenewed ==
    ASSUME StackIInv, NEW c \in Callers, stack[c] # <<>>, Top(c).kind # "tx",
           NEW call \in Calls, call.id = 0, Renewed(c, call)
    PROVE  \A id \in TxId : Running(id)' <=> Running(id)
  <1>1. Len(stack[c]) = 1 /\ stack[c][1].id = 0
    BY TopSound
  <1>2. Others(c) /\ Len(stack'[c]) = 1 /\ stack'[c][1] = call
    BY DEF Renewed
  <1>3. \A d \in Callers : /\ DOMAIN stack[d] = 1..Len(stack[d])
                           /\ DOMAIN stack'[d] = 1..Len(stack'[d])
    BY <1>2 DEF StackIInv, Shape, Others
  <1>4. \A d \in Callers : /\ DOMAIN stack'[d] = DOMAIN stack[d]
                           /\ \A i \in DOMAIN stack[d] : stack'[d][i].id = stack[d][i].id
    BY <1>1, <1>2, <1>3 DEF Others
  <1>5. QED
    BY <1>4 DEF Running

Outcomes ==
    /\ written \in [TxId -> 0..MaxWrites]
    /\ applied \in [TxId -> 0..MaxWrites]
    /\ observed \in [TxId -> Seq(Outcome)]
    /\ OutcomeInv
    /\ OutcomeIsTrue

\* What execute counts fits what became of the writes.
Fits(outcome, done, all) ==
    /\ outcome = "committed" => done = all
    /\ outcome = "commit_failed" => done \in {0, all}
    /\ outcome \notin {"committed", "commit_failed"} => done = 0

LEMMA OutcomesOf ==
    Outcomes => \A i \in 1..started : ~Running(i) =>
                   Len(observed[i]) = 1 /\ Fits(observed[i][1], applied[i], written[i])
  BY DEF Outcomes, OutcomeIsTrue, Fits

\* No call of execute ends or begins.
LEMMA NoOutcome ==
    ASSUME StackIInv, Outcomes, \A id \in TxId : Running(id)' <=> Running(id),
           UNCHANGED <<started, applied, observed>>,
           written' \in [TxId -> 0..MaxWrites],
           \A i \in TxId : ~Running(i) => written'[i] = written[i]
    PROVE  Outcomes'
  <1>1. 1..started \subseteq TxId
    BY BoundsAssumption DEF StackIInv, Shape, TxId
  <1>2. OutcomeInv'
    BY DEF Outcomes, OutcomeInv
  <1>3. OutcomeIsTrue'
    BY <1>1 DEF Outcomes, OutcomeIsTrue
  <1>4. QED
    BY <1>2, <1>3 DEF Outcomes

\* A call of execute begins.
LEMMA OutcomeOpens ==
    ASSUME StackIInv, Outcomes, started' = started + 1, started' \in TxId,
           \A id \in TxId : Running(id)' <=> Running(id) \/ id = started',
           UNCHANGED <<written, applied, observed>>
    PROVE  Outcomes'
  <1>1. started \in 0..MaxTx /\ 1..started \subseteq TxId
    BY BoundsAssumption DEF StackIInv, Shape, TxId
  <1>2. OutcomeInv'
    <2> SUFFICES ASSUME NEW i \in TxId, i <= started' => Running(i)'
                 PROVE  observed'[i] = <<>> /\ applied'[i] = 0
      BY DEF OutcomeInv
    <2>1. i <= started => Running(i)
      BY <1>1, BoundsAssumption DEF TxId
    <2>2. QED
      BY <2>1 DEF Outcomes, OutcomeInv
  <1>3. OutcomeIsTrue'
    <2> SUFFICES ASSUME NEW i \in 1..started', ~Running(i)'
                 PROVE  Len(observed[i]) = 1 /\ Fits(observed[i][1], applied[i], written[i])
      BY DEF OutcomeIsTrue, Fits
    <2>1. i # started'
      OBVIOUS
    <2>2. i \in 1..started /\ i \in TxId
      BY <1>1, <2>1, BoundsAssumption
    <2>3. ~Running(i)
      BY <2>2
    <2>4. QED
      BY <2>2, <2>3, OutcomesOf
  <1>4. QED
    BY <1>2, <1>3 DEF Outcomes

\* A call of execute ends, with one outcome that fits.
LEMMA OutcomeSettles ==
    ASSUME StackIInv, Outcomes, UNCHANGED <<started, written>>,
           NEW t \in TxId, t \in 1..started, NEW outcome \in Outcome,
           Running(t), \A id \in TxId : Running(id)' <=> Running(id) /\ id # t,
           Observe(t, outcome),
           applied' = applied \/ applied' = [applied EXCEPT ![t] = written[t]],
           Fits(outcome, applied'[t], written[t])
    PROVE  Outcomes'
  <1>1. 1..started \subseteq TxId /\ started \in Nat
    BY BoundsAssumption DEF StackIInv, Shape, TxId
  <1>2. observed[t] = <<>> /\ applied[t] = 0
    BY DEF Outcomes, OutcomeInv
  <1>3. observed' = [observed EXCEPT ![t] = <<outcome>>]
    BY <1>2 DEF Observe, Outcomes
  <1>4. <<outcome>> \in Seq(Outcome) /\ Len(<<outcome>>) = 1 /\ <<outcome>>[1] = outcome
    OBVIOUS
  <1>5. observed' \in [TxId -> Seq(Outcome)] /\ applied' \in [TxId -> 0..MaxWrites]
    BY <1>3, <1>4 DEF Outcomes
  <1>6. \A i \in TxId \ {t} : observed'[i] = observed[i] /\ applied'[i] = applied[i]
    BY <1>3 DEF Outcomes
  <1>7. OutcomeInv'
    <2> SUFFICES ASSUME NEW i \in TxId, i <= started' => Running(i)'
                 PROVE  observed'[i] = <<>> /\ applied'[i] = 0
      BY DEF OutcomeInv
    <2>1. i # t /\ (i <= started => Running(i))
      BY <1>1
    <2>2. QED
      BY <1>6, <2>1 DEF Outcomes, OutcomeInv
  <1>8. OutcomeIsTrue'
    <2> SUFFICES ASSUME NEW i \in 1..started, ~Running(i)'
                 PROVE  Len(observed'[i]) = 1 /\ Fits(observed'[i][1], applied'[i], written[i])
      BY DEF OutcomeIsTrue, Fits
    <2>1. CASE i = t
      <3>1. observed'[t] = <<outcome>>
        BY <1>3 DEF Outcomes
      <3>2. QED
        BY <1>4, <2>1, <3>1
    <2>2. CASE i # t
      <3>1. i \in TxId /\ ~Running(i)
        BY <1>1, <2>2
      <3>2. QED
        BY <1>6, <2>2, <3>1, OutcomesOf
    <2>3. QED
      BY <2>1, <2>2
  <1>9. QED
    BY <1>5, <1>7, <1>8 DEF Outcomes

\* Each way out of execute fits its outcome.
LEMMA EndsFit ==
    ASSUME StackIInv, Outcomes, NEW c \in Callers, Ends(c), Running(Top(c).id),
           Top(c).id \in TxId
    PROVE  \E outcome \in Outcome :
             /\ Observe(Top(c).id, outcome)
             /\ applied' = applied \/ applied' = [applied EXCEPT ![Top(c).id] = written[Top(c).id]]
             /\ Fits(outcome, applied'[Top(c).id], written[Top(c).id])
  <1> DEFINE t == Top(c).id
  <1>1. applied[t] = 0 /\ applied \in [TxId -> 0..MaxWrites]
    BY DEF Outcomes, OutcomeInv
  <1>2. CASE Commit(c)
    BY <1>1, <1>2 DEF Commit, Leave, Fits, Outcome
  <1>3. CASE CommitFails(c)
    BY <1>1, <1>3 DEF CommitFails, Leave, Fits, Outcome
  <1>4. CASE Rollback(c)
    BY <1>1, <1>4 DEF Rollback, Leave, Fits, Outcome
  <1>5. CASE RollbackFails(c)
    BY <1>1, <1>5 DEF RollbackFails, Leave, Fits, Outcome
  <1>6. CASE PanicRollback(c)
    BY <1>1, <1>6 DEF PanicRollback, Leave, Fits, Outcome
  <1>7. QED
    BY <1>2, <1>3, <1>4, <1>5, <1>6 DEF Ends

LEMMA OutcomesNext == StackIInv /\ Outcomes /\ [Next]_vars => Outcomes'
  <1> SUFFICES ASSUME StackIInv, Outcomes, [Next]_vars PROVE Outcomes'
    OBVIOUS
  <1>1. started \in 0..MaxTx /\ 1..started \subseteq TxId /\ \A id \in TxId : id # 0
    BY BoundsAssumption DEF StackIInv, Shape, TxId
  <1>2. ASSUME \A id \in TxId : Running(id)' <=> Running(id),
               UNCHANGED <<started, written, applied, observed>>
        PROVE  Outcomes'
    BY <1>2, NoOutcome DEF Outcomes
  <1>3. \A c \in Callers : stack[c] # <<>> /\ Top(c).kind = "tx" =>
          /\ Top(c).id \in 1..started /\ Top(c).id \in TxId
          /\ Running(Top(c).id)
    <2> SUFFICES ASSUME NEW c \in Callers, stack[c] # <<>>, Top(c).kind = "tx"
                 PROVE  /\ Top(c).id \in 1..started /\ Top(c).id \in TxId
                        /\ Running(Top(c).id)
      OBVIOUS
    <2>1. Len(stack[c]) \in DOMAIN stack[c] /\ Top(c) = stack[c][Len(stack[c])]
      BY TopType DEF StackIInv
    <2>2. QED
      BY <1>1, <2>1, TopSound DEF Running
  <1>4. CASE UNCHANGED vars
    BY <1>2, <1>4, RunsSame DEF vars, txs
  <1>5. CASE Quiet
    <2>1. stack' = stack
      BY <1>5, QuietEffect
    <2>2. \A id \in TxId : Running(id)' <=> Running(id)
      BY <2>1, RunsSame
    <2>3. ASSUME NEW c \in Callers, Statement(c) PROVE Outcomes'
      <3>1. /\ written' = [written EXCEPT ![Top(c).id] = @ + 1]
            /\ written[Top(c).id] < MaxWrites
            /\ UNCHANGED <<started, applied, observed>>
            /\ stack[c] # <<>> /\ Top(c).kind = "tx"
        BY <2>3 DEF Statement, InTx
      <3>2. Running(Top(c).id) /\ Top(c).id \in TxId
        BY <1>3, <3>1
      <3>3. written' \in [TxId -> 0..MaxWrites]
        BY <3>1, <3>2, BoundsAssumption DEF Outcomes
      <3>4. \A i \in TxId : ~Running(i) => written'[i] = written[i]
        BY <3>1, <3>2 DEF Outcomes
      <3>5. QED
        BY <2>2, <3>1, <3>3, <3>4, NoOutcome
    <2>4. ASSUME NEW c \in Callers, DoWithoutPool(c) PROVE Outcomes'
      <3> DEFINE t == started + 1
      <3>1. /\ started' = t /\ t \in TxId /\ t \in Nat
            /\ observed' = [observed EXCEPT ![t] = Append(@, "pool_missing")]
            /\ UNCHANGED <<written, applied>>
        BY <1>1, <2>4, BoundsAssumption DEF DoWithoutPool, Observe, TxId
      <3>2. observed[t] = <<>> /\ applied[t] = 0
        BY <1>1, <3>1 DEF Outcomes, OutcomeInv
      <3>3. observed' = [observed EXCEPT ![t] = <<"pool_missing">>]
        BY <3>1, <3>2 DEF Outcomes
      <3>4. <<"pool_missing">> \in Seq(Outcome) /\ Len(<<"pool_missing">>) = 1
            /\ <<"pool_missing">>[1] = "pool_missing"
        BY DEF Outcome
      <3>5. /\ observed' \in [TxId -> Seq(Outcome)]
            /\ observed'[t] = <<"pool_missing">>
            /\ \A i \in TxId \ {t} : observed'[i] = observed[i]
        BY <3>1, <3>3, <3>4 DEF Outcomes
      <3>6. OutcomeInv'
        <4> SUFFICES ASSUME NEW i \in TxId, i <= started' => Running(i)'
                     PROVE  observed'[i] = <<>> /\ applied'[i] = 0
          BY DEF OutcomeInv
        <4>1. ~Running(t)
          <5>1. \A d \in Callers : \A j \in DOMAIN stack[d] : stack[d][j].id \in 0..started
            BY <1>1, <3>1 DEF StackIInv, StackInv
          <5>2. t \notin 0..started
            BY <1>1
          <5>3. QED
            BY <5>1, <5>2 DEF Running
        <4>2. i # t
          BY <2>2, <3>1, <4>1
        <4>3. i <= started => Running(i)
          BY <1>1, <2>2, <3>1, BoundsAssumption DEF TxId
        <4>4. QED
          BY <3>1, <3>5, <4>2, <4>3 DEF Outcomes, OutcomeInv
      <3>7. OutcomeIsTrue'
        <4> SUFFICES ASSUME NEW i \in 1..started', ~Running(i)'
                     PROVE  Len(observed'[i]) = 1 /\ Fits(observed'[i][1], applied[i], written[i])
          BY <3>1 DEF OutcomeIsTrue, Fits
        <4>1. CASE i = t
          BY <3>2, <3>4, <3>5, <4>1 DEF Fits
        <4>2. CASE i # t
          <5>1. i \in 1..started /\ i \in TxId
            BY <1>1, <3>1, <4>2
          <5>2. ~Running(i)
            BY <2>2, <5>1
          <5>3. QED
            BY <3>5, <4>2, <5>1, <5>2, OutcomesOf
        <4>3. QED
          BY <4>1, <4>2
      <3>8. QED
        BY <3>1, <3>5, <3>6, <3>7 DEF Outcomes
    <2>5. CASE \/ NewMaster \/ NewReadOnly \/ RegisterCollector
               \/ Close \/ \E r \in Role : CloseReturns(r)
      <3>1. UNCHANGED txs
        BY <2>5 DEF NewMaster, NewReadOnly, RegisterCollector, Close, CloseReturns
      <3>2. QED
        BY <1>2, <2>2, <3>1 DEF txs
    <2>6. QED
      BY <1>5, <2>3, <2>4, <2>5 DEF Quiet
  <1>6. ASSUME NEW c \in Callers, NEW m \in Metas, Do(c, m) PROVE Outcomes'
    <2>1. started' = started + 1 /\ started' \in TxId /\ UNCHANGED <<written, applied, observed>>
      BY <1>1, <1>6, BoundsAssumption DEF Do, TxId
    <2>2. \A id \in TxId : Running(id)' <=> Running(id) \/ id = started'
      BY <1>6, DoEffect, RunsPushed
    <2>3. QED
      BY <2>1, <2>2, OutcomeOpens
  <1>7. ASSUME NEW c \in Callers, NEW kind \in {"statement", "ping", "scrape"}, NEW r \in Role,
               Begin(c, kind, r)
        PROVE  Outcomes'
    <2>1. PICK call \in Calls : call.id = 0 /\ Pushed(c, call)
      BY <1>7, BeginEffect
    <2>2. \A id \in TxId : Running(id)' <=> Running(id)
      BY <1>1, <2>1, RunsPushed
    <2>3. QED
      BY <1>2, <1>7, <2>2 DEF Begin, txs
  <1>8. ASSUME NEW c \in Callers, stack[c] # <<>>, Top(c).kind # "tx",
               Popped(c) \/ \E call \in Calls : call.conn = "none" /\ call.id = 0 /\ Renewed(c, call),
               UNCHANGED txs
        PROVE  Outcomes'
    <2>1. Top(c).id = 0
      BY <1>8, TopSound
    <2>2. \A id \in TxId : Running(id)' <=> Running(id)
      BY <1>1, <1>8, <2>1, RunsPopped, RunsRenewed
    <2>3. QED
      BY <1>2, <1>8, <2>2 DEF txs
  <1>9. ASSUME NEW c \in Callers, AcquireFails(c) PROVE Outcomes'
    <2>1. /\ stack[c] # <<>>
          /\ \/ Popped(c)
             \/ /\ Top(c).kind # "tx"
                /\ \E call \in Calls : call.conn = "none" /\ call.id = 0 /\ Renewed(c, call)
      BY <1>9, AcquireFailsEffect
    <2>2. CASE Top(c).kind = "tx"
      <3>1. /\ Observe(Top(c).id, "acquire_connection_failed")
            /\ UNCHANGED <<started, written, applied>>
        BY <1>9, <2>2 DEF AcquireFails, GiveUp
      <3>2. Running(Top(c).id) /\ Top(c).id \in TxId /\ Top(c).id \in 1..started
        BY <1>3, <2>1, <2>2
      <3>3. \A id \in TxId : Running(id)' <=> Running(id) /\ id # Top(c).id
        BY <2>1, <2>2, RunsPopped
      <3>4. applied[Top(c).id] = 0
        BY <3>2 DEF Outcomes, OutcomeInv
      <3>5. /\ "acquire_connection_failed" \in Outcome
            /\ Fits("acquire_connection_failed", applied'[Top(c).id], written[Top(c).id])
        BY <3>1, <3>4 DEF Fits, Outcome
      <3>6. QED
        BY <3>1, <3>2, <3>3, <3>5, OutcomeSettles
    <2>3. CASE Top(c).kind # "tx"
      <3>1. UNCHANGED txs
        BY <1>9, <2>3 DEF AcquireFails, GiveUp, txs
      <3>2. QED
        BY <1>8, <2>1, <2>3, <3>1
    <2>4. QED
      BY <2>2, <2>3
  <1>10. ASSUME NEW c \in Callers, BeginTxFails(c) PROVE Outcomes'
    <2>1. /\ Observe(Top(c).id, "begin_failed")
          /\ UNCHANGED <<started, written, applied>>
      BY <1>10 DEF BeginTxFails
    <2>2. stack[c] # <<>> /\ Top(c).kind = "tx" /\ Popped(c)
      BY <1>10, BeginTxFailsEffect
    <2>3. Running(Top(c).id) /\ Top(c).id \in TxId /\ Top(c).id \in 1..started
      BY <1>3, <2>2
    <2>4. \A id \in TxId : Running(id)' <=> Running(id) /\ id # Top(c).id
      BY <2>2, RunsPopped
    <2>5. applied[Top(c).id] = 0
      BY <2>3 DEF Outcomes, OutcomeInv
    <2>6. /\ "begin_failed" \in Outcome
          /\ Fits("begin_failed", applied'[Top(c).id], written[Top(c).id])
      BY <2>1, <2>5 DEF Fits, Outcome
    <2>7. QED
      BY <2>1, <2>3, <2>4, <2>6, OutcomeSettles
  <1>11. ASSUME NEW c \in Callers, Ends(c) PROVE Outcomes'
    <2>1. /\ stack[c] # <<>> /\ Top(c).kind = "tx" /\ Popped(c) /\ started' = started
          /\ \E outcome \in Outcome, panics \in BOOLEAN : Leave(c, outcome, panics)
      BY <1>11, EndsEffect
    <2>2. Running(Top(c).id) /\ Top(c).id \in TxId /\ Top(c).id \in 1..started
      BY <1>3, <2>1
    <2>3. \A id \in TxId : Running(id)' <=> Running(id) /\ id # Top(c).id
      BY <2>1, RunsPopped
    <2>4. written' = written
      BY <2>1 DEF Leave
    <2>5. PICK outcome \in Outcome :
             /\ Observe(Top(c).id, outcome)
             /\ applied' = applied \/ applied' = [applied EXCEPT ![Top(c).id] = written[Top(c).id]]
             /\ Fits(outcome, applied'[Top(c).id], written[Top(c).id])
      BY <1>11, <2>2, EndsFit
    <2>6. QED
      BY <2>1, <2>2, <2>3, <2>4, <2>5, OutcomeSettles
  <1>12. ASSUME NEW c \in Callers, Query(c) PROVE Outcomes'
    BY <1>8, <1>12, QueryEffect DEF Query
  <1>13. ASSUME NEW c \in Callers,
                \/ Acquire(c) \/ BeginTx(c) \/ StatementFails(c) \/ CallbackReturns(c)
                \/ CancelContext(c)
         PROVE  Outcomes'
    <2>1. UNCHANGED <<started, written, applied, observed>>
      BY <1>13 DEF Acquire, BeginTx, StatementFails, CallbackReturns, CancelContext, txs
    <2>2. Ats = {"acquiring", "acquired"} \cup OpenAts /\ Conns = {"none", "idle"} \cup OpenConns
          /\ "tx" \in OpenConns /\ "callback" \in OpenAts
      BY DEF Ats, Conns, OpenAts, OpenConns
    <2>3. \/ Cancelled(c)
          \/ stack[c] # <<>> /\ \E at \in Ats, conn \in Conns : TopSet(c, at, conn)
      <3>1. CASE Acquire(c)
        BY <2>2, <3>1, AcquireEffect DEF Acquire
      <3>2. CASE BeginTx(c)
        BY <2>2, <3>2, BeginTxEffect
      <3>3. CASE StatementFails(c) \/ CallbackReturns(c)
        BY <2>2, <3>3, InCallbackEffect
      <3>4. CASE CancelContext(c)
        BY <3>4, CancelSound
      <3>5. QED
        BY <1>13, <3>1, <3>2, <3>3, <3>4
    <2>4. QED
      BY <1>2, <2>1, <2>3, RunsSame
  <1>14. QED
    BY <1>4, <1>5, <1>6, <1>7, <1>9, <1>10, <1>11, <1>12, <1>13, Cases

-----------------------------------------------------------------------------
(* Together.                                                               *)

IInv ==
    /\ StackIInv
    /\ PoolsInv
    /\ FreeType /\ Conserved
    /\ ActiveType /\ Counted
    /\ Outcomes

LEMMA IInvInit == Init => IInv
  <1> SUFFICES ASSUME Init PROVE IInv
    OBVIOUS
  <1>1. \A K : Cardinality(In(K)) = 0
    <2>1. \A c \in Callers : 1..Len(stack[c]) = {}
      BY DEF Init
    <2>2. \A K : In(K) = {}
      BY <2>1 DEF In, Slots
    <2>3. QED
      BY <2>2, FS_EmptySet
  <1>2. FreeType /\ Conserved
    BY <1>1, PoolSizeAssumption DEF Init, FreeType, Conserved, Held
  <1>3. ActiveType /\ Counted
    BY <1>1 DEF Init, ActiveType, Counted, OpenNr
  <1>4. Outcomes
    <2>1. <<>> \in Seq(Outcome)
      OBVIOUS
    <2>2. OutcomeInv /\ OutcomeIsTrue
      BY DEF Init, OutcomeInv, OutcomeIsTrue
    <2>3. QED
      BY <2>1, <2>2, BoundsAssumption DEF Init, Outcomes
  <1>5. QED
    BY <1>2, <1>3, <1>4, StackInit, PoolsInit DEF IInv

LEMMA IInvNext == IInv /\ [Next]_vars => IInv'
  BY StackNext, PoolsNext, ConservedNext, ActiveNext, OutcomesNext DEF IInv

\* Only execute is called inside a callback: another call is alone on its
\* stack, and has no connection while it waits for one.
LEMMA WaitersAreTransactions == IInv => NoHoldAndWait
  <1> SUFFICES ASSUME IInv, NEW c \in Callers, stack[c] # <<>>, Top(c).at = "acquiring",
                      NEW r \in Role, Holds(c, r) # {}, Top(c).kind # "tx"
               PROVE  FALSE
    BY DEF NoHoldAndWait
  <1>1. Top(c).conn = "none" /\ Len(stack[c]) = 1 /\ Top(c) = stack[c][1]
    BY TopSound DEF IInv
  <1>2. DOMAIN stack[c] = {1}
    BY <1>1 DEF IInv, StackIInv, Shape
  <1>3. QED
    BY <1>1, <1>2 DEF Holds

LEMMA IInvImplies == IInv => ExecuteSettlesEverything
  <1> SUFFICES ASSUME IInv PROVE ExecuteSettlesEverything
    OBVIOUS
  <1>1. Shape
    BY DEF IInv, StackIInv
  <1>2. TypeOK
    BY DEF IInv, StackIInv, Shape, PoolsInv, FreeType, ActiveType, Outcomes, TypeOK
  <1>3. ConnectionsConserved
    BY <1>1, CountedSets DEF IInv, Conserved, Held, ConnectionsConserved
  <1>4. ActiveCountsOpenTransactions
    BY <1>1, CountedSets DEF IInv, Counted, OpenNr, ActiveCountsOpenTransactions
  <1>5. OutcomeIsTrue
    BY DEF IInv, Outcomes
  <1>6. NoHoldAndWait
    BY WaitersAreTransactions
  <1>7. FailedConstructionLeavesNoPool
    BY DEF IInv, PoolsInv, PoolInv, FailedConstructionLeavesNoPool
  <1>8. QED
    BY <1>2, <1>3, <1>4, <1>5, <1>6, <1>7 DEF ExecuteSettlesEverything

\* However execute ends, each connection is given back once, the gauge counts the
\* open transactions, one outcome is counted and it is what became of the writes,
\* and only execute inside a callback waits for a connection while its caller
\* holds one; a construction that fails leaves no pool.
THEOREM ExecuteSettles == Spec => []ExecuteSettlesEverything
  <1>1. Init => IInv
    BY IInvInit
  <1>2. IInv /\ [Next]_vars => IInv'
    BY IInvNext
  <1>3. IInv => ExecuteSettlesEverything
    BY IInvImplies
  <1>4. QED
    BY <1>1, <1>2, <1>3, PTL DEF Spec
=============================================================================
