------------------------------ MODULE StackTrace ------------------------------
(***************************************************************************)
(* Captured stack traces (pkg/smart-span/stacktrace): goroutines take a    *)
(* Stack from a pool, let the runtime write program counters into its      *)
(* storage, read frames from there, and put it back.                       *)
(*                                                                         *)
(* The call stack of a goroutine is 0 .. deep-1 from the inside: 0 is      *)
(* runtime.Callers, 1 is Capture, 2 the function of the package that was   *)
(* called, 3 its caller.                                                   *)
(***************************************************************************)
EXTENDS Naturals, Sequences

CONSTANTS Goroutines,
          Stacks,    \* identities of Stack objects
          Full,      \* the length of a new storage (64)
          Depths,    \* how deep call stacks may be
          Skips      \* the skip callers pass

\* What the constants may be; the module that instantiates this one assumes it.
StackTraceAssumption ==
  /\ Full \in Nat \ {0, 1} /\ Skips \subseteq Nat /\ Depths \subseteq Nat
  /\ \A d \in Depths, s \in Skips : d > s + 3
  /\ "none" \notin Stacks

None == "none"
Kinds == {"Take", "TakeOnceCalledFunction", "CallerFunctionName", "TakeCallerFunctionInfo"}
FixedSkip == {"TakeOnceCalledFunction", "TakeCallerFunctionInfo"}
DepthOf(kind) == IF kind = "Take" THEN "Full" ELSE "First"

VARIABLES
  free,   \* the stacks in the pool
  size,   \* the length of the storage of each stack, 0 when there is none
  cells,  \* what its storage holds: whose frames, and which
  pc,     \* of each goroutine: "idle", "captured", "done"
  call,   \* what it called, with which skip, how deep
  stack,  \* the stack it uses
  pcs,    \* how many program counters it captured
  out     \* the frames it has read

vars == <<free, size, cells, pc, call, stack, pcs, out>>

Frame(g, k) == [of |-> g, at |-> k]
IdleCall == [kind |-> "Take", skip |-> 0, deep |-> 4]

\* One type invariant: a stack of the pool is in nobody's hands.
TypeOK ==
  /\ free \subseteq Stacks
  /\ \A s \in free : size[s] >= Full
  /\ pc \in [Goroutines -> {"idle", "captured", "done"}]
  /\ stack \in [Goroutines -> Stacks \cup {None}]
  /\ pcs \in [Goroutines -> Nat]
  /\ \A g \in Goroutines : stack[g] # None =>
       stack[g] \notin free /\ pcs[g] <= size[stack[g]]

Init ==
  /\ free = {} /\ size = [s \in Stacks |-> 0] /\ cells = [s \in Stacks |-> <<>>]
  /\ pc = [g \in Goroutines |-> "idle"] /\ call = [g \in Goroutines |-> IdleCall]
  /\ stack = [g \in Goroutines |-> None] /\ pcs = [g \in Goroutines |-> 0]
  /\ out = [g \in Goroutines |-> <<>>]

-----------------------------------------------------------------------------
\* How many frames runtime.Callers(skip + 2) finds, and how many fit.
Available(deep, skip) == deep - (skip + 2)
Fitting(n, room) == IF n < room THEN n ELSE room

\* The storage doubles until there is room to spare.
Grow(had, n) ==
  LET grow[m \in Nat] == IF Fitting(n, m) = m THEN grow[m * 2] ELSE m
  IN grow[had]

\* Capture(skip, depth): First uses two cells of the storage, Full as many as
\* it takes.
Capture(g, s, skip, depth, deep) ==
  LET had == IF size[s] = 0 THEN Full ELSE size[s]
      n == Available(deep, skip)
      room == IF depth = "First" THEN 2 ELSE Grow(had, n)
  IN /\ size' = [size EXCEPT ![s] = IF depth = "First" THEN had ELSE room]
     /\ cells' = [cells EXCEPT ![s] = [i \in 1 .. Fitting(n, room) |-> Frame(g, skip + 1 + i)]]
     /\ pcs' = [pcs EXCEPT ![g] = Fitting(n, room)]
     /\ stack' = [stack EXCEPT ![g] = s]

\* Get: a stack of the pool, or a new one, as sync.Pool sees fit.
Taken(s) == \E g \in Goroutines : stack[g] = s
Pooled(s) == s \in free \/ (~Taken(s) /\ size[s] = 0)

\* Take(skip), TakeOnceCalledFunction, CallerFunctionName(skip) and
\* TakeCallerFunctionInfo.
Begin(g) ==
  /\ pc[g] = "idle"
  /\ \E s \in Stacks, kind \in Kinds, skip \in Skips, deep \in Depths :
       /\ Pooled(s)
       /\ LET inner == IF kind \in FixedSkip THEN 1 ELSE skip + 1
          IN Capture(g, s, inner, DepthOf(kind), deep)
       /\ call' = [call EXCEPT ![g] = [kind |-> kind, skip |-> skip, deep |-> deep]]
       /\ free' = free \ {s}
  /\ pc' = [pc EXCEPT ![g] = "captured"]
  /\ out' = [out EXCEPT ![g] = <<>>]

\* Whether the frames of the trace are read to the last one, or the first.
Wanted(g) == IF call[g].kind \in {"CallerFunctionName", "TakeCallerFunctionInfo"} THEN 1 ELSE pcs[g]

\* FormatStack, one frame at a time: it is read from the storage now.
NextFrame(g) ==
  /\ pc[g] = "captured" /\ Len(out[g]) < Wanted(g)
  /\ out' = [out EXCEPT ![g] = Append(@, cells[stack[g]][Len(@) + 1])]
  /\ UNCHANGED <<free, size, cells, pc, call, stack, pcs>>

\* A bug: the stack goes back to the pool before its frames are read.
Free_Early(g) ==
  /\ pc[g] = "captured"
  /\ free' = free \cup {stack[g]}
  /\ IF Len(out[g]) = Wanted(g)
       THEN pc' = [pc EXCEPT ![g] = "done"] /\ stack' = [stack EXCEPT ![g] = None]
       ELSE UNCHANGED <<pc, stack>>
  /\ UNCHANGED <<size, cells, call, pcs, out>>

\* The deferred Free.
Free(g) ==
  /\ pc[g] = "captured" /\ Len(out[g]) = Wanted(g)
  /\ free' = free \cup {stack[g]}
  /\ stack' = [stack EXCEPT ![g] = None]
  /\ pc' = [pc EXCEPT ![g] = "done"]
  /\ UNCHANGED <<size, cells, call, pcs, out>>

\* The caller goes on, to call again later.
Return(g) ==
  /\ pc[g] = "done"
  /\ pc' = [pc EXCEPT ![g] = "idle"] /\ out' = [out EXCEPT ![g] = <<>>]
  /\ call' = [call EXCEPT ![g] = IdleCall] /\ pcs' = [pcs EXCEPT ![g] = 0]
  /\ UNCHANGED <<free, size, cells, stack>>

\* sync.Pool gives a stack up at a garbage collection.
Drop(s) ==
  /\ s \in free
  /\ free' = free \ {s}
  /\ size' = [size EXCEPT ![s] = 0] /\ cells' = [cells EXCEPT ![s] = <<>>]
  /\ UNCHANGED <<pc, call, stack, pcs, out>>

Next ==
  \/ \E g \in Goroutines : Begin(g) \/ NextFrame(g) \/ Free(g) \/ Return(g)
  \/ \E s \in Stacks : Drop(s)

Spec == Init /\ [][Next]_vars

-----------------------------------------------------------------------------
\* The frames a goroutine has read are its own, from the caller it asked for
\* outwards, whatever other goroutines capture meanwhile.
ReadsOwnFrames ==
  \A g \in Goroutines : \A i \in DOMAIN out[g] :
    LET first == IF call[g].kind \in FixedSkip THEN 3 ELSE call[g].skip + 3
    IN out[g][i] = Frame(g, first + i - 1)

\* A full trace goes out to the outermost frame, also where the call stack
\* just fills the storage.
FullTraceIsComplete ==
  \A g \in Goroutines : pc[g] = "done" /\ call[g].kind = "Take" =>
    Len(out[g]) = call[g].deep - (call[g].skip + 3)
=============================================================================
