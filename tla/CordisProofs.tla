---------------------------- MODULE CordisProofs ----------------------------
(***************************************************************************)
(* For any threads, scopes and effects: effects unwind with their scope,   *)
(* each one once and the youngest first, and an unmounted fiber is closed. *)
(*                                                                         *)
(* The frames of a thread are counted from the oldest, so that a push or a *)
(* pop leaves the others where they are.  The inductive invariant says of  *)
(* each frame what it has claimed: an effect that it is to insert or to    *)
(* run, or a scope that it disposes; no other frame has claimed the same.  *)
(*                                                                         *)
(* For any threads, events and handlers: the bus calls whom it promises to *)
(* call, with the payload they were registered for, and answers the first  *)
(* failure.                                                                *)
(*                                                                         *)
(* For any registry of plugins: what the runtime shows of a plugin agrees  *)
(* with its switch and its fiber, and a start does not depend on the order *)
(* of the registry (last part of the module; the three share no state).    *)
(***************************************************************************)
EXTENDS CordisContext, EventBus, CordisRuntime, WellFoundedInduction, SequenceTheorems,
        FiniteSetTheorems, TLAPS

Ops == {"install", "mount", "dispose", "drop", "unmount"}
Places == {"walk", "insert", "body", "failed", "run", "begin", "fibers", "fiber",
           "mark", "end"}
Frames == [op : Ops, scope : Scopes, arg : Nat, cursor : Scopes, at : Places,
           fibers : SUBSET Fibers, effects : SUBSET Effects]

(* The frame of a stack at a depth, the oldest at 1.                       *)
Level(q, d) == q[Len(q) + 1 - d]

(* What a dispose has been through with is closed.                         *)
Closed(st, s) == st[s] \in {"Disposing", "Disposed"}

(* A frame that waits for the dispose above it.                            *)
Waits(f) == f.at \in {"failed", "fiber", "end"}

Ran(rs, e) == \E i \in DOMAIN rs : rs[i] = e

(* The frames of a stack are at the places of their operations, and know   *)
(* scopes and fibers that there are.                                       *)
WellPlaced(f) ==
  \/ f.op = "install" /\ f.at \in {"walk", "insert"} /\ f.arg \in Effects
  \/ f.op = "mount" /\ f.at \in {"walk", "insert"}
  \/ f.op = "mount" /\ f.at \in {"body", "failed"} /\ f.arg \in Fibers
  \/ f.op = "drop" /\ f.at = "run" /\ f.arg \in Effects
  \/ f.op = "dispose" /\ f.at \in {"begin", "fibers"}
  \/ f.op = "dispose" /\ f.at = "fiber" /\ f.arg \in Fibers
  \/ f.op = "unmount" /\ f.at \in {"mark", "end"} /\ f.arg \in Fibers

Known(f, st, fb) ==
  /\ st[f.scope] # "none"
  /\ f.at \in {"body", "failed", "fiber", "mark", "end"} => fb[f.arg] # "none"
  /\ \A g \in f.fibers : fb[g] # "none"

(* What a frame has claimed is as it left it.                              *)
Claims(f, st, ef, ow, rs) ==
  /\ f.op = "install" => \A r \in Scopes : ef[r][f.arg] = "none"
  /\ f.op = "drop" => ef[f.scope][f.arg] = "Disposing" /\ f.arg \notin ow[f.scope]
  /\ f.op = "dispose" /\ f.at = "begin" => f.fibers = {}
  /\ f.op = "dispose" /\ f.at # "begin" =>
       /\ st[f.scope] = "Disposing"
       /\ f.effects = {e \in ow[f.scope] : ~Ran(rs, e)}
       /\ f.fibers = {} \/ \A e \in ow[f.scope] : ~Ran(rs, e)

(* Frames below the top wait for the dispose above them, or the plugin's   *)
(* mount runs above them; at the top, the dispose has been.                *)
Stacked(q, d, st) ==
  /\ d < Len(q) => \/ Level(q, d).at = "body"
                   \/ /\ Waits(Level(q, d))
                      /\ Level(q, d + 1).op = "dispose"
                      /\ Level(q, d + 1).scope = Level(q, d).arg
  /\ d = Len(q) /\ Waits(Level(q, d)) => Closed(st, Level(q, d).arg)

FrameInv ==
  \A t \in Threads : \A d \in 1 .. Len(stack[t]) :
    /\ WellPlaced(Level(stack[t], d))
    /\ Known(Level(stack[t], d), state, fiber)
    /\ Claims(Level(stack[t], d), state, effects, owed, runs)
    /\ Stacked(stack[t], d, state)

(* No two frames claim the same.                                           *)
Rivals(f, g) ==
  \/ f.op = "install" /\ g.op = "install" /\ f.arg = g.arg
  \/ f.op = "drop" /\ g.op = "drop" /\ f.arg = g.arg
  \/ /\ f.op = "dispose" /\ f.at # "begin" /\ g.op = "dispose" /\ g.at # "begin"
     /\ f.scope = g.scope

AloneInv ==
  \A t, u \in Threads : \A d \in 1 .. Len(stack[t]), c \in 1 .. Len(stack[u]) :
    Rivals(Level(stack[t], d), Level(stack[u], c)) => t = u /\ d = c

StackTypeOK ==
  /\ stack \in [Threads -> Seq(Frames)]
  /\ parent \in [Scopes -> Scopes]
  /\ registered \in [Scopes -> SUBSET Fibers]
  /\ runs \in Seq(Effects)
  /\ owed \in [Scopes -> SUBSET Effects]

(* Fibers are made in their order.                                         *)
TreeInv ==
  /\ state[Root] # "none"
  /\ \A f, g \in Fibers : g < f /\ fiber[f] # "none" => fiber[g] # "none"

(* An effect is in one scope; it was run when its record says Disposed;    *)
(* and what a scope owes it has taken when it began to be disposed.        *)
EffectInv ==
  /\ \A r, s \in Scopes, e \in Effects :
       effects[r][e] # "none" /\ effects[s][e] # "none" => r = s
  /\ \A e \in Effects : Ran(runs, e) <=> \E s \in Scopes : effects[s][e] = "Disposed"
  /\ \A s \in Scopes : \A e \in owed[s] : effects[s][e] \in {"Disposing", "Disposed"}
  /\ \A s \in Scopes : state[s] \in {"none", "Active"} => owed[s] = {}
  /\ \A s \in Scopes : state[s] = "Disposed" => \A e \in owed[s] : Ran(runs, e)

RunsInv ==
  /\ \A i, j \in DOMAIN runs : runs[i] = runs[j] => i = j
  /\ \A s \in Scopes : \A d, e \in owed[s] :
       d < e /\ Ran(runs, d) =>
         \E i, j \in DOMAIN runs : i < j /\ runs[i] = e /\ runs[j] = d

CordisIInv ==
  /\ CordisTypeOK /\ StackTypeOK /\ TreeInv /\ FrameInv /\ AloneInv
  /\ EffectInv /\ RunsInv /\ UnmountedIsClosed
----------------------------------------------------------------------------
(* Every set of numbers has a least one, and a bounded one a greatest one. *)
LEMMA LeastExists ==
  ASSUME NEW S \in SUBSET Nat, S # {}
  PROVE  \E n \in S : \A m \in S : n <= m
<1> DEFINE Less == OpToRel(<, Nat)
<1>1. \E n \in S : \A m \in S : <<m, n>> \notin Less
  BY NatLessThanWellFounded, WFMin
<1>2. \A m, n \in Nat : m < n => <<m, n>> \in Less
  BY DEF OpToRel
<1> HIDE DEF Less
<1>3. PICK n \in S : \A m \in S : <<m, n>> \notin Less
  BY <1>1
<1>4. ASSUME NEW m \in S PROVE n <= m
  <2>1. m \in Nat /\ n \in Nat
    OBVIOUS
  <2>2. ~(m < n)
    BY <1>2, <1>3, <2>1
  <2> QED
    BY <2>1, <2>2
<1> QED
  BY <1>4

LEMMA GreatestExists ==
  ASSUME NEW n \in Nat, NEW S \in SUBSET (1 .. n), S # {}
  PROVE  \E m \in S : \A k \in S : m >= k
<1> DEFINE T == {n - m : m \in S}
<1>1. \A m \in S : m \in 1 .. n /\ n - m \in Nat
  OBVIOUS
<1>2. T \in SUBSET Nat /\ T # {}
  BY <1>1
<1>3. PICK k \in T : \A m \in T : k <= m
  BY <1>2, LeastExists, Zenon
<1>4. PICK m \in S : k = n - m
  OBVIOUS
<1>5. ASSUME NEW j \in S PROVE m >= j
  <2>1. n - m <= n - j
    BY <1>3, <1>4
  <2>2. m \in Nat /\ j \in Nat
    BY <1>1
  <2> QED
    BY <2>1, <2>2
<1> QED
  BY <1>5

LEMMA MinIsLeast ==
  ASSUME NEW S \in SUBSET Nat, S # {}
  PROVE  Min(S) \in S /\ \A m \in S : Min(S) <= m
BY LeastExists DEF Min

LEMMA MaxIsGreatest ==
  ASSUME NEW S \in SUBSET Effects, S # {}
  PROVE  Max(S) \in S /\ \A m \in S : Max(S) >= m
BY GreatestExists, CordisAssumption DEF Max, Effects
----------------------------------------------------------------------------
(* What a push, a pop and a change of the top do to the levels.            *)
LEMMA PushLevels ==
  ASSUME NEW q \in Seq(Frames), NEW f \in Frames
  PROVE  /\ <<f>> \o q \in Seq(Frames) /\ Len(<<f>> \o q) = Len(q) + 1
         /\ Level(<<f>> \o q, Len(q) + 1) = f
         /\ \A d \in 1 .. Len(q) : Level(<<f>> \o q, d) = Level(q, d)
<1>1. <<f>> \in Seq(Frames) /\ Len(<<f>>) = 1 /\ <<f>>[1] = f /\ Len(q) \in Nat
  OBVIOUS
<1>2. /\ <<f>> \o q \in Seq(Frames)
      /\ Len(<<f>> \o q) = Len(q) + 1
      /\ \A i \in 1 .. Len(q) + 1 : (<<f>> \o q)[i] = IF i <= 1 THEN <<f>>[i] ELSE q[i - 1]
  BY <1>1, ConcatProperties
<1>3. Level(<<f>> \o q, Len(q) + 1) = f
  BY <1>1, <1>2 DEF Level
<1>4. ASSUME NEW d \in 1 .. Len(q)
      PROVE  Level(<<f>> \o q, d) = Level(q, d)
  <2>1. /\ Len(q) + 1 + 1 - d \in 2 .. Len(q) + 1
        /\ (Len(q) + 1 + 1 - d) - 1 = Len(q) + 1 - d
    BY <1>1
  <2>2. (<<f>> \o q)[Len(q) + 1 + 1 - d] = q[(Len(q) + 1 + 1 - d) - 1]
    BY <1>2, <2>1
  <2> QED
    BY <1>2, <2>1, <2>2 DEF Level
<1> QED
  BY <1>2, <1>3, <1>4

LEMMA PopLevels ==
  ASSUME NEW q \in Seq(Frames), q # <<>>
  PROVE  /\ Len(q) \in Nat \ {0}
         /\ Head(q) \in Frames /\ Head(q) = Level(q, Len(q))
         /\ Tail(q) \in Seq(Frames) /\ Len(Tail(q)) = Len(q) - 1
         /\ \A d \in 1 .. Len(q) - 1 : Level(Tail(q), d) = Level(q, d)
<1>1. Len(q) \in Nat \ {0}
  BY EmptySeq
<1>2. /\ Head(q) \in Frames /\ Tail(q) \in Seq(Frames) /\ Len(Tail(q)) = Len(q) - 1
      /\ \A i \in 1 .. Len(q) - 1 : Tail(q)[i] = q[i + 1]
  BY <1>1, HeadTailProperties
<1>3. Head(q) = Level(q, Len(q))
  BY <1>1 DEF Level
<1>4. ASSUME NEW d \in 1 .. Len(q) - 1
      PROVE  Level(Tail(q), d) = Level(q, d)
  <2>1. Len(q) - d \in 1 .. Len(q) - 1 /\ (Len(q) - 1) + 1 - d = Len(q) - d
        /\ (Len(q) - d) + 1 = Len(q) + 1 - d
    BY <1>1
  <2> QED
    BY <1>2, <2>1 DEF Level
<1> QED
  BY <1>1, <1>2, <1>3, <1>4

(* A step keeps the oldest m frames of thread t and puts fs on them.       *)
Turned(t, m, fs) ==
  /\ stack' \in [Threads -> Seq(Frames)]
  /\ \A u \in Threads \ {t} : stack'[u] = stack[u]
  /\ m \in {Len(stack[t]), Len(stack[t]) - 1} /\ m \in Nat
  /\ Len(stack'[t]) = m + Len(fs)
  /\ \A d \in 1 .. m : Level(stack'[t], d) = Level(stack[t], d)
  /\ \A i \in 1 .. Len(fs) : Level(stack'[t], m + i) = fs[i]

LEMMA PushTurns ==
  ASSUME StackTypeOK, NEW t \in Threads, NEW f \in Frames, Push(t, f)
  PROVE  Turned(t, Len(stack[t]), <<f>>)
<1>1. stack[t] \in Seq(Frames) /\ Len(stack[t]) \in Nat
  BY DEF StackTypeOK
<1>2. stack' = [stack EXCEPT ![t] = <<f>> \o stack[t]]
  BY DEF Push
<1>3. /\ <<f>> \o stack[t] \in Seq(Frames) /\ Len(<<f>> \o stack[t]) = Len(stack[t]) + 1
      /\ Level(<<f>> \o stack[t], Len(stack[t]) + 1) = f
      /\ \A d \in 1 .. Len(stack[t]) : Level(<<f>> \o stack[t], d) = Level(stack[t], d)
  BY <1>1, PushLevels
<1>4. /\ stack' \in [Threads -> Seq(Frames)] /\ stack'[t] = <<f>> \o stack[t]
      /\ \A u \in Threads \ {t} : stack'[u] = stack[u]
  BY <1>2, <1>3 DEF StackTypeOK
<1>5. Len(<<f>>) = 1 /\ <<f>>[1] = f /\ \A i \in 1 .. 1 : i = 1
  OBVIOUS
<1> QED
  BY <1>1, <1>3, <1>4, <1>5 DEF Turned

LEMMA PopTurns ==
  ASSUME StackTypeOK, NEW t \in Threads, stack[t] # <<>>, Pop(t)
  PROVE  Turned(t, Len(stack[t]) - 1, <<>>)
<1>1. stack[t] \in Seq(Frames)
  BY DEF StackTypeOK
<1>2. stack' = [stack EXCEPT ![t] = Tail(stack[t])]
  BY DEF Pop
<1>3. /\ Len(stack[t]) \in Nat \ {0}
      /\ Tail(stack[t]) \in Seq(Frames) /\ Len(Tail(stack[t])) = Len(stack[t]) - 1
      /\ \A d \in 1 .. Len(stack[t]) - 1 : Level(Tail(stack[t]), d) = Level(stack[t], d)
  BY <1>1, PopLevels
<1>4. /\ stack' \in [Threads -> Seq(Frames)] /\ stack'[t] = Tail(stack[t])
      /\ \A u \in Threads \ {t} : stack'[u] = stack[u]
  BY <1>2, <1>3 DEF StackTypeOK
<1>5. Len(<<>>) = 0
  OBVIOUS
<1> QED
  BY <1>3, <1>4, <1>5 DEF Turned

LEMMA GotoTurns ==
  ASSUME StackTypeOK, NEW t \in Threads, stack[t] # <<>>, NEW f \in Frames, Goto(t, f)
  PROVE  Turned(t, Len(stack[t]) - 1, <<f>>)
<1> DEFINE q == Tail(stack[t])
<1>1. stack[t] \in Seq(Frames)
  BY DEF StackTypeOK
<1>2. stack' = [stack EXCEPT ![t] = <<f>> \o q]
  BY DEF Goto
<1>3. /\ Len(stack[t]) \in Nat \ {0}
      /\ q \in Seq(Frames) /\ Len(q) = Len(stack[t]) - 1
      /\ \A d \in 1 .. Len(stack[t]) - 1 : Level(q, d) = Level(stack[t], d)
  BY <1>1, PopLevels
<1> HIDE DEF q
<1>4. /\ <<f>> \o q \in Seq(Frames) /\ Len(<<f>> \o q) = Len(q) + 1
      /\ Level(<<f>> \o q, Len(q) + 1) = f
      /\ \A d \in 1 .. Len(q) : Level(<<f>> \o q, d) = Level(q, d)
  BY <1>3, PushLevels
<1>5. /\ stack' \in [Threads -> Seq(Frames)] /\ stack'[t] = <<f>> \o q
      /\ \A u \in Threads \ {t} : stack'[u] = stack[u]
  BY <1>2, <1>4 DEF StackTypeOK
<1>6. Len(<<f>>) = 1 /\ <<f>>[1] = f /\ \A i \in 1 .. 1 : i = 1
  OBVIOUS
<1>7. Len(stack'[t]) = Len(stack[t]) - 1 + 1 /\ Len(stack[t]) - 1 \in Nat
  BY <1>3, <1>4, <1>5
<1>8. \A d \in 1 .. Len(stack[t]) - 1 : Level(stack'[t], d) = Level(stack[t], d)
  BY <1>3, <1>4, <1>5
<1>9. \A i \in 1 .. 1 : Level(stack'[t], Len(stack[t]) - 1 + i) = <<f>>[i]
  BY <1>3, <1>4, <1>5, <1>6
<1> QED
  BY <1>5, <1>6, <1>7, <1>8, <1>9 DEF Turned

LEMMA CallTurns ==
  ASSUME StackTypeOK, NEW t \in Threads, stack[t] # <<>>, NEW f \in Frames, NEW g \in Frames,
         stack' = [stack EXCEPT ![t] = <<g, f>> \o Tail(@)]
  PROVE  Turned(t, Len(stack[t]) - 1, <<f, g>>)
<1> DEFINE q == Tail(stack[t])
           p == <<f>> \o q
<1>1. stack[t] \in Seq(Frames)
  BY DEF StackTypeOK
<1>2. stack' = [stack EXCEPT ![t] = <<g, f>> \o q]
  OBVIOUS
<1>3. /\ Len(stack[t]) \in Nat \ {0}
      /\ q \in Seq(Frames) /\ Len(q) = Len(stack[t]) - 1
      /\ \A d \in 1 .. Len(stack[t]) - 1 : Level(q, d) = Level(stack[t], d)
  BY <1>1, PopLevels
<1> HIDE DEF q
<1>4. /\ p \in Seq(Frames) /\ Len(p) = Len(q) + 1 /\ Level(p, Len(q) + 1) = f
      /\ \A d \in 1 .. Len(q) : Level(p, d) = Level(q, d)
  BY <1>3, PushLevels
<1>5. <<g, f>> \o q = <<g>> \o p
  <2>1. /\ <<g>> \in Seq(Frames) /\ <<f>> \in Seq(Frames) /\ <<g, f>> \in Seq(Frames)
        /\ Len(<<g>>) = 1 /\ Len(<<f>>) = 1 /\ Len(<<g, f>>) = 2
        /\ <<g>>[1] = g /\ <<f>>[1] = f /\ <<g, f>>[1] = g /\ <<g, f>>[2] = f
    OBVIOUS
  <2>2. /\ <<g>> \o <<f>> \in Seq(Frames) /\ Len(<<g>> \o <<f>>) = 2
        /\ \A i \in 1 .. 2 : (<<g>> \o <<f>>)[i] = <<g, f>>[i]
    BY <2>1, ConcatProperties
  <2>3. <<g>> \o <<f>> = <<g, f>>
    BY <2>1, <2>2, SeqEqual
  <2> QED
    BY <1>3, <2>1, <2>3, ConcatAssociative
<1> HIDE DEF p
<1>6. /\ <<g>> \o p \in Seq(Frames) /\ Len(<<g>> \o p) = Len(p) + 1
      /\ Level(<<g>> \o p, Len(p) + 1) = g
      /\ \A d \in 1 .. Len(p) : Level(<<g>> \o p, d) = Level(p, d)
  BY <1>4, PushLevels
<1>7. /\ stack' \in [Threads -> Seq(Frames)] /\ stack'[t] = <<g>> \o p
      /\ \A u \in Threads \ {t} : stack'[u] = stack[u]
  BY <1>2, <1>5, <1>6 DEF StackTypeOK
<1>8. Len(<<f, g>>) = 2 /\ <<f, g>>[1] = f /\ <<f, g>>[2] = g /\ \A i \in 1 .. 2 : i = 1 \/ i = 2
  OBVIOUS
<1>9. /\ Len(stack'[t]) = (Len(stack[t]) - 1) + 2
      /\ Level(stack'[t], (Len(stack[t]) - 1) + 1) = f
      /\ Level(stack'[t], (Len(stack[t]) - 1) + 2) = g
  <2>1. /\ Len(p) = Len(stack[t]) /\ Len(p) \in 1 .. Len(p)
        /\ Len(q) + 1 = Len(stack[t]) /\ Len(p) + 1 = (Len(stack[t]) - 1) + 2
        /\ (Len(stack[t]) - 1) + 1 = Len(stack[t])
    BY <1>3, <1>4
  <2>2. Level(<<g>> \o p, Len(p)) = f
    BY <1>4, <1>6, <2>1
  <2> QED
    BY <1>6, <1>7, <2>1, <2>2
<1>10. \A d \in 1 .. Len(stack[t]) - 1 : Level(stack'[t], d) = Level(stack[t], d)
  <2>1. \A d \in 1 .. Len(q) : d \in 1 .. Len(p)
    BY <1>3, <1>4
  <2> QED
    BY <1>3, <1>4, <1>6, <1>7, <2>1
<1>11. \A i \in 1 .. Len(<<f, g>>) :
         Level(stack'[t], (Len(stack[t]) - 1) + i) = <<f, g>>[i]
  BY <1>8, <1>9
<1>12. Len(stack[t]) - 1 \in Nat /\ Len(stack'[t]) = (Len(stack[t]) - 1) + Len(<<f, g>>)
  BY <1>3, <1>8, <1>9
<1> QED
  BY <1>7, <1>10, <1>11, <1>12 DEF Turned
----------------------------------------------------------------------------
(* What the frames need of a step.  Those that stay keep what they know    *)
(* and claim; those that are put on the stack are in their places.         *)
Fits(t, m, fs) ==
  /\ \A i \in 1 .. Len(fs) : /\ fs[i] \in Frames /\ WellPlaced(fs[i])
                             /\ Known(fs[i], state', fiber')
                             /\ Claims(fs[i], state', effects', owed', runs')
  /\ Len(fs) \in {0, 1, 2}
  /\ Len(fs) > 0 => ~Waits(fs[Len(fs)])
  /\ Len(fs) = 2 => Waits(fs[1]) /\ fs[2].op = "dispose" /\ fs[2].scope = fs[1].arg
  /\ m = Len(stack[t]) /\ m > 0 => Level(stack[t], m).at = "body"
  /\ m = Len(stack[t]) - 1 =>
       /\ Len(fs) = 0 /\ Level(stack[t], m + 1).op = "dispose" =>
            Closed(state', Level(stack[t], m + 1).scope)
       /\ Len(fs) > 0 => /\ fs[1].op = Level(stack[t], m + 1).op
                         /\ fs[1].scope = Level(stack[t], m + 1).scope

Remains(t, m) ==
  /\ \A s \in Scopes : /\ state[s] # "none" => state'[s] # "none"
                       /\ Closed(state, s) => Closed(state', s)
  /\ \A f \in Fibers : fiber[f] # "none" => fiber'[f] # "none"
  /\ \A u \in Threads : \A d \in 1 .. Len(stack[u]) :
       u # t \/ d <= m => Claims(Level(stack[u], d), state', effects', owed', runs')

LEMMA LevelIsFrame ==
  ASSUME StackTypeOK, NEW t \in Threads, NEW d \in 1 .. Len(stack[t])
  PROVE  Level(stack[t], d) \in Frames
<1>1. stack[t] \in Seq(Frames) /\ Len(stack[t]) + 1 - d \in 1 .. Len(stack[t])
  BY DEF StackTypeOK
<1> QED
  BY <1>1 DEF Level

LEMMA StillKnown ==
  ASSUME NEW t, NEW m, Remains(t, m), NEW f \in Frames, WellPlaced(f), Known(f, state, fiber)
  PROVE  Known(f, state', fiber')
<1>1. f.scope \in Scopes /\ f.fibers \subseteq Fibers
  BY DEF Frames
<1>2. f.at \in {"body", "failed", "fiber", "mark", "end"} => f.arg \in Fibers
  BY DEF WellPlaced
<1> QED
  BY <1>1, <1>2 DEF Known, Remains

LEMMA FramesStep ==
  ASSUME StackTypeOK, FrameInv, NEW t \in Threads, NEW m, NEW fs,
         Turned(t, m, fs), Remains(t, m), Fits(t, m, fs)
  PROVE  FrameInv'
<1>0. /\ Len(stack[t]) \in Nat /\ m \in Nat /\ m <= Len(stack[t])
      /\ Len(fs) \in {0, 1, 2} /\ Len(stack'[t]) = m + Len(fs)
  BY DEF StackTypeOK, Turned, Fits
<1>1. ASSUME NEW u \in Threads, NEW d \in 1 .. Len(stack[u]), u # t \/ d <= m
      PROVE  /\ WellPlaced(Level(stack[u], d))
             /\ Known(Level(stack[u], d), state', fiber')
             /\ Claims(Level(stack[u], d), state', effects', owed', runs')
  BY <1>1, LevelIsFrame, StillKnown DEF FrameInv, Remains
<1>2. ASSUME NEW u \in Threads \ {t}, NEW d \in 1 .. Len(stack'[u])
      PROVE  /\ WellPlaced(Level(stack'[u], d))
             /\ Known(Level(stack'[u], d), state', fiber')
             /\ Claims(Level(stack'[u], d), state', effects', owed', runs')
             /\ Stacked(stack'[u], d, state')
  <2>1. stack'[u] = stack[u]
    BY DEF Turned
  <2>2. Level(stack[u], d) \in Frames /\ Stacked(stack[u], d, state)
    BY <2>1, LevelIsFrame DEF FrameInv
  <2>3. Waits(Level(stack[u], d)) => Level(stack[u], d).arg \in Fibers
    BY <1>2, <2>1 DEF FrameInv, WellPlaced, Waits
  <2>4. Stacked(stack[u], d, state')
    BY <2>2, <2>3 DEF Stacked, Remains, Fibers, Scopes
  <2> QED
    BY <1>1, <2>1, <2>4
<1>3. ASSUME NEW d \in 1 .. m
      PROVE  /\ d \in 1 .. Len(stack[t])
             /\ Level(stack'[t], d) = Level(stack[t], d)
             /\ Stacked(stack[t], d, state)
  BY <1>0 DEF Turned, FrameInv
<1>4. ASSUME NEW i \in 1 .. Len(fs)
      PROVE  /\ Level(stack'[t], m + i) = fs[i]
             /\ WellPlaced(fs[i]) /\ Known(fs[i], state', fiber')
             /\ Claims(fs[i], state', effects', owed', runs')
  BY DEF Turned, Fits
<1>5. ASSUME NEW d \in 1 .. Len(stack'[t])
      PROVE  d \in 1 .. m \/ \E i \in 1 .. Len(fs) : d = m + i
  <2>1. CASE d <= m
    BY <1>0, <2>1
  <2>2. CASE d > m
    <3>1. d - m \in 1 .. Len(fs) /\ d = m + (d - m)
      BY <1>0, <2>2
    <3> QED
      BY <3>1
  <2> QED
    BY <1>0, <2>1, <2>2
<1>6. ASSUME NEW d \in 1 .. m, d < m
      PROVE  Stacked(stack'[t], d, state')
  <2>1. /\ Level(stack'[t], d) = Level(stack[t], d)
        /\ Level(stack'[t], d + 1) = Level(stack[t], d + 1)
        /\ d < Len(stack[t]) /\ d # Len(stack'[t])
    BY <1>0, <1>3, <1>6
  <2> QED
    BY <1>3, <2>1 DEF Stacked
<1>7. ASSUME m > 0
      PROVE  Stacked(stack'[t], m, state')
  <2>1. /\ Level(stack'[t], m) = Level(stack[t], m) /\ Stacked(stack[t], m, state)
        /\ WellPlaced(Level(stack[t], m))
    BY <1>0, <1>3, <1>7 DEF FrameInv
  <2>2. CASE m = Len(stack[t])
    <3>1. Level(stack[t], m).at = "body"
      BY <1>7, <2>2 DEF Fits
    <3> QED
      BY <2>1, <3>1 DEF Stacked, Waits
  <2>3. CASE m = Len(stack[t]) - 1
    <3>1. m < Len(stack[t])
      BY <1>0, <2>3
    <3>2. \/ Level(stack[t], m).at = "body"
          \/ /\ Waits(Level(stack[t], m))
             /\ Level(stack[t], m + 1).op = "dispose"
             /\ Level(stack[t], m + 1).scope = Level(stack[t], m).arg
      BY <2>1, <3>1 DEF Stacked
    <3>3. CASE Level(stack[t], m).at = "body"
      BY <2>1, <3>3 DEF Stacked, Waits
    <3>4. CASE Len(fs) = 0
      <4>1. m = Len(stack'[t])
        BY <1>0, <3>4
      <4>2. Level(stack[t], m).at # "body" => Closed(state', Level(stack[t], m).arg)
        BY <2>3, <3>2, <3>4 DEF Fits
      <4> QED
        BY <2>1, <4>1, <4>2 DEF Stacked, Waits
    <3>5. CASE Len(fs) > 0 /\ Level(stack[t], m).at # "body"
      <4>1. Level(stack'[t], m + 1) = fs[1] /\ m # Len(stack'[t])
        BY <1>0, <1>4, <3>5
      <4>2. fs[1].op = Level(stack[t], m + 1).op /\ fs[1].scope = Level(stack[t], m + 1).scope
        BY <2>3, <3>5 DEF Fits
      <4> QED
        BY <2>1, <3>2, <3>5, <4>1, <4>2 DEF Stacked
    <3> QED
      BY <1>0, <3>3, <3>4, <3>5
  <2> QED
    BY <2>2, <2>3 DEF Turned
<1>8. ASSUME NEW i \in 1 .. Len(fs)
      PROVE  Stacked(stack'[t], m + i, state')
  <2>1. CASE i = Len(fs)
    <3>1. m + i = Len(stack'[t]) /\ Level(stack'[t], m + i) = fs[i] /\ Len(fs) > 0
      BY <1>0, <1>4, <2>1
    <3> QED
      BY <2>1, <3>1 DEF Stacked, Fits
  <2>2. CASE i # Len(fs)
    <3>0. Len(fs) \in {0, 1, 2}
      BY <1>0
    <3>1. i = 1 /\ Len(fs) = 2
      <4>1. CASE Len(fs) = 0
        BY <4>1
      <4>2. CASE Len(fs) = 1
        BY <2>2, <4>2
      <4>3. CASE Len(fs) = 2
        BY <2>2, <4>3
      <4> QED
        BY <3>0, <4>1, <4>2, <4>3
    <3>2. /\ Level(stack'[t], m + 1) = fs[1] /\ Level(stack'[t], m + 1 + 1) = fs[2]
          /\ m + 1 # Len(stack'[t])
      <4>1. Level(stack'[t], m + 1) = fs[1] /\ Level(stack'[t], m + 2) = fs[2]
        BY <1>4, <3>1
      <4> QED
        BY <1>0, <3>1, <4>1
    <3> QED
      BY <3>1, <3>2 DEF Stacked, Fits
  <2> QED
    BY <2>1, <2>2
<1>9. ASSUME NEW d \in 1 .. Len(stack'[t])
      PROVE  /\ WellPlaced(Level(stack'[t], d))
             /\ Known(Level(stack'[t], d), state', fiber')
             /\ Claims(Level(stack'[t], d), state', effects', owed', runs')
             /\ Stacked(stack'[t], d, state')
  <2>1. CASE d \in 1 .. m
    <3>1. d < m \/ d = m
      BY <1>0, <2>1
    <3> QED
      BY <1>0, <1>1, <1>3, <1>6, <1>7, <2>1, <3>1
  <2>2. ASSUME NEW i \in 1 .. Len(fs), d = m + i
        PROVE  /\ WellPlaced(Level(stack'[t], d))
               /\ Known(Level(stack'[t], d), state', fiber')
               /\ Claims(Level(stack'[t], d), state', effects', owed', runs')
               /\ Stacked(stack'[t], d, state')
    BY <1>4, <1>8, <2>2
  <2> QED
    BY <1>5, <2>1, <2>2
<1> QED
  BY <1>2, <1>9 DEF FrameInv

(* No frame that stays has claimed what f claims.                          *)
NoRival(t, m, f) ==
  \A u \in Threads : \A d \in 1 .. Len(stack[u]) :
    u # t \/ d <= m => ~Rivals(f, Level(stack[u], d))

LEMMA AloneStep ==
  ASSUME StackTypeOK, AloneInv, NEW t \in Threads, NEW m, NEW fs, Turned(t, m, fs),
         Len(fs) \in {0, 1, 2},
         \A i \in 1 .. Len(fs) : NoRival(t, m, fs[i]),
         \A i, j \in 1 .. Len(fs) : Rivals(fs[i], fs[j]) => i = j
  PROVE  AloneInv'
<1>0. /\ Len(stack[t]) \in Nat /\ m \in Nat /\ m <= Len(stack[t])
      /\ Len(stack'[t]) = m + Len(fs)
  BY DEF StackTypeOK, Turned
<1>1. ASSUME NEW u \in Threads, NEW d \in 1 .. Len(stack'[u])
      PROVE  \/ /\ d \in 1 .. Len(stack[u]) /\ (u # t \/ d <= m)
                /\ Level(stack'[u], d) = Level(stack[u], d)
             \/ u = t /\ \E i \in 1 .. Len(fs) : d = m + i /\ Level(stack'[t], d) = fs[i]
  <2>1. CASE u # t
    <3>1. stack'[u] = stack[u]
      BY <2>1 DEF Turned
    <3> QED
      BY <2>1, <3>1
  <2>2. CASE u = t /\ d <= m
    <3>1. d \in 1 .. m /\ d \in 1 .. Len(stack[t])
      BY <1>0, <2>2
    <3> QED
      BY <2>2, <3>1 DEF Turned
  <2>3. CASE u = t /\ d > m
    <3>1. d - m \in 1 .. Len(fs) /\ d = m + (d - m)
      BY <1>0, <2>3
    <3>2. Level(stack'[t], m + (d - m)) = fs[d - m]
      BY <3>1 DEF Turned
    <3> QED
      BY <2>3, <3>1, <3>2
  <2> QED
    BY <1>0, <2>1, <2>2, <2>3
<1>2. \A f, g : Rivals(f, g) => Rivals(g, f)
  BY DEF Rivals
<1>3. ASSUME NEW u \in Threads, NEW v \in Threads,
             NEW d \in 1 .. Len(stack'[u]), NEW c \in 1 .. Len(stack'[v]),
             Rivals(Level(stack'[u], d), Level(stack'[v], c))
      PROVE  u = v /\ d = c
  <2>1. CASE /\ d \in 1 .. Len(stack[u]) /\ (u # t \/ d <= m)
             /\ Level(stack'[u], d) = Level(stack[u], d)
    <3>1. CASE /\ c \in 1 .. Len(stack[v])
               /\ Level(stack'[v], c) = Level(stack[v], c)
      BY <1>3, <2>1, <3>1 DEF AloneInv
    <3>2. CASE \E i \in 1 .. Len(fs) : Level(stack'[v], c) = fs[i]
      BY <1>2, <1>3, <2>1, <3>2 DEF NoRival
    <3> QED
      BY <1>1, <3>1, <3>2
  <2>2. ASSUME NEW i \in 1 .. Len(fs), u = t, d = m + i, Level(stack'[u], d) = fs[i]
        PROVE  u = v /\ d = c
    <3>1. CASE /\ c \in 1 .. Len(stack[v]) /\ (v # t \/ c <= m)
               /\ Level(stack'[v], c) = Level(stack[v], c)
      BY <1>3, <2>2, <3>1 DEF NoRival
    <3>2. CASE v = t /\ \E j \in 1 .. Len(fs) : c = m + j /\ Level(stack'[t], c) = fs[j]
      BY <1>3, <2>2, <3>2
    <3> QED
      BY <1>1, <3>1, <3>2
  <2> QED
    BY <1>1, <2>1, <2>2
<1> QED
  BY <1>3 DEF AloneInv

(* A frame that claims no more than the top did has no rival.              *)
LEMMA SameClaim ==
  ASSUME StackTypeOK, AloneInv, NEW t \in Threads, stack[t] # <<>>, NEW f,
         \A g \in Frames : Rivals(f, g) => Rivals(Level(stack[t], Len(stack[t])), g)
  PROVE  NoRival(t, Len(stack[t]) - 1, f)
<1>1. Len(stack[t]) \in Nat /\ Len(stack[t]) \in 1 .. Len(stack[t])
  <2>1. stack[t] \in Seq(Frames)
    BY DEF StackTypeOK
  <2> QED
    BY <2>1, PopLevels
<1> QED
  BY <1>1, LevelIsFrame DEF NoRival, AloneInv

LEMMA TopFacts ==
  ASSUME CordisIInv, NEW t \in Threads, stack[t] # <<>>
  PROVE  /\ StackTypeOK /\ Len(stack[t]) \in Nat \ {0}
         /\ Top(t) \in Frames /\ Top(t) = Level(stack[t], Len(stack[t]))
         /\ WellPlaced(Top(t)) /\ Known(Top(t), state, fiber)
         /\ Claims(Top(t), state, effects, owed, runs)
         /\ Waits(Top(t)) => Closed(state, Top(t).arg)
<1>1. StackTypeOK /\ stack[t] \in Seq(Frames)
  BY DEF CordisIInv, StackTypeOK
<1>2. /\ Len(stack[t]) \in Nat \ {0} /\ Len(stack[t]) \in 1 .. Len(stack[t])
      /\ Top(t) \in Frames /\ Top(t) = Level(stack[t], Len(stack[t]))
  BY <1>1, PopLevels DEF Top
<1>3. /\ WellPlaced(Top(t)) /\ Known(Top(t), state, fiber)
      /\ Claims(Top(t), state, effects, owed, runs)
      /\ Stacked(stack[t], Len(stack[t]), state)
  BY <1>2 DEF CordisIInv, FrameInv
<1> QED
  BY <1>1, <1>2, <1>3 DEF Stacked

(* The scopes and effects are as they were, but for a scope that is new.   *)
LEMMA QuietRemains ==
  ASSUME StackTypeOK, FrameInv, NEW t \in Threads, NEW m,
         UNCHANGED <<effects, owed, runs>>,
         \A s \in Scopes : state'[s] = state[s] \/ (state[s] = "none" /\ state'[s] # "none"),
         \A f \in Fibers : fiber[f] # "none" => fiber'[f] # "none"
  PROVE  Remains(t, m)
<1>1. ASSUME NEW u \in Threads, NEW d \in 1 .. Len(stack[u])
      PROVE  Claims(Level(stack[u], d), state', effects', owed', runs')
  <2>1. /\ Level(stack[u], d) \in Frames /\ Claims(Level(stack[u], d), state, effects, owed, runs)
    BY LevelIsFrame DEF FrameInv
  <2>2. Level(stack[u], d).scope \in Scopes
    BY <2>1 DEF Frames
  <2> QED
    BY <2>1, <2>2 DEF Claims
<1> QED
  BY <1>1 DEF Remains, Closed

(* A step of the stack alone is a sound one.                               *)
Stepped(t, m, fs) ==
  /\ Turned(t, m, fs) /\ Fits(t, m, fs)
  /\ \A i \in 1 .. Len(fs) : NoRival(t, m, fs[i])
  /\ \A i, j \in 1 .. Len(fs) : Rivals(fs[i], fs[j]) => i = j

(* The stack of t is all that changes.                                     *)
LEMMA OnlyStack ==
  ASSUME CordisIInv, NEW t \in Threads, NEW m, NEW fs, Stepped(t, m, fs),
         UNCHANGED <<state, parent, tables, fiber, held, history>>
  PROVE  CordisIInv'
<1>1. StackTypeOK /\ FrameInv /\ AloneInv
  BY DEF CordisIInv
<1>2. Remains(t, m)
  <2>1. UNCHANGED <<effects, owed, runs>> /\ state' = state /\ fiber' = fiber
    BY DEF tables, history
  <2>2. /\ \A s \in Scopes : state'[s] = state[s] \/ (state[s] = "none" /\ state'[s] # "none")
        /\ \A f \in Fibers : fiber[f] # "none" => fiber'[f] # "none"
    BY <2>1
  <2> QED
    BY <1>1, <2>1, <2>2, QuietRemains, Zenon
<1>3. FrameInv'
  BY <1>1, <1>2, FramesStep DEF Stepped
<1>4. AloneInv'
  BY <1>1, AloneStep DEF Fits, Stepped
<1>5. StackTypeOK'
  BY <1>1 DEF StackTypeOK, Stepped, Turned, tables, history
<1>6. CordisTypeOK' /\ TreeInv' /\ UnmountedIsClosed'
  BY DEF CordisIInv, CordisTypeOK, TreeInv, UnmountedIsClosed, tables
<1>7. EffectInv' /\ RunsInv'
  BY DEF CordisIInv, EffectInv, RunsInv, tables, history
<1> QED
  BY <1>3, <1>4, <1>5, <1>6, <1>7 DEF CordisIInv
----------------------------------------------------------------------------
LEMMA FrameParts ==
  ASSUME NEW f \in Frames
  PROVE  f = [op |-> f.op, scope |-> f.scope, arg |-> f.arg, cursor |-> f.cursor, at |-> f.at,
              fibers |-> f.fibers, effects |-> f.effects]
BY DEF Frames

LEMMA NewFrame ==
  ASSUME NEW op \in Ops, NEW s \in Scopes, NEW x \in Nat, NEW at \in Places
  PROVE  /\ Frame(op, s, x, at) \in Frames
         /\ Frame(op, s, x, at).op = op /\ Frame(op, s, x, at).scope = s
         /\ Frame(op, s, x, at).arg = x /\ Frame(op, s, x, at).at = at
         /\ Frame(op, s, x, at).fibers = {}
BY DEF Frame, Frames

(* A call finds the scope there, on an idle thread or inside a mount.      *)
LEMMA MayUseFacts ==
  ASSUME CordisIInv, NEW t \in Threads, NEW s \in Scopes, MayUse(t, s)
  PROVE  /\ state[s] # "none" /\ Len(stack[t]) \in Nat
         /\ Len(stack[t]) > 0 => Level(stack[t], Len(stack[t])).at = "body"
<1>1. CASE stack[t] = <<>>
  BY <1>1 DEF MayUse, At
<1>2. CASE stack[t] # <<>>
  <2>1. At(t, "mount", "body") /\ s = Top(t).arg
    BY <1>2 DEF MayUse
  <2>2. fiber[s] # "none" /\ s \in Fibers
    BY <1>2, <2>1, TopFacts DEF Known, At, WellPlaced
  <2>3. state[s] # "none"
    BY <2>2 DEF CordisIInv, CordisTypeOK
  <2> QED
    BY <1>2, <2>1, <2>3, TopFacts DEF At
<1> QED
  BY <1>1, <1>2

LEMMA OneFrame ==
  ASSUME NEW f
  PROVE  /\ Len(<<f>>) = 1 /\ <<f>>[1] = f
         /\ \A i \in 1 .. Len(<<f>>) : i = 1 /\ <<f>>[i] = f
OBVIOUS

LEMMA BeginInv ==
  ASSUME CordisIInv, NEW t \in Threads, NEW s \in Scopes, NEW op \in Ops, NEW x \in Nat,
         NEW at \in Places, Begin(t, op, s, x, at),
         WellPlaced(Frame(op, s, x, at)), at \in {"walk", "begin", "mark"}, op # "drop",
         at = "mark" => fiber[x] # "none",
         op = "install" => \A r \in Scopes : effects[r][x] = "none",
         op = "dispose" => at = "begin",
         op = "install" => \A u \in Threads : \A d \in 1 .. Len(stack[u]) :
           ~(Level(stack[u], d).op = "install" /\ Level(stack[u], d).arg = x)
  PROVE  CordisIInv'
<1> DEFINE m == Len(stack[t])
<1>0. /\ StackTypeOK /\ m \in Nat
      /\ state[s] # "none" /\ (m > 0 => Level(stack[t], m).at = "body")
  BY MayUseFacts DEF Begin, CordisIInv
<1>1. PICK f \in Frames : /\ f = Frame(op, s, x, at) /\ Push(t, f)
                          /\ f.op = op /\ f.scope = s /\ f.arg = x /\ f.at = at /\ f.fibers = {}
  BY NewFrame DEF Begin
<1>2. Turned(t, m, <<f>>)
  BY <1>0, <1>1, PushTurns
<1>3. UNCHANGED <<state, parent, tables, fiber, held, history>>
  BY DEF Begin
<1>4. state' = state /\ fiber' = fiber /\ effects' = effects
  BY <1>3 DEF tables
<1>5. Fits(t, m, <<f>>)
  <2>1. Known(f, state', fiber') /\ Claims(f, state', effects', owed', runs') /\ ~Waits(f)
    BY <1>0, <1>1, <1>4 DEF Known, Claims, Waits
  <2>2. WellPlaced(f) /\ m # m - 1
    BY <1>0, <1>1
  <2> QED
    BY <1>0, <2>1, <2>2, OneFrame DEF Fits
<1>6. NoRival(t, m, f)
  BY <1>1 DEF NoRival, Rivals
<1> QED
  BY <1>2, <1>3, <1>5, <1>6, OneFrame, OnlyStack DEF Stepped
LEMMA InstallInv ==
  ASSUME CordisIInv, NEW t \in Threads, NEW s \in Scopes, NEW e \in Effects, InstallEffect(t, s, e)
  PROVE  CordisIInv'
<1>1. e \in Nat /\ Begin(t, "install", s, e, "walk") /\ \A r \in Scopes : effects[r][e] = "none"
  BY CordisAssumption DEF InstallEffect, Effects
<1>2. /\ "install" \in Ops /\ "walk" \in Places
      /\ WellPlaced(Frame("install", s, e, "walk"))
  BY <1>1, NewFrame DEF Ops, Places, WellPlaced
<1>3. ASSUME NEW u \in Threads, NEW d \in 1 .. Len(stack[u])
      PROVE  ~(Level(stack[u], d).op = "install" /\ Level(stack[u], d).arg = e)
  <2>1. stack[u] \in Seq(Frames) /\ Len(stack[u]) + 1 - d \in DOMAIN stack[u]
    BY DEF CordisIInv, StackTypeOK
  <2> QED
    BY <2>1 DEF InstallEffect, Level
<1> QED
  BY <1>1, <1>2, <1>3, BeginInv

LEMMA MountInv ==
  ASSUME CordisIInv, NEW t \in Threads, NEW s \in Scopes, Mount(t, s)
  PROVE  CordisIInv'
<1>1. /\ "mount" \in Ops /\ "walk" \in Places /\ 0 \in Nat
      /\ WellPlaced(Frame("mount", s, 0, "walk"))
  BY NewFrame DEF Ops, Places, WellPlaced
<1> QED
  BY <1>1, BeginInv DEF Mount

LEMMA DisposeContextInv ==
  ASSUME CordisIInv, NEW t \in Threads, NEW s \in Scopes, DisposeContext(t, s)
  PROVE  CordisIInv'
<1>1. /\ "dispose" \in Ops /\ "begin" \in Places /\ 0 \in Nat
      /\ WellPlaced(Frame("dispose", s, 0, "begin"))
  BY NewFrame DEF Ops, Places, WellPlaced
<1> QED
  BY <1>1, BeginInv DEF DisposeContext

(* The parent of a fiber is there.                                         *)
LEMMA ParentIsThere ==
  ASSUME CordisIInv, NEW f \in Fibers, fiber[f] # "none"
  PROVE  parent[f] \in Scopes /\ state[parent[f]] # "none"
<1>1. f \in Scopes /\ parent[f] \in Scopes /\ parent[f] < f
  BY CordisAssumption DEF CordisIInv, CordisTypeOK, StackTypeOK, Fibers, Scopes
<1>2. CASE parent[f] = Root
  BY <1>1, <1>2 DEF CordisIInv, TreeInv
<1>3. CASE parent[f] # Root
  <2>1. parent[f] \in Fibers
    BY <1>1, <1>3, CordisAssumption DEF Fibers, Scopes, Root
  <2>2. fiber[parent[f]] # "none"
    BY <1>1, <2>1 DEF CordisIInv, TreeInv
  <2> QED
    BY <1>1, <2>1, <2>2 DEF CordisIInv, CordisTypeOK
<1> QED
  BY <1>2, <1>3

LEMMA UnmountInv ==
  ASSUME CordisIInv, NEW t \in Threads, NEW f \in Fibers, Unmount(t, f)
  PROVE  CordisIInv'
<1>1. fiber[f] # "none" /\ f \in Nat /\ f \in Fibers
  BY CordisAssumption DEF Unmount, Fibers
<1>2. parent[f] \in Scopes /\ state[parent[f]] # "none"
  BY <1>1, ParentIsThere
<1>3. /\ "unmount" \in Ops /\ "mark" \in Places
      /\ WellPlaced(Frame("unmount", parent[f], f, "mark"))
  BY <1>1, <1>2, NewFrame DEF Ops, Places, WellPlaced
<1>4. Begin(t, "unmount", parent[f], f, "mark")
  BY <1>2 DEF Unmount, Begin, MayUse
<1> QED
  BY <1>1, <1>2, <1>3, <1>4, BeginInv

(* An operation returns: what that makes of the frames.                    *)
LEMMA PopFits ==
  ASSUME CordisIInv, NEW t \in Threads, stack[t] # <<>>, Pop(t),
         Top(t).op = "dispose" => Closed(state', Top(t).scope)
  PROVE  Stepped(t, Len(stack[t]) - 1, <<>>)
<1> DEFINE m == Len(stack[t]) - 1
<1>1. /\ StackTypeOK /\ Len(stack[t]) \in Nat \ {0} /\ m + 1 = Len(stack[t]) /\ m # Len(stack[t])
      /\ Top(t) = Level(stack[t], Len(stack[t]))
  BY TopFacts
<1>2. Turned(t, m, <<>>)
  BY <1>1, PopTurns
<1>3. Len(<<>>) = 0 /\ \A i \in 1 .. Len(<<>>) : FALSE
  OBVIOUS
<1>4. Fits(t, m, <<>>)
  BY <1>1, <1>3 DEF Fits
<1> QED
  BY <1>2, <1>3, <1>4 DEF Stepped

(* A frame goes on: what that makes of the frames.                         *)
LEMMA GotoFits ==
  ASSUME CordisIInv, NEW t \in Threads, stack[t] # <<>>, NEW f \in Frames, Goto(t, f),
         f.op = Top(t).op, f.scope = Top(t).scope,
         WellPlaced(f), ~Waits(f), Known(f, state', fiber'),
         Claims(f, state', effects', owed', runs'),
         NoRival(t, Len(stack[t]) - 1, f) \/ \A g \in Frames : Rivals(f, g) => Rivals(Top(t), g)
  PROVE  Stepped(t, Len(stack[t]) - 1, <<f>>)
<1> DEFINE m == Len(stack[t]) - 1
<1>1. /\ StackTypeOK /\ Len(stack[t]) \in Nat \ {0} /\ m + 1 = Len(stack[t]) /\ m # Len(stack[t])
      /\ Top(t) = Level(stack[t], Len(stack[t]))
  BY TopFacts
<1>2. Turned(t, m, <<f>>)
  BY <1>1, GotoTurns
<1>3. Fits(t, m, <<f>>)
  BY <1>1, OneFrame DEF Fits
<1>4. NoRival(t, m, f)
  BY <1>1, SameClaim DEF CordisIInv
<1> QED
  BY <1>2, <1>3, <1>4, OneFrame DEF Stepped

(* What a frame is when its place, or its fiber too, has changed.          *)
LEMMA MovedFrame ==
  ASSUME NEW f \in Frames, NEW a \in Places, NEW x \in Nat
  PROVE  /\ [f EXCEPT !.at = a] \in Frames
         /\ [f EXCEPT !.at = a].op = f.op /\ [f EXCEPT !.at = a].scope = f.scope
         /\ [f EXCEPT !.at = a].arg = f.arg /\ [f EXCEPT !.at = a].at = a
         /\ [f EXCEPT !.at = a].fibers = f.fibers /\ [f EXCEPT !.at = a].effects = f.effects
         /\ [f EXCEPT !.at = a, !.arg = x] \in Frames
         /\ [f EXCEPT !.at = a, !.arg = x].op = f.op
         /\ [f EXCEPT !.at = a, !.arg = x].scope = f.scope
         /\ [f EXCEPT !.at = a, !.arg = x].arg = x /\ [f EXCEPT !.at = a, !.arg = x].at = a
         /\ [f EXCEPT !.at = a, !.arg = x].fibers = f.fibers
         /\ [f EXCEPT !.at = a, !.arg = x].effects = f.effects
BY FrameParts DEF Frames

LEMMA WalkInv ==
  ASSUME CordisIInv, NEW t \in Threads, Walk(t)
  PROVE  CordisIInv'
<1>1. /\ stack[t] # <<>> /\ Top(t).at = "walk"
      /\ UNCHANGED <<state, parent, tables, fiber, held, history>>
  BY DEF Walk
<1>2. /\ Top(t) \in Frames /\ WellPlaced(Top(t)) /\ Known(Top(t), state, fiber)
      /\ Claims(Top(t), state, effects, owed, runs) /\ Top(t).op \in {"install", "mount"}
  BY <1>1, TopFacts DEF WellPlaced
<1>0. state' = state /\ fiber' = fiber /\ effects' = effects /\ owed' = owed /\ runs' = runs
  BY <1>1 DEF tables, history
<1>3. CASE Pop(t)
  <2>1. Stepped(t, Len(stack[t]) - 1, <<>>)
    BY <1>1, <1>2, <1>3, PopFits
  <2> QED
    BY <1>1, <2>1, OnlyStack
<1>4. CASE Goto(t, [Top(t) EXCEPT !.at = "insert"])
  <2> DEFINE f == [Top(t) EXCEPT !.at = "insert"]
  <2>0. "insert" \in Places
    BY DEF Places
  <2>1. /\ f \in Frames /\ f.op = Top(t).op /\ f.scope = Top(t).scope /\ f.arg = Top(t).arg
        /\ f.at = "insert" /\ f.fibers = Top(t).fibers /\ f.effects = Top(t).effects
    BY <1>2, <2>0, MovedFrame
  <2>2. Goto(t, f)
    BY <1>4
  <2> HIDE DEF f
  <2>3. WellPlaced(f) /\ ~Waits(f)
    BY <1>1, <1>2, <2>1 DEF WellPlaced, Waits
  <2>4. Known(f, state, fiber)
    BY <1>2, <2>1 DEF Known
  <2>5. Claims(f, state, effects, owed, runs)
    BY <1>2, <2>1 DEF Claims
  <2>6. \A g \in Frames : Rivals(f, g) => Rivals(Top(t), g)
    BY <1>2, <2>1 DEF Rivals
  <2>8. Stepped(t, Len(stack[t]) - 1, <<f>>)
    BY <1>0, <1>1, <2>1, <2>2, <2>3, <2>4, <2>5, <2>6, GotoFits
  <2> QED
    BY <1>1, <2>8, OnlyStack
<1>5. CASE Goto(t, [Top(t) EXCEPT !.cursor = parent[Top(t).cursor]])
  <2> DEFINE f == [Top(t) EXCEPT !.cursor = parent[Top(t).cursor]]
  <2>1. Top(t).cursor \in Scopes /\ parent[Top(t).cursor] \in Scopes
    BY <1>2 DEF Frames, CordisIInv, StackTypeOK
  <2>2. /\ f \in Frames /\ f.op = Top(t).op /\ f.scope = Top(t).scope /\ f.arg = Top(t).arg
        /\ f.at = "walk" /\ f.fibers = Top(t).fibers /\ f.effects = Top(t).effects
    BY <1>1, <1>2, <2>1, FrameParts DEF Frames
  <2>3. Goto(t, f)
    BY <1>5
  <2> HIDE DEF f
  <2>4. WellPlaced(f) /\ ~Waits(f)
    BY <1>1, <1>2, <2>2 DEF WellPlaced, Waits
  <2>5. Known(f, state, fiber)
    BY <1>2, <2>2 DEF Known
  <2>6. Claims(f, state, effects, owed, runs)
    BY <1>2, <2>2 DEF Claims
  <2>7. \A g \in Frames : Rivals(f, g) => Rivals(Top(t), g)
    BY <1>2, <2>2 DEF Rivals
  <2>8. Stepped(t, Len(stack[t]) - 1, <<f>>)
    BY <1>0, <1>1, <2>2, <2>3, <2>4, <2>5, <2>6, <2>7, GotoFits
  <2> QED
    BY <1>1, <2>8, OnlyStack
<1> QED
  BY <1>3, <1>4, <1>5 DEF Walk

LEMMA RefusedInv ==
  ASSUME CordisIInv, NEW t \in Threads, RegisterRefused(t) \/ DisposeRefused(t)
  PROVE  CordisIInv'
<1>1. /\ stack[t] # <<>> /\ Pop(t)
      /\ UNCHANGED <<state, parent, tables, fiber, held, history>>
  BY DEF RegisterRefused, DisposeRefused, At
<1>2. Top(t).op = "dispose" => Closed(state, Top(t).scope)
  <2>1. CASE RegisterRefused(t)
    BY <2>1 DEF RegisterRefused, At
  <2>2. CASE DisposeRefused(t)
    <3>1. Top(t).scope \in Scopes /\ state[Top(t).scope] \notin {"none", "Active"}
      BY <1>1, <2>2, TopFacts DEF DisposeRefused, Known, Frames
    <3>2. state[Top(t).scope] \in ScopeStates
      BY <3>1 DEF CordisIInv, CordisTypeOK
    <3> QED
      BY <3>1, <3>2 DEF Closed, ScopeStates
  <2> QED
    BY <2>1, <2>2
<1>3. Stepped(t, Len(stack[t]) - 1, <<>>)
  <2>1. state' = state
    BY <1>1
  <2> QED
    BY <1>1, <1>2, <2>1, PopFits DEF Closed
<1> QED
  BY <1>1, <1>3, OnlyStack

LEMMA TwoFrames ==
  ASSUME NEW f, NEW g
  PROVE  /\ Len(<<f, g>>) = 2 /\ <<f, g>>[1] = f /\ <<f, g>>[2] = g
         /\ \A i \in 1 .. Len(<<f, g>>) : (i = 1 /\ <<f, g>>[i] = f) \/ (i = 2 /\ <<f, g>>[i] = g)
OBVIOUS

(* A frame calls the dispose of a scope and waits for it: what that makes  *)
(* of the frames.                                                          *)
LEMMA CallFits ==
  ASSUME CordisIInv, NEW t \in Threads, stack[t] # <<>>, NEW f \in Frames, NEW s \in Scopes,
         stack' = [stack EXCEPT ![t] = <<Dispose(s), f>> \o Tail(@)],
         f.op = Top(t).op, f.scope = Top(t).scope, f.arg = s,
         WellPlaced(f), Waits(f), Known(f, state', fiber'), state'[s] # "none",
         Claims(f, state', effects', owed', runs'),
         \A g \in Frames : Rivals(f, g) => Rivals(Top(t), g)
  PROVE  Stepped(t, Len(stack[t]) - 1, <<f, Dispose(s)>>)
<1> DEFINE m == Len(stack[t]) - 1
<1>1. /\ StackTypeOK /\ Len(stack[t]) \in Nat \ {0} /\ m + 1 = Len(stack[t]) /\ m # Len(stack[t])
      /\ Top(t) = Level(stack[t], Len(stack[t]))
  BY TopFacts
<1>2. "dispose" \in Ops /\ "begin" \in Places /\ 0 \in Nat
  BY DEF Ops, Places
<1>3. PICK g \in Frames : /\ g = Dispose(s) /\ g.op = "dispose" /\ g.scope = s
                          /\ g.at = "begin" /\ g.fibers = {}
  BY <1>2, NewFrame DEF Dispose
<1>4. Turned(t, m, <<f, g>>)
  BY <1>1, <1>3, CallTurns
<1>5. Known(g, state', fiber') /\ Claims(g, state', effects', owed', runs') /\ ~Waits(g)
      /\ WellPlaced(g)
  BY <1>3 DEF Known, Claims, Waits, WellPlaced
<1>6. Fits(t, m, <<f, g>>)
  BY <1>1, <1>3, <1>5, TwoFrames DEF Fits
<1>7. NoRival(t, m, f) /\ NoRival(t, m, g)
  <2>1. NoRival(t, m, f)
    BY <1>1, SameClaim DEF CordisIInv
  <2>2. NoRival(t, m, g)
    BY <1>3 DEF NoRival, Rivals
  <2> QED
    BY <2>1, <2>2
<1>8. ~Rivals(f, g) /\ ~Rivals(g, f)
  BY <1>3 DEF Rivals
<1> QED
  BY <1>3, <1>4, <1>6, <1>7, <1>8, TwoFrames DEF Stepped

LEMMA DisposeFiberInv ==
  ASSUME CordisIInv, NEW t \in Threads, DisposeFiber(t)
  PROVE  CordisIInv'
<1> DEFINE s == Min(Top(t).fibers)
           f == [Top(t) EXCEPT !.at = "fiber", !.arg = s]
<1>1. /\ stack[t] # <<>> /\ Top(t).op = "dispose" /\ Top(t).at = "fibers" /\ Top(t).fibers # {}
      /\ stack' = [stack EXCEPT ![t] = <<Dispose(s), f>> \o Tail(@)]
      /\ UNCHANGED <<state, parent, tables, fiber, held, history>>
  BY DEF DisposeFiber, At
<1>2. /\ Top(t) \in Frames /\ Known(Top(t), state, fiber)
      /\ Claims(Top(t), state, effects, owed, runs)
  BY <1>1, TopFacts
<1>3. s \in Top(t).fibers
  <2>1. Top(t).fibers \in SUBSET Nat
    BY <1>2, CordisAssumption DEF Frames, Fibers
  <2> QED
    BY <1>1, <2>1, MinIsLeast
<1>4. s \in Fibers /\ s \in Scopes /\ s \in Nat /\ fiber[s] # "none" /\ state[s] # "none"
  <2>1. s \in Fibers /\ fiber[s] # "none"
    BY <1>2, <1>3 DEF Frames, Known
  <2> QED
    BY <2>1, CordisAssumption DEF Fibers, Scopes, CordisIInv, CordisTypeOK
<1>5. "fiber" \in Places
  BY DEF Places
<1> HIDE DEF s
<1>6. /\ f \in Frames /\ f.op = Top(t).op /\ f.scope = Top(t).scope /\ f.arg = s
      /\ f.at = "fiber" /\ f.fibers = Top(t).fibers /\ f.effects = Top(t).effects
  BY <1>2, <1>4, <1>5, FrameParts DEF Frames
<1>7. state' = state /\ fiber' = fiber /\ effects' = effects /\ owed' = owed /\ runs' = runs
  BY <1>1 DEF tables, history
<1> HIDE DEF f
<1>8. WellPlaced(f) /\ Waits(f) /\ Known(f, state', fiber')
  BY <1>1, <1>2, <1>4, <1>6, <1>7 DEF WellPlaced, Waits, Known
<1>9. Claims(f, state', effects', owed', runs')
  BY <1>1, <1>2, <1>6, <1>7 DEF Claims
<1>10. \A g \in Frames : Rivals(f, g) => Rivals(Top(t), g)
  BY <1>1, <1>6 DEF Rivals
<1>11. state'[s] # "none"
  BY <1>4, <1>7
<1>12. Stepped(t, Len(stack[t]) - 1, <<f, Dispose(s)>>)
  BY <1>1, <1>4, <1>6, <1>8, <1>9, <1>10, <1>11, CallFits
<1> QED
  BY <1>1, <1>12, OnlyStack----------------------------------------------------------------------------
(* Fibers change their states, and leave tables of scopes.                 *)
LEMMA FiberStep ==
  ASSUME CordisIInv, NEW t \in Threads, NEW m, NEW fs, Stepped(t, m, fs),
         UNCHANGED <<state, parent, effects, history>>,
         fiber' \in [Fibers -> FiberStates], held' \subseteq Fibers,
         \A f \in Fibers : fiber'[f] = "none" <=> fiber[f] = "none",
         \A f \in Fibers : fiber'[f] = "Unmounted" => fiber[f] = "Unmounted" \/ Closed(state, f),
         registered' \in [Scopes -> SUBSET Fibers],
         \A s \in Scopes : registered'[s] \subseteq registered[s]
  PROVE  CordisIInv'
<1>1. StackTypeOK /\ FrameInv /\ AloneInv
  BY DEF CordisIInv
<1>2. Remains(t, m)
  <2>1. UNCHANGED <<effects, owed, runs>> /\ state' = state
    BY DEF history
  <2>2. /\ \A s \in Scopes : state'[s] = state[s] \/ (state[s] = "none" /\ state'[s] # "none")
        /\ \A f \in Fibers : fiber[f] # "none" => fiber'[f] # "none"
    BY <2>1
  <2> QED
    BY <1>1, <2>1, <2>2, QuietRemains, Zenon
<1>3. FrameInv'
  BY <1>1, <1>2, FramesStep DEF Stepped
<1>4. AloneInv'
  BY <1>1, AloneStep DEF Fits, Stepped
<1>5. StackTypeOK'
  BY <1>1 DEF StackTypeOK, Stepped, Turned, history
<1>6. CordisTypeOK'
  BY DEF CordisIInv, CordisTypeOK, StackTypeOK
<1>7. TreeInv'
  BY DEF CordisIInv, TreeInv
<1>8. UnmountedIsClosed'
  BY DEF CordisIInv, UnmountedIsClosed, Closed
<1>9. EffectInv' /\ RunsInv'
  BY DEF CordisIInv, EffectInv, RunsInv, history
<1> QED
  BY <1>3, <1>4, <1>5, <1>6, <1>7, <1>8, <1>9 DEF CordisIInv

LEMMA MountOkInv ==
  ASSUME CordisIInv, NEW t \in Threads, MountOk(t)
  PROVE  CordisIInv'
<1> DEFINE x == Top(t).arg
<1>1. /\ stack[t] # <<>> /\ Top(t).op = "mount" /\ Top(t).at = "body" /\ Pop(t)
      /\ fiber' = [fiber EXCEPT ![x] = "Mounted"] /\ held' = held \cup {x}
      /\ UNCHANGED <<state, parent, tables, history>>
  BY DEF MountOk, At
<1>2. x \in Fibers /\ fiber[x] # "none"
  BY <1>1, TopFacts DEF WellPlaced, Known
<1> HIDE DEF x
<1>3. Stepped(t, Len(stack[t]) - 1, <<>>)
  BY <1>1, PopFits
<1>4. /\ fiber \in [Fibers -> FiberStates] /\ held \subseteq Fibers
      /\ registered \in [Scopes -> SUBSET Fibers]
  BY DEF CordisIInv, CordisTypeOK, StackTypeOK
<1>5. /\ fiber' \in [Fibers -> FiberStates] /\ held' \subseteq Fibers
      /\ \A f \in Fibers : fiber'[f] = "none" <=> fiber[f] = "none"
      /\ \A f \in Fibers : fiber'[f] = "Unmounted" => fiber[f] = "Unmounted"
  BY <1>1, <1>2, <1>4 DEF FiberStates
<1>6. registered' = registered /\ effects' = effects
  BY <1>1 DEF tables
<1> QED
  BY <1>1, <1>3, <1>4, <1>5, <1>6, FiberStep

LEMMA MountFailsInv ==
  ASSUME CordisIInv, NEW t \in Threads, MountFails(t)
  PROVE  CordisIInv'
<1> DEFINE x == Top(t).arg
           h == [Top(t) EXCEPT !.at = "failed"]
<1>1. /\ stack[t] # <<>> /\ Top(t).op = "mount" /\ Top(t).at = "body"
      /\ stack' = [stack EXCEPT ![t] = <<Dispose(x), h>> \o Tail(@)]
      /\ fiber' = [fiber EXCEPT ![x] = "Failed"]
      /\ UNCHANGED <<state, parent, tables, held, history>>
  BY DEF MountFails, At
<1>2. /\ Top(t) \in Frames /\ Known(Top(t), state, fiber)
      /\ Claims(Top(t), state, effects, owed, runs)
      /\ x \in Fibers /\ fiber[x] # "none"
  BY <1>1, TopFacts DEF WellPlaced, Known
<1>3. x \in Scopes /\ x \in Nat /\ state'[x] # "none"
  BY <1>1, <1>2, CordisAssumption DEF Fibers, Scopes, CordisIInv, CordisTypeOK
<1>4. "failed" \in Places
  BY DEF Places
<1>5. /\ h \in Frames /\ h.op = "mount" /\ h.scope = Top(t).scope /\ h.arg = x
      /\ h.at = "failed" /\ h.fibers = Top(t).fibers
  BY <1>1, <1>2, <1>4, FrameParts DEF Frames
<1>6. /\ fiber \in [Fibers -> FiberStates] /\ held \subseteq Fibers
      /\ registered \in [Scopes -> SUBSET Fibers]
  BY DEF CordisIInv, CordisTypeOK, StackTypeOK
<1> HIDE DEF x, h
<1>7. /\ fiber' \in [Fibers -> FiberStates] /\ held' \subseteq Fibers
      /\ \A f \in Fibers : fiber'[f] = "none" <=> fiber[f] = "none"
      /\ \A f \in Fibers : fiber'[f] = "Unmounted" => fiber[f] = "Unmounted"
  BY <1>1, <1>2, <1>6 DEF FiberStates
<1>8. registered' = registered /\ effects' = effects /\ state' = state
  BY <1>1 DEF tables
<1>9. WellPlaced(h) /\ Waits(h) /\ Claims(h, state', effects', owed', runs')
  BY <1>2, <1>5 DEF WellPlaced, Waits, Claims
<1>10. Known(h, state', fiber')
  BY <1>2, <1>5, <1>7, <1>8 DEF Known, Frames
<1>11. \A g \in Frames : Rivals(h, g) => Rivals(Top(t), g)
  BY <1>5 DEF Rivals
<1>12. Stepped(t, Len(stack[t]) - 1, <<h, Dispose(x)>>)
  BY <1>1, <1>3, <1>5, <1>9, <1>10, <1>11, CallFits
<1> QED
  BY <1>1, <1>6, <1>7, <1>8, <1>12, FiberStep

LEMMA MountFailedInv ==
  ASSUME CordisIInv, NEW t \in Threads, MountFailed(t)
  PROVE  CordisIInv'
<1> DEFINE x == Top(t).arg
           s == Top(t).scope
<1>1. /\ stack[t] # <<>> /\ Top(t).op = "mount" /\ Top(t).at = "failed" /\ Pop(t)
      /\ registered' = [registered EXCEPT ![s] = @ \ {x}]
      /\ fiber' = [fiber EXCEPT ![x] = IF @ = "Failed" THEN "Unmounted" ELSE @]
      /\ UNCHANGED <<state, parent, effects, held, history>>
  BY DEF MountFailed, At
<1>2. x \in Fibers /\ fiber[x] # "none" /\ s \in Scopes /\ Closed(state, x)
  BY <1>1, TopFacts DEF WellPlaced, Known, Waits, Frames
<1> HIDE DEF x, s
<1>3. Stepped(t, Len(stack[t]) - 1, <<>>)
  BY <1>1, PopFits
<1>4. /\ fiber \in [Fibers -> FiberStates] /\ held \subseteq Fibers
      /\ registered \in [Scopes -> SUBSET Fibers]
  BY DEF CordisIInv, CordisTypeOK, StackTypeOK
<1>5. /\ fiber' \in [Fibers -> FiberStates] /\ held' \subseteq Fibers
      /\ \A f \in Fibers : fiber'[f] = "none" <=> fiber[f] = "none"
      /\ \A f \in Fibers : fiber'[f] = "Unmounted" => fiber[f] = "Unmounted" \/ f = x
  BY <1>1, <1>2, <1>4 DEF FiberStates
<1>6. /\ registered' \in [Scopes -> SUBSET Fibers]
      /\ \A r \in Scopes : registered'[r] \subseteq registered[r]
  BY <1>1, <1>2, <1>4
<1> QED
  BY <1>1, <1>2, <1>3, <1>5, <1>6, FiberStep

LEMMA DisposeFiberEndsInv ==
  ASSUME CordisIInv, NEW t \in Threads, DisposeFiberEnds(t)
  PROVE  CordisIInv'
<1> DEFINE x == Top(t).arg
           h == [Top(t) EXCEPT !.at = "fibers", !.arg = 0, !.fibers = @ \ {x}]
<1>1. /\ stack[t] # <<>> /\ Top(t).op = "dispose" /\ Top(t).at = "fiber" /\ Goto(t, h)
      /\ fiber' = [fiber EXCEPT ![x] = "Unmounted"]
      /\ UNCHANGED <<state, parent, tables, held, history>>
  BY DEF DisposeFiberEnds, At
<1>2. /\ Top(t) \in Frames /\ Known(Top(t), state, fiber)
      /\ Claims(Top(t), state, effects, owed, runs)
      /\ x \in Fibers /\ fiber[x] # "none" /\ Closed(state, x)
  BY <1>1, TopFacts DEF WellPlaced, Known, Waits
<1>3. "fibers" \in Places /\ 0 \in Nat
  BY DEF Places
<1>4. /\ h \in Frames /\ h.op = "dispose" /\ h.scope = Top(t).scope
      /\ h.at = "fibers" /\ h.fibers \subseteq Top(t).fibers /\ h.effects = Top(t).effects
  BY <1>1, <1>2, <1>3, FrameParts DEF Frames
<1>5. /\ fiber \in [Fibers -> FiberStates] /\ held \subseteq Fibers
      /\ registered \in [Scopes -> SUBSET Fibers]
  BY DEF CordisIInv, CordisTypeOK, StackTypeOK
<1> HIDE DEF x, h
<1>6. /\ fiber' \in [Fibers -> FiberStates] /\ held' \subseteq Fibers
      /\ \A f \in Fibers : fiber'[f] = "none" <=> fiber[f] = "none"
      /\ \A f \in Fibers : fiber'[f] = "Unmounted" => fiber[f] = "Unmounted" \/ f = x
  BY <1>1, <1>2, <1>5 DEF FiberStates
<1>7. registered' = registered /\ effects' = effects /\ state' = state
      /\ owed' = owed /\ runs' = runs
  BY <1>1 DEF tables, history
<1>8. WellPlaced(h) /\ ~Waits(h)
  BY <1>4 DEF WellPlaced, Waits
<1>9. Claims(h, state', effects', owed', runs')
  BY <1>1, <1>2, <1>4, <1>7 DEF Claims
<1>10. Known(h, state', fiber')
  BY <1>2, <1>4, <1>6, <1>7 DEF Known, Frames
<1>11. \A g \in Frames : Rivals(h, g) => Rivals(Top(t), g)
  BY <1>1, <1>4 DEF Rivals
<1>12. Stepped(t, Len(stack[t]) - 1, <<h>>)
  BY <1>1, <1>4, <1>8, <1>9, <1>10, <1>11, GotoFits
<1> QED
  BY <1>1, <1>2, <1>5, <1>6, <1>7, <1>12, FiberStep

LEMMA UnmountMarksInv ==
  ASSUME CordisIInv, NEW t \in Threads, UnmountMarks(t)
  PROVE  CordisIInv'
<1> DEFINE x == Top(t).arg
           h == [Top(t) EXCEPT !.at = "end"]
<1>1. /\ stack[t] # <<>> /\ Top(t).op = "unmount" /\ Top(t).at = "mark"
      /\ stack' = [stack EXCEPT ![t] = <<Dispose(x), h>> \o Tail(@)]
      /\ fiber' = [fiber EXCEPT ![x] = "Unmounting"]
      /\ UNCHANGED <<state, parent, tables, held, history>>
  BY DEF UnmountMarks, At
<1>2. /\ Top(t) \in Frames /\ Known(Top(t), state, fiber)
      /\ x \in Fibers /\ fiber[x] # "none"
  BY <1>1, TopFacts DEF WellPlaced, Known
<1>3. x \in Scopes /\ x \in Nat /\ state'[x] # "none"
  BY <1>1, <1>2, CordisAssumption DEF Fibers, Scopes, CordisIInv, CordisTypeOK
<1>4. "end" \in Places
  BY DEF Places
<1>5. /\ h \in Frames /\ h.op = "unmount" /\ h.scope = Top(t).scope /\ h.arg = x
      /\ h.at = "end" /\ h.fibers = Top(t).fibers
  BY <1>1, <1>2, <1>4, FrameParts DEF Frames
<1>6. /\ fiber \in [Fibers -> FiberStates] /\ held \subseteq Fibers
      /\ registered \in [Scopes -> SUBSET Fibers]
  BY DEF CordisIInv, CordisTypeOK, StackTypeOK
<1> HIDE DEF x, h
<1>7. /\ fiber' \in [Fibers -> FiberStates] /\ held' \subseteq Fibers
      /\ \A f \in Fibers : fiber'[f] = "none" <=> fiber[f] = "none"
      /\ \A f \in Fibers : fiber'[f] = "Unmounted" => fiber[f] = "Unmounted"
  BY <1>1, <1>2, <1>6 DEF FiberStates
<1>8. registered' = registered /\ effects' = effects /\ state' = state
  BY <1>1 DEF tables
<1>9. WellPlaced(h) /\ Waits(h) /\ Claims(h, state', effects', owed', runs')
  BY <1>2, <1>5 DEF WellPlaced, Waits, Claims
<1>10. Known(h, state', fiber')
  BY <1>2, <1>5, <1>7, <1>8 DEF Known, Frames
<1>11. \A g \in Frames : Rivals(h, g) => Rivals(Top(t), g)
  BY <1>5 DEF Rivals
<1>12. Stepped(t, Len(stack[t]) - 1, <<h, Dispose(x)>>)
  BY <1>1, <1>3, <1>5, <1>9, <1>10, <1>11, CallFits
<1> QED
  BY <1>1, <1>6, <1>7, <1>8, <1>12, FiberStep

LEMMA UnmountEndsInv ==
  ASSUME CordisIInv, NEW t \in Threads, UnmountEnds(t)
  PROVE  CordisIInv'
<1> DEFINE x == Top(t).arg
           s == Top(t).scope
<1>1. /\ stack[t] # <<>> /\ Top(t).op = "unmount" /\ Top(t).at = "end" /\ Pop(t)
      /\ registered' = [registered EXCEPT ![s] = @ \ {x}]
      /\ fiber' = [fiber EXCEPT ![x] = "Unmounted"]
      /\ UNCHANGED <<state, parent, effects, held, history>>
  BY DEF UnmountEnds, At
<1>2. x \in Fibers /\ fiber[x] # "none" /\ s \in Scopes /\ Closed(state, x)
  BY <1>1, TopFacts DEF WellPlaced, Known, Waits, Frames
<1> HIDE DEF x, s
<1>3. Stepped(t, Len(stack[t]) - 1, <<>>)
  BY <1>1, PopFits
<1>4. /\ fiber \in [Fibers -> FiberStates] /\ held \subseteq Fibers
      /\ registered \in [Scopes -> SUBSET Fibers]
  BY DEF CordisIInv, CordisTypeOK, StackTypeOK
<1>5. /\ fiber' \in [Fibers -> FiberStates] /\ held' \subseteq Fibers
      /\ \A f \in Fibers : fiber'[f] = "none" <=> fiber[f] = "none"
      /\ \A f \in Fibers : fiber'[f] = "Unmounted" => fiber[f] = "Unmounted" \/ f = x
  BY <1>1, <1>2, <1>4 DEF FiberStates
<1>6. /\ registered' \in [Scopes -> SUBSET Fibers]
      /\ \A r \in Scopes : registered'[r] \subseteq registered[r]
  BY <1>1, <1>2, <1>4
<1> QED
  BY <1>1, <1>2, <1>3, <1>5, <1>6, FiberStep
LEMMA RegisterFiberInv ==
  ASSUME CordisIInv, NEW t \in Threads, RegisterFiber(t)
  PROVE  CordisIInv'
<1> DEFINE n == NextFiber
           s == Top(t).scope
           h == [Top(t) EXCEPT !.at = "body", !.arg = n]
<1>1. /\ stack[t] # <<>> /\ Top(t).op = "mount" /\ Top(t).at = "insert" /\ Goto(t, h)
      /\ \E f \in Fibers : fiber[f] = "none"
      /\ state' = [state EXCEPT ![n] = "Active"] /\ parent' = [parent EXCEPT ![n] = s]
      /\ fiber' = [fiber EXCEPT ![n] = "Mounting"]
      /\ registered' = [registered EXCEPT ![s] = @ \cup {n}]
      /\ UNCHANGED <<effects, held, history>>
  BY DEF RegisterFiber, At
<1>2. n \in Fibers /\ fiber[n] = "none" /\ \A g \in Fibers : g < n => fiber[g] # "none"
  <2> DEFINE S == {f \in Fibers : fiber[f] = "none"}
  <2>1. S \in SUBSET Nat /\ S # {}
    BY <1>1, CordisAssumption DEF Fibers
  <2>2. Min(S) \in S /\ \A m \in S : Min(S) <= m
    BY <2>1, MinIsLeast, Zenon
  <2>3. n = Min(S)
    BY DEF NextFiber
  <2>4. n \in Fibers /\ fiber[n] = "none" /\ n \in Nat
    BY <2>1, <2>2, <2>3
  <2>5. ASSUME NEW g \in Fibers, g < n, fiber[g] = "none" PROVE FALSE
    <3>1. g \in S /\ g \in Nat
      BY <2>1, <2>5
    <3>2. n <= g
      BY <2>2, <2>3, <3>1
    <3> QED
      BY <2>4, <2>5, <3>1, <3>2
  <2> QED
    BY <2>4, <2>5
<1>3. /\ Top(t) \in Frames /\ Known(Top(t), state, fiber)
      /\ Claims(Top(t), state, effects, owed, runs) /\ s \in Scopes /\ state[s] # "none"
  BY <1>1, TopFacts DEF Known, Frames
<1>4. n \in Scopes /\ n \in Nat \ {0} /\ state[n] = "none" /\ "body" \in Places /\ s \in Nat
  BY <1>2, <1>3, CordisAssumption DEF Fibers, Scopes, Places, CordisIInv, CordisTypeOK
<1>5. /\ h \in Frames /\ h.op = "mount" /\ h.scope = s /\ h.arg = n
      /\ h.at = "body" /\ h.fibers = Top(t).fibers
  BY <1>1, <1>3, <1>4, FrameParts DEF Frames
<1> HIDE DEF n, s, h
<1>6. s < n
  <2>1. CASE s = Root
    BY <1>4, <2>1 DEF Root
  <2>2. CASE s # Root
    <3>1. s \in Fibers /\ fiber[s] # "none"
      BY <1>3, <2>2, CordisAssumption DEF Root, Scopes, Fibers, CordisIInv, CordisTypeOK
    <3>2. ~(n < s) /\ n # s
      BY <1>2, <3>1 DEF CordisIInv, TreeInv
    <3> QED
      BY <1>4, <3>2
  <2> QED
    BY <2>1, <2>2
<1>7. /\ state \in [Scopes -> ScopeStates] /\ effects \in [Scopes -> [Effects -> EffectStates]]
      /\ fiber \in [Fibers -> FiberStates] /\ held \subseteq Fibers
      /\ parent \in [Scopes -> Scopes] /\ registered \in [Scopes -> SUBSET Fibers]
  BY DEF CordisIInv, CordisTypeOK, StackTypeOK
<1>8. /\ state'[n] = "Active" /\ \A r \in Scopes : r # n => state'[r] = state[r]
      /\ fiber'[n] = "Mounting" /\ \A f \in Fibers : f # n => fiber'[f] = fiber[f]
      /\ parent'[n] = s /\ \A r \in Scopes : r # n => parent'[r] = parent[r]
  BY <1>1, <1>2, <1>4, <1>7
<1>9. /\ effects' = effects /\ owed' = owed /\ runs' = runs
  BY <1>1 DEF history
<1>10. /\ \A r \in Scopes : state'[r] = state[r] \/ (state[r] = "none" /\ state'[r] # "none")
       /\ \A f \in Fibers : fiber[f] # "none" => fiber'[f] # "none"
  BY <1>4, <1>8
<1>11. StackTypeOK /\ FrameInv /\ AloneInv
  BY DEF CordisIInv
<1>12. Remains(t, Len(stack[t]) - 1)
  BY <1>9, <1>10, <1>11, QuietRemains, Zenon
<1>13. WellPlaced(h) /\ ~Waits(h) /\ Claims(h, state', effects', owed', runs')
  BY <1>2, <1>5 DEF WellPlaced, Waits, Claims
<1>14. Known(h, state', fiber')
  BY <1>3, <1>5, <1>8, <1>10 DEF Known, Frames
<1>15. \A g \in Frames : Rivals(h, g) => Rivals(Top(t), g)
  BY <1>5 DEF Rivals
<1>16. Stepped(t, Len(stack[t]) - 1, <<h>>)
  BY <1>1, <1>5, <1>13, <1>14, <1>15, GotoFits DEF s
<1>17. FrameInv' /\ AloneInv'
  BY <1>11, <1>12, <1>16, FramesStep, AloneStep DEF Fits, Stepped
<1>18. StackTypeOK'
  BY <1>1, <1>2, <1>3, <1>7, <1>9, <1>11, <1>16 DEF StackTypeOK, Stepped, Turned
<1>19. CordisTypeOK'
  <2>1. /\ state' \in [Scopes -> ScopeStates] /\ effects' \in [Scopes -> [Effects -> EffectStates]]
        /\ fiber' \in [Fibers -> FiberStates] /\ held' \subseteq Fibers
    BY <1>1, <1>7 DEF ScopeStates, FiberStates
  <2>2. \A f \in Fibers : f \in Scopes
    BY CordisAssumption DEF Fibers, Scopes
  <2>3. \A f \in Fibers : /\ state'[f] = "none" <=> fiber'[f] = "none"
                          /\ fiber'[f] # "none" => parent'[f] < f
    BY <1>6, <1>8, <2>2 DEF CordisIInv, CordisTypeOK
  <2>4. ASSUME NEW r \in Scopes, NEW f \in registered'[r]
        PROVE  parent'[f] = r /\ fiber'[f] # "none"
    <3>1. f \in registered[r] \/ (r = s /\ f = n)
      BY <1>1, <1>3, <1>7
    <3>2. CASE f \in registered[r]
      <4>1. f \in Fibers /\ parent[f] = r /\ fiber[f] # "none"
        BY <1>7, <3>2 DEF CordisIInv, CordisTypeOK
      <4> QED
        BY <1>2, <1>8, <2>2, <4>1
    <3>3. CASE r = s /\ f = n
      BY <1>8, <3>3
    <3> QED
      BY <3>1, <3>2, <3>3
  <2> QED
    BY <2>1, <2>3, <2>4 DEF CordisTypeOK
<1>20. TreeInv'
  <2>1. state'[Root] # "none"
    BY <1>10, CordisAssumption DEF CordisIInv, TreeInv, Root, Scopes
  <2>2. \A f, g \in Fibers : g < f /\ fiber'[f] # "none" => fiber'[g] # "none"
    BY <1>2, <1>8 DEF CordisIInv, TreeInv
  <2> QED
    BY <2>1, <2>2 DEF TreeInv
<1>21. UnmountedIsClosed'
  BY <1>8, CordisAssumption DEF CordisIInv, UnmountedIsClosed, Fibers, Scopes
<1>22. EffectInv' /\ RunsInv'
  <2>1. \A r \in Scopes : state'[r] \in {"none", "Active"} => state[r] \in {"none", "Active"}
    BY <1>4, <1>8
  <2>2. \A r \in Scopes : state'[r] = "Disposed" => state[r] = "Disposed"
    BY <1>4, <1>8
  <2> QED
    BY <1>9, <2>1, <2>2 DEF CordisIInv, EffectInv, RunsInv
<1> QED
  BY <1>17, <1>18, <1>19, <1>20, <1>21, <1>22 DEF CordisIInv----------------------------------------------------------------------------
(* The effects change and the tree does not.                               *)
LEMMA EffectStep ==
  ASSUME CordisIInv, NEW t \in Threads, NEW m, NEW fs, Stepped(t, m, fs),
         UNCHANGED <<state, parent, registered, fiber, held, owed>>,
         effects' \in [Scopes -> [Effects -> EffectStates]], runs' \in Seq(Effects),
         Remains(t, m), EffectInv', RunsInv'
  PROVE  CordisIInv'
<1>1. StackTypeOK /\ FrameInv /\ AloneInv
  BY DEF CordisIInv
<1>2. FrameInv'
  BY <1>1, FramesStep DEF Stepped
<1>3. AloneInv'
  BY <1>1, AloneStep DEF Fits, Stepped
<1>4. StackTypeOK'
  BY <1>1 DEF StackTypeOK, Stepped, Turned
<1>5. CordisTypeOK' /\ TreeInv' /\ UnmountedIsClosed'
  BY DEF CordisIInv, CordisTypeOK, TreeInv, UnmountedIsClosed
<1> QED
  BY <1>2, <1>3, <1>4, <1>5 DEF CordisIInv

(* The frames that stay have no part in what the top has claimed.          *)
LEMMA OthersClaim ==
  ASSUME CordisIInv, NEW t \in Threads, stack[t] # <<>>,
         NEW u \in Threads, NEW d \in 1 .. Len(stack[u]), u # t \/ d <= Len(stack[t]) - 1
  PROVE  /\ ~Rivals(Top(t), Level(stack[u], d)) /\ Level(stack[u], d) \in Frames
         /\ WellPlaced(Level(stack[u], d)) /\ Level(stack[u], d).scope \in Scopes
         /\ Claims(Level(stack[u], d), state, effects, owed, runs)
<1>1. /\ StackTypeOK /\ Len(stack[t]) \in Nat \ {0} /\ Len(stack[t]) \in 1 .. Len(stack[t])
      /\ Top(t) = Level(stack[t], Len(stack[t]))
  BY TopFacts
<1>2. ~Rivals(Top(t), Level(stack[u], d))
  BY <1>1 DEF CordisIInv, AloneInv
<1>3. Level(stack[u], d) \in Frames
  BY <1>1, LevelIsFrame
<1>4. /\ WellPlaced(Level(stack[u], d))
      /\ Claims(Level(stack[u], d), state, effects, owed, runs)
  BY DEF CordisIInv, FrameInv
<1> QED
  BY <1>2, <1>3, <1>4 DEF Frames

LEMMA InsertEffectInv ==
  ASSUME CordisIInv, NEW t \in Threads, InsertEffect(t)
  PROVE  CordisIInv'
<1> DEFINE e == Top(t).arg
           s == Top(t).scope
           m == Len(stack[t]) - 1
<1>1. /\ stack[t] # <<>> /\ Top(t).op = "install" /\ Top(t).at = "insert" /\ Pop(t)
      /\ effects' = [effects EXCEPT ![s][e] = "Active"]
      /\ UNCHANGED <<state, parent, registered, fiber, held, history>>
  BY DEF InsertEffect, At
<1>2. /\ e \in Effects /\ s \in Scopes /\ \A r \in Scopes : effects[r][e] = "none"
  BY <1>1, TopFacts DEF WellPlaced, Frames, Claims
<1>3. /\ effects \in [Scopes -> [Effects -> EffectStates]] /\ runs \in Seq(Effects)
      /\ owed \in [Scopes -> SUBSET Effects] /\ StackTypeOK /\ FrameInv
  BY DEF CordisIInv, CordisTypeOK, StackTypeOK
<1>4. Stepped(t, m, <<>>)
  BY <1>1, PopFits
<1>5. /\ effects' \in [Scopes -> [Effects -> EffectStates]]
      /\ effects'[s][e] = "Active"
      /\ \A r \in Scopes, d \in Effects : r # s \/ d # e => effects'[r][d] = effects[r][d]
  BY <1>1, <1>2, <1>3 DEF EffectStates
<1>6. state' = state /\ fiber' = fiber /\ owed' = owed /\ runs' = runs
  BY <1>1 DEF history
<1>7. ASSUME NEW u \in Threads, NEW d \in 1 .. Len(stack[u]), u # t \/ d <= m
      PROVE  Claims(Level(stack[u], d), state', effects', owed', runs')
  <2>1. PICK f \in Frames : f = Level(stack[u], d)
    BY <1>1, <1>7, OthersClaim
  <2>2. /\ ~Rivals(Top(t), f) /\ WellPlaced(f) /\ f.scope \in Scopes
        /\ Claims(f, state, effects, owed, runs)
    BY <1>1, <1>7, <2>1, OthersClaim
  <2>3. f.op = "install" => \A r \in Scopes : effects'[r][f.arg] = "none"
    <3>1. f.op = "install" => f.arg \in Effects /\ f.arg # e
      BY <1>1, <2>2 DEF WellPlaced, Rivals
    <3> QED
      BY <1>5, <2>2, <3>1 DEF Claims
  <2>4. f.op = "drop" => effects'[f.scope][f.arg] = "Disposing" /\ f.arg \notin owed[f.scope]
    <3>1. f.op = "drop" => f.arg \in Effects
      BY <2>2 DEF WellPlaced
    <3> QED
      BY <1>2, <1>5, <2>2, <3>1 DEF Claims
  <2> QED
    BY <1>6, <2>1, <2>2, <2>3, <2>4 DEF Claims
<1>8. Remains(t, m)
  BY <1>6, <1>7 DEF Remains, Closed
<1>9. EffectInv'
  <2>1. \A r, q \in Scopes, d \in Effects :
          effects'[r][d] # "none" /\ effects'[q][d] # "none" => r = q
    BY <1>2, <1>5 DEF CordisIInv, EffectInv
  <2>2. \A d \in Effects :
          (\E r \in Scopes : effects'[r][d] = "Disposed") <=> \E r \in Scopes : effects[r][d] = "Disposed"
    BY <1>2, <1>5
  <2>3. \A r \in Scopes : \A d \in owed[r] : effects'[r][d] \in {"Disposing", "Disposed"}
    BY <1>2, <1>3, <1>5 DEF CordisIInv, EffectInv
  <2> QED
    BY <1>6, <2>1, <2>2, <2>3 DEF CordisIInv, EffectInv
<1>10. RunsInv'
  BY <1>6 DEF CordisIInv, RunsInv
<1> QED
  BY <1>1, <1>3, <1>4, <1>5, <1>6, <1>8, <1>9, <1>10, EffectStep

LEMMA DisposeEffectInv ==
  ASSUME CordisIInv, NEW t \in Threads, NEW s \in Scopes, NEW e \in Effects, DisposeEffect(t, s, e)
  PROVE  CordisIInv'
<1> DEFINE m == Len(stack[t])
           h == Frame("drop", s, e, "run")
<1>1. /\ MayUse(t, s) /\ effects[s][e] = "Active" /\ Push(t, h)
      /\ effects' = [effects EXCEPT ![s][e] = "Disposing"]
      /\ UNCHANGED <<state, parent, registered, fiber, held, history>>
  BY DEF DisposeEffect
<1>2. /\ effects \in [Scopes -> [Effects -> EffectStates]] /\ runs \in Seq(Effects)
      /\ owed \in [Scopes -> SUBSET Effects] /\ StackTypeOK /\ FrameInv
  BY DEF CordisIInv, CordisTypeOK, StackTypeOK
<1>3. "drop" \in Ops /\ "run" \in Places /\ e \in Nat
  BY CordisAssumption DEF Ops, Places, Effects
<1>4. /\ h \in Frames /\ h.op = "drop" /\ h.scope = s /\ h.arg = e /\ h.at = "run" /\ h.fibers = {}
  BY <1>3, NewFrame
<1> HIDE DEF h
<1>5. state[s] # "none" /\ m \in Nat /\ (m > 0 => Level(stack[t], m).at = "body")
  BY <1>1, MayUseFacts
<1>6. /\ effects' \in [Scopes -> [Effects -> EffectStates]]
      /\ effects'[s][e] = "Disposing"
      /\ \A r \in Scopes, d \in Effects : r # s \/ d # e => effects'[r][d] = effects[r][d]
  BY <1>1, <1>2 DEF EffectStates
<1>7. state' = state /\ fiber' = fiber /\ owed' = owed /\ runs' = runs
  BY <1>1 DEF history
<1>8. e \notin owed[s]
  BY <1>1 DEF CordisIInv, EffectInv
<1>9. ASSUME NEW u \in Threads, NEW d \in 1 .. Len(stack[u])
      PROVE  /\ ~(Level(stack[u], d).op = "drop" /\ Level(stack[u], d).arg = e)
             /\ Claims(Level(stack[u], d), state', effects', owed', runs')
  <2>1. PICK f \in Frames : f = Level(stack[u], d)
    BY <1>2, LevelIsFrame
  <2>2. /\ WellPlaced(f) /\ f.scope \in Scopes /\ Claims(f, state, effects, owed, runs)
    BY <1>2, <2>1 DEF FrameInv, Frames
  <2>3. f.op = "install" => f.arg \in Effects /\ f.arg # e
    BY <1>1, <2>2 DEF WellPlaced, Claims
  <2>4. f.op = "drop" => f.arg \in Effects /\ f.arg # e
    <3>1. f.op = "drop" => f.arg \in Effects /\ effects[f.scope][f.arg] = "Disposing"
      BY <2>2 DEF WellPlaced, Claims
    <3> QED
      BY <1>1, <2>2, <3>1 DEF CordisIInv, EffectInv
  <2> QED
    BY <1>6, <1>7, <2>1, <2>2, <2>3, <2>4 DEF Claims
<1>10. Remains(t, m)
  BY <1>7, <1>9 DEF Remains, Closed
<1>11. Stepped(t, m, <<h>>)
  <2>1. Turned(t, m, <<h>>)
    BY <1>1, <1>2, <1>4, PushTurns
  <2>2. WellPlaced(h) /\ Known(h, state', fiber') /\ ~Waits(h)
    BY <1>4, <1>5, <1>7 DEF WellPlaced, Known, Waits
  <2>3. Claims(h, state', effects', owed', runs')
    BY <1>4, <1>6, <1>7, <1>8 DEF Claims
  <2>4. Fits(t, m, <<h>>)
    BY <1>4, <1>5, <2>2, <2>3, OneFrame DEF Fits
  <2>5. NoRival(t, m, h)
    BY <1>4, <1>9 DEF NoRival, Rivals
  <2> QED
    BY <2>1, <2>4, <2>5, OneFrame DEF Stepped
<1>12. EffectInv'
  <2>1. \A r, q \in Scopes, d \in Effects :
          effects'[r][d] # "none" /\ effects'[q][d] # "none" => r = q
    BY <1>1, <1>6 DEF CordisIInv, EffectInv
  <2>2. \A d \in Effects :
          (\E r \in Scopes : effects'[r][d] = "Disposed") <=> \E r \in Scopes : effects[r][d] = "Disposed"
    BY <1>1, <1>6
  <2>3. \A r \in Scopes : \A d \in owed[r] : effects'[r][d] \in {"Disposing", "Disposed"}
    BY <1>2, <1>6 DEF CordisIInv, EffectInv
  <2> QED
    BY <1>7, <2>1, <2>2, <2>3 DEF CordisIInv, EffectInv
<1>13. RunsInv'
  BY <1>7 DEF CordisIInv, RunsInv
<1> QED
  BY <1>1, <1>2, <1>6, <1>7, <1>10, <1>11, <1>12, <1>13, EffectStep
LEMMA RanAppend ==
  ASSUME NEW e \in Effects, NEW rs \in Seq(Effects), NEW q, q = Append(rs, e)
  PROVE  /\ q \in Seq(Effects) /\ Len(rs) \in Nat
         /\ DOMAIN rs = 1 .. Len(rs) /\ DOMAIN q = 1 .. Len(rs) + 1
         /\ \A i \in 1 .. Len(rs) : q[i] = rs[i]
         /\ q[Len(rs) + 1] = e
         /\ \A d \in Effects : Ran(q, d) <=> Ran(rs, d) \/ d = e
<1>1. /\ q \in Seq(Effects) /\ Len(q) = Len(rs) + 1 /\ Len(rs) \in Nat
      /\ \A i \in 1 .. Len(rs) : q[i] = rs[i]
      /\ q[Len(rs) + 1] = e
  BY AppendProperties
<1>2. DOMAIN rs = 1 .. Len(rs) /\ DOMAIN q = 1 .. Len(rs) + 1
  BY <1>1
<1>3. ASSUME NEW d \in Effects PROVE Ran(q, d) <=> Ran(rs, d) \/ d = e
  <2>1. \A i \in 1 .. Len(rs) + 1 : i \in 1 .. Len(rs) \/ i = Len(rs) + 1
    BY <1>1
  <2>2. Len(rs) + 1 \in 1 .. Len(rs) + 1 /\ \A i \in 1 .. Len(rs) : i \in 1 .. Len(rs) + 1
    BY <1>1
  <2>3. Ran(rs, d) <=> \E i \in 1 .. Len(rs) : rs[i] = d
    BY <1>2 DEF Ran
  <2>4. Ran(q, d) <=> \E i \in 1 .. Len(rs) + 1 : q[i] = d
    BY <1>2 DEF Ran
  <2> QED
    BY <1>1, <2>1, <2>2, <2>3, <2>4
<1> QED
  BY <1>1, <1>2, <1>3

(* An effect has been run: it was the youngest that was left, if its scope *)
(* owed it.                                                                *)
LEMMA RunStep ==
  ASSUME CordisIInv, NEW s \in Scopes, NEW e \in Effects, effects[s][e] = "Disposing",
         EffectEnds(s, e), UNCHANGED <<state, owed>>,
         e \in owed[s] => \A d \in owed[s] : e < d => Ran(runs, d)
  PROVE  /\ effects' \in [Scopes -> [Effects -> EffectStates]] /\ runs' \in Seq(Effects)
         /\ ~Ran(runs, e) /\ \A d \in Effects : Ran(runs', d) <=> Ran(runs, d) \/ d = e
         /\ EffectInv' /\ RunsInv'
         /\ \A f \in Frames :
              /\ Claims(f, state, effects, owed, runs) /\ WellPlaced(f)
              /\ ~(f.op = "drop" /\ f.arg = e)
              /\ ~(f.op = "dispose" /\ f.at # "begin" /\ f.scope = s /\ e \in owed[s])
              => Claims(f, state', effects', owed', runs')
<1>1. /\ effects \in [Scopes -> [Effects -> EffectStates]] /\ runs \in Seq(Effects)
      /\ owed \in [Scopes -> SUBSET Effects]
  BY DEF CordisIInv, CordisTypeOK, StackTypeOK
<1>2. /\ effects' \in [Scopes -> [Effects -> EffectStates]]
      /\ effects'[s][e] = "Disposed"
      /\ \A r \in Scopes, d \in Effects : r # s \/ d # e => effects'[r][d] = effects[r][d]
  BY <1>1 DEF EffectEnds, EffectStates
<1>3. runs' = Append(runs, e)
  BY DEF EffectEnds
<1>4. /\ runs' \in Seq(Effects) /\ Len(runs) \in Nat
      /\ DOMAIN runs = 1 .. Len(runs) /\ DOMAIN runs' = 1 .. Len(runs) + 1
      /\ \A i \in 1 .. Len(runs) : runs'[i] = runs[i]
      /\ runs'[Len(runs) + 1] = e
      /\ \A d \in Effects : Ran(runs', d) <=> Ran(runs, d) \/ d = e
  <2>1. \A q : q = Append(runs, e) =>
          /\ q \in Seq(Effects) /\ Len(runs) \in Nat
          /\ DOMAIN runs = 1 .. Len(runs) /\ DOMAIN q = 1 .. Len(runs) + 1
          /\ \A i \in 1 .. Len(runs) : q[i] = runs[i]
          /\ q[Len(runs) + 1] = e
          /\ \A d \in Effects : Ran(q, d) <=> Ran(runs, d) \/ d = e
    BY <1>1, RanAppend, Zenon
  <2> QED
    BY <1>3, <2>1
<1>5. /\ \A r \in Scopes : effects[r][e] # "none" => r = s
      /\ \A r \in Scopes : e \in owed[r] => r = s
      /\ ~Ran(runs, e)
  BY DEF CordisIInv, EffectInv
<1>6. EffectInv'
  <2>1. \A r, q \in Scopes, d \in Effects :
          effects'[r][d] # "none" /\ effects'[q][d] # "none" => r = q
    BY <1>2 DEF CordisIInv, EffectInv
  <2>2. \A d \in Effects : Ran(runs', d) <=> \E r \in Scopes : effects'[r][d] = "Disposed"
    BY <1>2, <1>4, <1>5 DEF CordisIInv, EffectInv
  <2>3. \A r \in Scopes : \A d \in owed[r] : effects'[r][d] \in {"Disposing", "Disposed"}
    BY <1>1, <1>2 DEF CordisIInv, EffectInv
  <2>4. \A r \in Scopes : state[r] = "Disposed" => \A d \in owed[r] : Ran(runs', d)
    BY <1>1, <1>4 DEF CordisIInv, EffectInv
  <2> QED
    BY <2>1, <2>2, <2>3, <2>4 DEF CordisIInv, EffectInv
<1>7. RunsInv'
  <2>1. \A i \in 1 .. Len(runs) + 1 : i \in 1 .. Len(runs) \/ i = Len(runs) + 1
    BY <1>4
  <2>2. \A i \in 1 .. Len(runs) : runs[i] # e
    BY <1>4, <1>5 DEF Ran
  <2>3. \A i, j \in DOMAIN runs' : runs'[i] = runs'[j] => i = j
    BY <1>4, <2>1, <2>2 DEF CordisIInv, RunsInv
  <2>4. ASSUME NEW r \in Scopes, NEW d \in owed[r], NEW c \in owed[r], d < c, Ran(runs', d)
        PROVE  \E i, j \in DOMAIN runs' : i < j /\ runs'[i] = c /\ runs'[j] = d
    <3>1. d \in Effects /\ c \in Effects
      BY <1>1
    <3>2. CASE Ran(runs, d)
      <4>1. PICK i, j \in DOMAIN runs : i < j /\ runs[i] = c /\ runs[j] = d
        BY <2>4, <3>2 DEF CordisIInv, RunsInv
      <4>2. i \in DOMAIN runs' /\ j \in DOMAIN runs' /\ runs'[i] = c /\ runs'[j] = d
        BY <1>4, <4>1
      <4> QED
        BY <4>1, <4>2
    <3>3. CASE d = e
      <4>1. Ran(runs, c)
        BY <1>5, <2>4, <3>3
      <4>2. PICK i \in 1 .. Len(runs) : runs[i] = c
        BY <1>4, <4>1 DEF Ran
      <4>3. /\ i \in DOMAIN runs' /\ Len(runs) + 1 \in DOMAIN runs' /\ i < Len(runs) + 1
        BY <1>4
      <4>4. runs'[i] = c /\ runs'[Len(runs) + 1] = d
        BY <1>4, <3>3, <4>2
      <4> QED
        BY <4>3, <4>4
    <3> QED
      BY <1>4, <2>4, <3>1, <3>2, <3>3
  <2> QED
    BY <2>3, <2>4 DEF RunsInv
<1>8. ASSUME NEW f \in Frames, Claims(f, state, effects, owed, runs), WellPlaced(f),
             ~(f.op = "drop" /\ f.arg = e),
             ~(f.op = "dispose" /\ f.at # "begin" /\ f.scope = s /\ e \in owed[s])
      PROVE  Claims(f, state', effects', owed', runs')
  <2>1. f.scope \in Scopes
    BY DEF Frames
  <2>2. f.op = "install" => \A r \in Scopes : effects'[r][f.arg] = "none"
    <3>1. f.op = "install" => f.arg \in Effects /\ f.arg # e
      BY <1>8 DEF WellPlaced, Claims
    <3> QED
      BY <1>2, <1>8, <3>1 DEF Claims
  <2>3. f.op = "drop" => effects'[f.scope][f.arg] = "Disposing" /\ f.arg \notin owed[f.scope]
    <3>1. f.op = "drop" => f.arg \in Effects /\ f.arg # e
      BY <1>8 DEF WellPlaced
    <3> QED
      BY <1>2, <1>8, <2>1, <3>1 DEF Claims
  <2>4. f.op = "dispose" /\ f.at # "begin" =>
          \A d \in owed[f.scope] : Ran(runs', d) <=> Ran(runs, d)
    <3>1. f.op = "dispose" /\ f.at # "begin" => e \notin owed[f.scope]
      BY <1>5, <1>8, <2>1
    <3> QED
      BY <1>1, <1>4, <2>1, <3>1
  <2> QED
    BY <1>8, <2>2, <2>3, <2>4 DEF Claims
<1> QED
  BY <1>2, <1>4, <1>5, <1>6, <1>7, <1>8

LEMMA RunEffectInv ==
  ASSUME CordisIInv, NEW t \in Threads, RunEffect(t)
  PROVE  CordisIInv'
<1> DEFINE e == Top(t).arg
           s == Top(t).scope
           m == Len(stack[t]) - 1
<1>1. /\ stack[t] # <<>> /\ Top(t).op = "drop" /\ Top(t).at = "run" /\ Pop(t)
      /\ EffectEnds(s, e)
      /\ UNCHANGED <<state, parent, registered, fiber, held, owed>>
  BY DEF RunEffect, At
<1>2. /\ e \in Effects /\ s \in Scopes /\ effects[s][e] = "Disposing" /\ e \notin owed[s]
  BY <1>1, TopFacts DEF WellPlaced, Frames, Claims
<1>3. Stepped(t, m, <<>>)
  BY <1>1, PopFits
<1>4. /\ effects' \in [Scopes -> [Effects -> EffectStates]] /\ runs' \in Seq(Effects)
      /\ EffectInv' /\ RunsInv'
      /\ \A f \in Frames :
           /\ Claims(f, state, effects, owed, runs) /\ WellPlaced(f)
           /\ ~(f.op = "drop" /\ f.arg = e)
           /\ ~(f.op = "dispose" /\ f.at # "begin" /\ f.scope = s /\ e \in owed[s])
           => Claims(f, state', effects', owed', runs')
  BY <1>1, <1>2, RunStep
<1>5. ASSUME NEW u \in Threads, NEW d \in 1 .. Len(stack[u]), u # t \/ d <= m
      PROVE  Claims(Level(stack[u], d), state', effects', owed', runs')
  <2>1. PICK f \in Frames : f = Level(stack[u], d)
    BY <1>1, <1>5, OthersClaim
  <2>2. /\ ~Rivals(Top(t), f) /\ WellPlaced(f) /\ Claims(f, state, effects, owed, runs)
    BY <1>1, <1>5, <2>1, OthersClaim
  <2>3. ~(f.op = "drop" /\ f.arg = e)
    BY <1>1, <2>2 DEF Rivals
  <2> QED
    BY <1>2, <1>4, <2>1, <2>2, <2>3
<1>6. Remains(t, m)
  BY <1>1, <1>5 DEF Remains, Closed
<1> QED
  BY <1>1, <1>3, <1>4, <1>6, EffectStep

LEMMA DisposeRunsInv ==
  ASSUME CordisIInv, NEW t \in Threads, DisposeRuns(t)
  PROVE  CordisIInv'
<1> DEFINE e == Max(Top(t).effects)
           s == Top(t).scope
           m == Len(stack[t]) - 1
           h == [Top(t) EXCEPT !.effects = @ \ {e}]
<1>1. /\ stack[t] # <<>> /\ Top(t).op = "dispose" /\ Top(t).at = "fibers" /\ Goto(t, h)
      /\ Top(t).fibers = {} /\ Top(t).effects # {} /\ EffectEnds(s, e)
      /\ UNCHANGED <<state, parent, registered, fiber, held, owed>>
  BY DEF DisposeRuns, At, RunNext
<1>2. /\ Top(t) \in Frames /\ Known(Top(t), state, fiber) /\ s \in Scopes
      /\ state[s] = "Disposing" /\ Top(t).effects = {d \in owed[s] : ~Ran(runs, d)}
      /\ Top(t).effects \in SUBSET Effects
  BY <1>1, TopFacts DEF Frames, Claims
<1>3. e \in Top(t).effects /\ \A d \in Top(t).effects : e >= d
  BY <1>1, <1>2, MaxIsGreatest
<1>4. h \in Frames /\ h.op = "dispose" /\ h.scope = s /\ h.at = "fibers" /\ h.fibers = {}
      /\ h.effects = Top(t).effects \ {e}
  BY <1>1, <1>2, FrameParts DEF Frames
<1> HIDE DEF e, h
<1>5. /\ e \in Effects /\ e \in owed[s] /\ ~Ran(runs, e) /\ effects[s][e] = "Disposing"
      /\ owed[s] \subseteq Effects
  BY <1>2, <1>3 DEF CordisIInv, EffectInv, StackTypeOK
<1>6. \A d \in owed[s] : e < d => Ran(runs, d)
  <2>1. ASSUME NEW d \in owed[s], e < d, ~Ran(runs, d) PROVE FALSE
    <3>1. d \in Top(t).effects
      BY <1>2, <2>1
    <3>2. e >= d
      BY <1>3, <3>1
    <3>3. d \in Nat /\ e \in Nat
      BY <1>5, CordisAssumption DEF Effects
    <3> QED
      BY <2>1, <3>2, <3>3
  <2> QED
    BY <2>1
<1>7. /\ effects' \in [Scopes -> [Effects -> EffectStates]] /\ runs' \in Seq(Effects)
      /\ EffectInv' /\ RunsInv'
      /\ \A d \in Effects : Ran(runs', d) <=> Ran(runs, d) \/ d = e
      /\ \A f \in Frames :
           /\ Claims(f, state, effects, owed, runs) /\ WellPlaced(f)
           /\ ~(f.op = "drop" /\ f.arg = e)
           /\ ~(f.op = "dispose" /\ f.at # "begin" /\ f.scope = s /\ e \in owed[s])
           => Claims(f, state', effects', owed', runs')
  BY <1>1, <1>2, <1>5, <1>6, RunStep
<1>8. ASSUME NEW u \in Threads, NEW d \in 1 .. Len(stack[u]), u # t \/ d <= m
      PROVE  Claims(Level(stack[u], d), state', effects', owed', runs')
  <2>1. PICK f \in Frames : f = Level(stack[u], d)
    BY <1>1, <1>8, OthersClaim
  <2>2. /\ ~Rivals(Top(t), f) /\ WellPlaced(f) /\ f.scope \in Scopes
        /\ Claims(f, state, effects, owed, runs)
    BY <1>1, <1>8, <2>1, OthersClaim
  <2>3. ~(f.op = "dispose" /\ f.at # "begin" /\ f.scope = s)
    BY <1>1, <2>2 DEF Rivals
  <2>4. ~(f.op = "drop" /\ f.arg = e)
    <3>1. ASSUME f.op = "drop", f.arg = e PROVE FALSE
      <4>1. effects[f.scope][e] = "Disposing" /\ e \notin owed[f.scope]
        BY <2>2, <3>1 DEF Claims
      <4>2. f.scope = s
        BY <1>2, <1>5, <2>2, <4>1 DEF CordisIInv, EffectInv
      <4> QED
        BY <1>5, <4>1, <4>2
    <3> QED
      BY <3>1
  <2> QED
    BY <1>7, <2>1, <2>2, <2>3, <2>4
<1>9. Remains(t, m)
  BY <1>1, <1>8 DEF Remains, Closed
<1>10. Claims(h, state', effects', owed', runs')
  <2>1. h.effects = {d \in owed[s] : ~Ran(runs', d)}
    BY <1>2, <1>4, <1>5, <1>7
  <2> QED
    BY <1>1, <1>2, <1>4, <2>1 DEF Claims
<1>11. WellPlaced(h) /\ ~Waits(h) /\ Known(h, state', fiber')
  BY <1>1, <1>2, <1>4 DEF WellPlaced, Waits, Known
<1>12. \A g \in Frames : Rivals(h, g) => Rivals(Top(t), g)
  BY <1>1, <1>4 DEF Rivals
<1>13. Stepped(t, m, <<h>>)
  BY <1>1, <1>4, <1>10, <1>11, <1>12, GotoFits
<1> QED
  BY <1>1, <1>7, <1>9, <1>13, EffectStep----------------------------------------------------------------------------
LEMMA DisposeBeginsInv ==
  ASSUME CordisIInv, NEW t \in Threads, DisposeBegins(t)
  PROVE  CordisIInv'
<1> DEFINE s == Top(t).scope
           active == {e \in Effects : effects[s][e] = "Active"}
           m == Len(stack[t]) - 1
           h == [Top(t) EXCEPT !.at = "fibers", !.fibers = registered[s], !.effects = active]
<1>1. /\ stack[t] # <<>> /\ Top(t).op = "dispose" /\ Top(t).at = "begin" /\ Goto(t, h)
      /\ state[s] = "Active" /\ state' = [state EXCEPT ![s] = "Disposing"]
      /\ fiber' = [f \in Fibers |->
           IF f \in registered[s] /\ fiber[f] \in {"Mounting", "Mounted"}
             THEN "Unmounting" ELSE fiber[f]]
      /\ effects' = [effects EXCEPT ![s] =
           [e \in Effects |-> IF e \in active THEN "Disposing" ELSE effects[s][e]]]
      /\ owed' = [owed EXCEPT ![s] = active]
      /\ UNCHANGED <<parent, registered, held, runs>>
  BY DEF DisposeBegins, At
<1>2. /\ Top(t) \in Frames /\ Known(Top(t), state, fiber) /\ s \in Scopes
  BY <1>1, TopFacts DEF Frames
<1>3. /\ state \in [Scopes -> ScopeStates] /\ effects \in [Scopes -> [Effects -> EffectStates]]
      /\ fiber \in [Fibers -> FiberStates] /\ held \subseteq Fibers /\ runs \in Seq(Effects)
      /\ registered \in [Scopes -> SUBSET Fibers] /\ owed \in [Scopes -> SUBSET Effects]
      /\ StackTypeOK /\ FrameInv /\ AloneInv
  BY DEF CordisIInv, CordisTypeOK, StackTypeOK
<1>4. registered[s] \subseteq Fibers /\ active \subseteq Effects /\ "fibers" \in Places
  BY <1>2, <1>3 DEF Places
<1>5. h \in Frames /\ h.op = "dispose" /\ h.scope = s /\ h.at = "fibers"
      /\ h.fibers = registered[s] /\ h.effects = active
  BY <1>1, <1>2, <1>4, FrameParts DEF Frames
<1>6. /\ \A e \in active : e \in Effects /\ effects[s][e] = "Active"
      /\ \A e \in Effects : effects[s][e] = "Active" => e \in active
  OBVIOUS
<1> HIDE DEF s, h, active
<1>7. /\ state' \in [Scopes -> ScopeStates] /\ state'[s] = "Disposing"
      /\ \A r \in Scopes : r # s => state'[r] = state[r]
      /\ owed' \in [Scopes -> SUBSET Effects] /\ owed'[s] = active
      /\ \A r \in Scopes : r # s => owed'[r] = owed[r]
  BY <1>1, <1>2, <1>3, <1>4 DEF ScopeStates
<1>8. /\ fiber' \in [Fibers -> FiberStates]
      /\ \A f \in Fibers : fiber'[f] = "none" <=> fiber[f] = "none"
      /\ \A f \in Fibers : fiber'[f] = "Unmounted" => fiber[f] = "Unmounted"
  BY <1>1, <1>3 DEF FiberStates
<1>9. /\ effects' \in [Scopes -> [Effects -> EffectStates]]
      /\ \A e \in active : effects'[s][e] = "Disposing"
      /\ \A r \in Scopes, e \in Effects : r # s \/ e \notin active => effects'[r][e] = effects[r][e]
  <2>1. effects' \in [Scopes -> [Effects -> EffectStates]]
    BY <1>1, <1>2, <1>3 DEF EffectStates
  <2>2. /\ \A e \in active : effects'[s][e] = "Disposing"
        /\ \A r \in Scopes, e \in Effects : r # s \/ e \notin active => effects'[r][e] = effects[r][e]
    BY <1>1, <1>2, <1>3, <1>4
  <2> QED
    BY <2>1, <2>2
<1>10. /\ \A r \in Scopes, e \in Effects : effects'[r][e] = "none" <=> effects[r][e] = "none"
       /\ \A r \in Scopes, e \in Effects : effects'[r][e] = "Disposed" <=> effects[r][e] = "Disposed"
       /\ \A r \in Scopes, e \in Effects : effects[r][e] = "Disposing" => effects'[r][e] = "Disposing"
  BY <1>6, <1>9
<1>11. /\ \A e \in active : ~Ran(runs, e)
       /\ runs' = runs
  BY <1>1, <1>2, <1>6 DEF CordisIInv, EffectInv
<1>12. ASSUME NEW u \in Threads, NEW d \in 1 .. Len(stack[u])
       PROVE  /\ Claims(Level(stack[u], d), state', effects', owed', runs')
              /\ ~Rivals(h, Level(stack[u], d))
  <2>1. PICK f \in Frames : f = Level(stack[u], d)
    BY <1>3, LevelIsFrame
  <2>2. /\ WellPlaced(f) /\ f.scope \in Scopes /\ Claims(f, state, effects, owed, runs)
    BY <1>3, <2>1 DEF FrameInv, Frames
  <2>3. f.op = "dispose" /\ f.at # "begin" => f.scope # s
    BY <1>1, <2>2 DEF Claims
  <2>4. f.op = "install" => \A r \in Scopes : effects'[r][f.arg] = "none"
    BY <1>10, <2>2 DEF WellPlaced, Claims
  <2>5. f.op = "drop" => effects'[f.scope][f.arg] = "Disposing" /\ f.arg \notin owed'[f.scope]
    <3>1. f.op = "drop" =>
            /\ f.arg \in Effects /\ effects[f.scope][f.arg] = "Disposing"
            /\ f.arg \notin owed[f.scope]
      BY <2>2 DEF WellPlaced, Claims
    <3> QED
      BY <1>6, <1>7, <1>10, <2>2, <3>1
  <2>6. Claims(f, state', effects', owed', runs')
    BY <1>7, <1>11, <2>2, <2>3, <2>4, <2>5 DEF Claims
  <2> QED
    BY <1>5, <2>1, <2>3, <2>6 DEF Rivals
<1>13. \A r \in Scopes : /\ state[r] # "none" => state'[r] # "none"
                         /\ Closed(state, r) => Closed(state', r)
  BY <1>7 DEF Closed
<1>14. Remains(t, m)
  BY <1>8, <1>12, <1>13 DEF Remains
<1>15. Claims(h, state', effects', owed', runs')
  BY <1>5, <1>7, <1>11 DEF Claims
<1>16. WellPlaced(h) /\ ~Waits(h)
  BY <1>5 DEF WellPlaced, Waits
<1>17. Known(h, state', fiber')
  <2>1. \A g \in registered[s] : fiber[g] # "none"
    BY <1>2 DEF CordisIInv, CordisTypeOK
  <2> QED
    BY <1>4, <1>5, <1>7, <1>8, <2>1 DEF Known
<1>18. NoRival(t, m, h)
  BY <1>12 DEF NoRival
<1>19. Stepped(t, m, <<h>>)
  BY <1>1, <1>5, <1>15, <1>16, <1>17, <1>18, GotoFits DEF s
<1>20. FrameInv' /\ AloneInv'
  BY <1>3, <1>14, <1>19, FramesStep, AloneStep DEF Fits, Stepped
<1>21. StackTypeOK'
  BY <1>1, <1>3, <1>7, <1>19 DEF StackTypeOK, Stepped, Turned
<1>22. \A f \in Fibers : f \in Scopes
  BY CordisAssumption DEF Fibers, Scopes
<1>23. CordisTypeOK'
  <2>1. \A f \in Fibers : /\ state'[f] = "none" <=> fiber'[f] = "none"
                          /\ fiber'[f] # "none" => parent'[f] < f
    <3>1. \A f \in Fibers : state'[f] = "none" <=> state[f] = "none"
      BY <1>1, <1>7, <1>22
    <3> QED
      BY <1>1, <1>8, <3>1 DEF CordisIInv, CordisTypeOK
  <2>2. \A r \in Scopes : \A f \in registered'[r] : parent'[f] = r /\ fiber'[f] # "none"
    <3>1. \A r \in Scopes : \A f \in registered[r] :
            f \in Fibers /\ parent[f] = r /\ fiber[f] # "none"
      BY <1>3 DEF CordisIInv, CordisTypeOK
    <3> QED
      BY <1>1, <1>8, <3>1
  <2> QED
    BY <1>1, <1>3, <1>7, <1>8, <1>9, <2>1, <2>2 DEF CordisTypeOK
<1>24. TreeInv'
  <2>1. Root \in Scopes
    BY CordisAssumption DEF Root, Scopes
  <2> QED
    BY <1>8, <1>13, <2>1 DEF CordisIInv, TreeInv
<1>25. UnmountedIsClosed'
  BY <1>8, <1>13, <1>22 DEF CordisIInv, UnmountedIsClosed, Closed
<1>26. EffectInv'
  <2>1. \A r, q \in Scopes, e \in Effects :
          effects'[r][e] # "none" /\ effects'[q][e] # "none" => r = q
    BY <1>10 DEF CordisIInv, EffectInv
  <2>2. \A e \in Effects : Ran(runs', e) <=> \E r \in Scopes : effects'[r][e] = "Disposed"
    BY <1>10, <1>11 DEF CordisIInv, EffectInv
  <2>3. \A r \in Scopes : \A e \in owed'[r] : effects'[r][e] \in {"Disposing", "Disposed"}
    <3>1. \A r \in Scopes : r # s => \A e \in owed[r] : e \in Effects /\ effects[r][e] \in {"Disposing", "Disposed"}
      BY <1>3 DEF CordisIInv, EffectInv
    <3> QED
      BY <1>7, <1>9, <1>10, <3>1
  <2>4. \A r \in Scopes : state'[r] \in {"none", "Active"} => owed'[r] = {}
    BY <1>7 DEF CordisIInv, EffectInv
  <2>5. \A r \in Scopes : state'[r] = "Disposed" => \A e \in owed'[r] : Ran(runs', e)
    BY <1>7, <1>11 DEF CordisIInv, EffectInv
  <2> QED
    BY <2>1, <2>2, <2>3, <2>4, <2>5 DEF EffectInv
<1>27. RunsInv'
  <2>1. ASSUME NEW r \in Scopes, NEW d \in owed'[r], NEW e \in owed'[r], d < e, Ran(runs', d)
        PROVE  \E i, j \in DOMAIN runs' : i < j /\ runs'[i] = e /\ runs'[j] = d
    <3>1. r # s
      BY <1>7, <1>11, <2>1
    <3>2. d \in owed[r] /\ e \in owed[r] /\ Ran(runs, d)
      BY <1>7, <1>11, <2>1, <3>1
    <3>3. \E i, j \in DOMAIN runs : i < j /\ runs[i] = e /\ runs[j] = d
      BY <2>1, <3>2 DEF CordisIInv, RunsInv
    <3> QED
      BY <1>11, <3>3
  <2> QED
    BY <1>11, <2>1 DEF CordisIInv, RunsInv
<1> QED
  BY <1>20, <1>21, <1>23, <1>24, <1>25, <1>26, <1>27 DEF CordisIInv

LEMMA DisposeEndsInv ==
  ASSUME CordisIInv, NEW t \in Threads, DisposeEnds(t)
  PROVE  CordisIInv'
<1> DEFINE s == Top(t).scope
           m == Len(stack[t]) - 1
<1>1. /\ stack[t] # <<>> /\ Top(t).op = "dispose" /\ Top(t).at = "fibers" /\ Pop(t)
      /\ Top(t).fibers = {} /\ Top(t).effects = {}
      /\ state' = [state EXCEPT ![s] = "Disposed"]
      /\ registered' = [registered EXCEPT ![s] = {}]
      /\ UNCHANGED <<parent, effects, fiber, held, history>>
  BY DEF DisposeEnds, At
<1>2. /\ s \in Scopes /\ state[s] = "Disposing"
      /\ Top(t).effects = {d \in owed[s] : ~Ran(runs, d)}
  BY <1>1, TopFacts DEF Frames, Claims
<1>3. /\ state \in [Scopes -> ScopeStates] /\ registered \in [Scopes -> SUBSET Fibers]
      /\ StackTypeOK /\ FrameInv /\ AloneInv
  BY DEF CordisIInv, CordisTypeOK, StackTypeOK
<1>4. owed' = owed /\ runs' = runs /\ effects' = effects /\ fiber' = fiber
  BY <1>1 DEF history
<1>5. /\ state' \in [Scopes -> ScopeStates] /\ state'[s] = "Disposed"
      /\ \A r \in Scopes : r # s => state'[r] = state[r]
      /\ registered' \in [Scopes -> SUBSET Fibers]
      /\ \A r \in Scopes : registered'[r] \subseteq registered[r]
  BY <1>1, <1>2, <1>3 DEF ScopeStates
<1>6. \A d \in owed[s] : Ran(runs, d)
  BY <1>1, <1>2
<1>7. Stepped(t, m, <<>>)
  BY <1>1, <1>5, PopFits DEF Closed
<1>8. ASSUME NEW u \in Threads, NEW d \in 1 .. Len(stack[u]), u # t \/ d <= m
      PROVE  Claims(Level(stack[u], d), state', effects', owed', runs')
  <2>1. PICK f \in Frames : f = Level(stack[u], d)
    BY <1>1, <1>8, OthersClaim
  <2>2. /\ ~Rivals(Top(t), f) /\ f.scope \in Scopes
        /\ Claims(f, state, effects, owed, runs)
    BY <1>1, <1>8, <2>1, OthersClaim
  <2>3. f.op = "dispose" /\ f.at # "begin" => f.scope # s
    BY <1>1, <2>2 DEF Rivals
  <2>4. Claims(f, state', effects', owed', runs')
    BY <1>4, <1>5, <2>2, <2>3 DEF Claims
  <2> QED
    BY <2>1, <2>4
<1> HIDE DEF s
<1>9. \A r \in Scopes : /\ state[r] # "none" <=> state'[r] # "none"
                        /\ Closed(state, r) => Closed(state', r)
  BY <1>2, <1>5 DEF Closed
<1>10. Remains(t, m)
  BY <1>4, <1>8, <1>9 DEF Remains
<1>11. FrameInv' /\ AloneInv'
  BY <1>3, <1>7, <1>10, FramesStep, AloneStep DEF Fits, Stepped
<1>12. StackTypeOK'
  BY <1>1, <1>3, <1>4, <1>5, <1>7 DEF StackTypeOK, Stepped, Turned
<1>13. \A f \in Fibers : f \in Scopes
  BY CordisAssumption DEF Fibers, Scopes
<1>14. CordisTypeOK'
  <2>1. \A f \in Fibers : state'[f] = "none" <=> fiber'[f] = "none"
    BY <1>4, <1>9, <1>13 DEF CordisIInv, CordisTypeOK
  <2> QED
    BY <1>1, <1>4, <1>5, <2>1 DEF CordisIInv, CordisTypeOK
<1>15. TreeInv'
  <2>1. Root \in Scopes
    BY CordisAssumption DEF Root, Scopes
  <2> QED
    BY <1>4, <1>9, <2>1 DEF CordisIInv, TreeInv
<1>16. UnmountedIsClosed'
  BY <1>4, <1>9, <1>13 DEF CordisIInv, UnmountedIsClosed, Closed
<1>17. EffectInv'
  BY <1>2, <1>4, <1>5, <1>6 DEF CordisIInv, EffectInv
<1>18. RunsInv'
  BY <1>4 DEF CordisIInv, RunsInv
<1> QED
  BY <1>11, <1>12, <1>14, <1>15, <1>16, <1>17, <1>18 DEF CordisIInv
----------------------------------------------------------------------------
LEMMA CordisInitInv ==
  ASSUME CordisInit
  PROVE  CordisIInv
<1>1. CordisTypeOK
  BY CordisAssumption DEF CordisInit, CordisTypeOK, ScopeStates, EffectStates, FiberStates,
     Scopes, Fibers, Root
<1>2. \A t \in Threads : stack[t] = <<>> /\ Len(stack[t]) = 0
  BY DEF CordisInit
<1>3. StackTypeOK
  BY CordisAssumption DEF CordisInit, StackTypeOK, Scopes, Root
<1>4. TreeInv
  BY CordisAssumption DEF CordisInit, TreeInv, Scopes, Root
<1>5. \A t \in Threads : \A d \in 1 .. Len(stack[t]) : FALSE
  BY <1>2
<1>6. FrameInv /\ AloneInv
  BY <1>5 DEF FrameInv, AloneInv
<1>7. \A e : ~Ran(runs, e)
  BY DEF CordisInit, Ran
<1>8. EffectInv
  BY <1>7 DEF CordisInit, EffectInv
<1>9. RunsInv
  BY <1>7 DEF CordisInit, RunsInv
<1>10. UnmountedIsClosed
  BY DEF CordisInit, UnmountedIsClosed
<1> QED
  BY <1>1, <1>3, <1>4, <1>6, <1>8, <1>9, <1>10 DEF CordisIInv

LEMMA CordisStutterInv ==
  ASSUME CordisIInv, UNCHANGED cordisVars
  PROVE  CordisIInv'
<1>1. /\ state' = state /\ parent' = parent /\ effects' = effects /\ registered' = registered
      /\ fiber' = fiber /\ held' = held /\ stack' = stack /\ runs' = runs /\ owed' = owed
  BY DEF cordisVars
<1>2. CordisTypeOK' /\ StackTypeOK' /\ TreeInv' /\ UnmountedIsClosed'
  BY <1>1 DEF CordisIInv, CordisTypeOK, StackTypeOK, TreeInv, UnmountedIsClosed
<1>3. FrameInv' /\ AloneInv'
  BY <1>1 DEF CordisIInv, FrameInv, AloneInv
<1>4. EffectInv' /\ RunsInv'
  BY <1>1 DEF CordisIInv, EffectInv, RunsInv
<1> QED
  BY <1>2, <1>3, <1>4 DEF CordisIInv

LEMMA CordisNextInv ==
  ASSUME CordisIInv, CordisNext
  PROVE  CordisIInv'
<1>1. PICK t \in Threads : Calls(t) \/ Steps(t)
  BY DEF CordisNext
<1>2. CASE Calls(t)
  BY <1>2, MountInv, DisposeContextInv, InstallInv, DisposeEffectInv, UnmountInv DEF Calls
<1>3. CASE Steps(t)
  BY <1>3, WalkInv, InsertEffectInv, RegisterFiberInv, RefusedInv, MountOkInv, MountFailsInv,
     MountFailedInv, RunEffectInv, DisposeBeginsInv, DisposeFiberInv, DisposeFiberEndsInv,
     DisposeRunsInv, DisposeEndsInv, UnmountMarksInv, UnmountEndsInv DEF Steps
<1> QED
  BY <1>1, <1>2, <1>3

LEMMA CordisInvariant == CordisSpec => []CordisIInv
<1>1. CordisInit => CordisIInv
  BY CordisInitInv
<1>2. CordisIInv /\ [CordisNext]_cordisVars => CordisIInv'
  BY CordisNextInv, CordisStutterInv
<1> QED
  BY <1>1, <1>2, PTL DEF CordisSpec

(* A dispose that is still at its fibers has run nothing that its scope    *)
(* owes.                                                                   *)
LEMMA InvUnwinds ==
  ASSUME CordisIInv
  PROVE  EffectsUnwind
<1>1. DisposerRunsOnce
  <2>1. \A i, j \in DOMAIN runs : runs[i] = runs[j] => i = j
    BY DEF CordisIInv, RunsInv
  <2>2. \A s \in Scopes, e \in Effects :
          effects[s][e] = "Disposed" => \E i \in DOMAIN runs : runs[i] = e
    BY DEF CordisIInv, EffectInv, Ran
  <2> QED
    BY <2>1, <2>2 DEF DisposerRunsOnce
<1>2. ASSUME NEW s \in Scopes
      PROVE  LET ran == {e \in owed[s] : \E i \in DOMAIN runs : runs[i] = e} IN
             /\ state[s] = "Disposed" => ran = owed[s]
             /\ \A d, e \in owed[s] : d < e /\ d \in ran =>
                  \E i, j \in DOMAIN runs : i < j /\ runs[i] = e /\ runs[j] = d
             /\ ran # {} => \A t \in Threads : \A k \in DOMAIN stack[t] :
                  stack[t][k].op = "dispose" /\ stack[t][k].scope = s
                    => stack[t][k].fibers = {}
  <2> DEFINE ran == {e \in owed[s] : Ran(runs, e)}
  <2>1. state[s] = "Disposed" => ran = owed[s]
    BY DEF CordisIInv, EffectInv
  <2>2. \A d, e \in owed[s] : d < e /\ d \in ran =>
          \E i, j \in DOMAIN runs : i < j /\ runs[i] = e /\ runs[j] = d
    BY DEF CordisIInv, RunsInv
  <2>3. ASSUME ran # {}, NEW t \in Threads, NEW k \in DOMAIN stack[t],
               stack[t][k].op = "dispose", stack[t][k].scope = s
        PROVE  stack[t][k].fibers = {}
    <3>1. stack[t] \in Seq(Frames) /\ k \in 1 .. Len(stack[t])
      BY DEF CordisIInv, StackTypeOK
    <3>2. /\ Len(stack[t]) + 1 - k \in 1 .. Len(stack[t])
          /\ Len(stack[t]) + 1 - (Len(stack[t]) + 1 - k) = k
      BY <3>1
    <3>3. Level(stack[t], Len(stack[t]) + 1 - k) = stack[t][k]
      BY <3>2 DEF Level
    <3>4. Claims(stack[t][k], state, effects, owed, runs)
      BY <3>2, <3>3 DEF CordisIInv, FrameInv
    <3> QED
      BY <2>3, <3>4 DEF Claims
  <2> QED
    BY <2>1, <2>2, <2>3 DEF Ran
<1> QED
  BY <1>1, <1>2 DEF CordisIInv, EffectsUnwind, UnwindsInReverse

(* However dispose, dispose_effect and unmount of several threads meet:    *)
(* no disposer runs twice, dispose runs everything that it found, the      *)
(* youngest effect first, and no effect before its fibers are through.     *)
THEOREM EffectsUnwindOnce == CordisSpec => []EffectsUnwind
BY CordisInvariant, InvUnwinds, PTL

(* A fiber that says Unmounted has no active scope: unmount and dispose    *)
(* set the state of a fiber only after the dispose of its scope, their own *)
(* or the one of another thread that they found there.                     *)
THEOREM UnmountedStaysClosed == CordisSpec => []UnmountedIsClosed
<1>1. CordisIInv => UnmountedIsClosed
  BY DEF CordisIInv
<1> QED
  BY <1>1, CordisInvariant, PTL

----------------------------------------------------------------------------
(* The event bus.  What the table says of its handlers; what the copy of a  *)
(* dispatch keeps when the table goes on without it; how far a dispatch has *)
(* come, and what it will answer.                                           *)

Marks == {"uncalled", "running", "ok", "failed", "handled"}
Distinct(q) == \A i, j \in DOMAIN q : q[i] = q[j] => i = j

Definitions == [type : PayloadTypes \cup {"none"}, mode : EventModes \cup {"none"},
                handlers : Seq(HandlerIds)]
Subscriptions == [name : EventNames \cup {"none"}, type : PayloadTypes \cup {"none"},
                  mode : EventModes \cup {"none"}, active : BOOLEAN]
Dispatches == [at : {"idle", "calling", "batch", "returned"},
               name : EventNames \cup {"none"}, type : PayloadTypes \cup {"none"},
               mode : EventModes \cup {"none"}, copy : Seq(HandlerIds),
               outcome : [HandlerIds -> Marks], error : Nat, unspawned : BOOLEAN]

BusTypeOK ==
  /\ definitions \in [EventNames -> Definitions]
  /\ subscription \in [HandlerIds -> Subscriptions]
  /\ dispatch \in [BusThreads -> Dispatches]

(* A defined event has handlers; each is there once, for as long as its    *)
(* subscription lives, and was registered for what the event is now.       *)
TableInv ==
  /\ \A n \in EventNames :
       /\ definitions[n] = NoEvent \/ definitions[n].handlers # <<>>
       /\ Distinct(definitions[n].handlers)
       /\ \A i \in DOMAIN definitions[n].handlers :
            LET s == subscription[definitions[n].handlers[i]] IN
            /\ s.active
            /\ s.name = n
            /\ s.type = definitions[n].type
            /\ s.mode = definitions[n].mode
  /\ \A h \in HandlerIds :
       /\ subscription[h] # NoHandler => subscription[h].mode \in EventModes
       /\ subscription[h].active =>
            /\ subscription[h].name \in EventNames
            /\ \E i \in DOMAIN definitions[subscription[h].name].handlers :
                 definitions[subscription[h].name].handlers[i] = h

(* The handlers of a copy stay what they were registered for, whether or   *)
(* not they are still in the table.                                        *)
CopyInv(d, sub) ==
  /\ Distinct(d.copy)
  /\ \A i \in DOMAIN d.copy :
       /\ sub[d.copy[i]] # NoHandler
       /\ sub[d.copy[i]].type = d.type
       /\ sub[d.copy[i]].mode = d.mode

Out(d, i) == d.outcome[d.copy[i]]
FailedAt(d) == {i \in DOMAIN d.copy : Out(d, i) = "failed"}

(* The error is that of the first handler that failed.                     *)
ErrorIsFirst(d) ==
  \/ d.error = 0 /\ FailedAt(d) = {}
  \/ \E i \in FailedAt(d) : d.error = d.copy[i] /\ \A j \in FailedAt(d) : i <= j

(* A dispatch that goes on has called a prefix of its copy, and none of    *)
(* them has stopped it.                                                    *)
GoesOn(d) ==
  /\ \A i, j \in DOMAIN d.copy : i < j /\ Out(d, i) = "uncalled" => Out(d, j) = "uncalled"
  /\ \A i \in DOMAIN d.copy : ~Stops(d.mode, Out(d, i))

Ended(d) ==
  /\ d.mode \in {"emit", "parallel"} /\ ~d.unspawned =>
       \A i \in DOMAIN d.copy : Out(d, i) \in {"ok", "failed"}
  /\ \A i, j \in DOMAIN d.copy : Stops(d.mode, Out(d, i)) /\ i < j => Out(d, j) = "uncalled"

DispatchInv(d) ==
  /\ d.at = "calling" => d.mode # "parallel"
  /\ d.at = "batch" => d.mode = "parallel"
  /\ d.at # "batch" => RunningIn(d) = {}
  /\ \A i \in DOMAIN d.copy : Out(d, i) \in {"uncalled", "running"} \cup Answers(d.mode)
  /\ d.at \in {"calling", "batch"} => GoesOn(d)
  /\ d.unspawned \/ ErrorIsFirst(d)
  /\ d.at = "returned" => Ended(d)

BusIInv ==
  /\ BusTypeOK
  /\ TableInv
  /\ \A t \in BusThreads : CopyInv(dispatch[t], subscription) /\ DispatchInv(dispatch[t])


(* What a table keeps when a handler leaves: the others, each once.        *)
Upto(q, h, k, g) ==
  g = [i \in 0 .. k |-> IF i = 0 THEN <<>>
                        ELSE IF q[i] = h THEN g[i - 1]
                        ELSE Append(g[i - 1], q[i])]

LEMMA UptoExists ==
  ASSUME NEW q, NEW h, NEW n \in Nat
  PROVE  \E g : Upto(q, h, n, g)
<1> DEFINE step(g, i) == IF i = 0 THEN <<>>
                         ELSE IF q[i] = h THEN g[i - 1] ELSE Append(g[i - 1], q[i])
           Missing == {k \in Nat : ~\E g : Upto(q, h, k, g)}
<1>1. SUFFICES ASSUME Missing # {} PROVE FALSE
  OBVIOUS
<1>2. PICK k \in Missing : \A m \in Missing : k <= m
  <2>1. Missing \in SUBSET Nat
    OBVIOUS
  <2> HIDE DEF Missing
  <2> QED
    BY <1>1, <2>1, LeastExists
<1>3. k \in Nat /\ ~\E g : Upto(q, h, k, g)
  OBVIOUS
<1>4. CASE k = 0
  <2>1. Upto(q, h, 0, [i \in 0 .. 0 |-> <<>>])
    BY DEF Upto
  <2> QED
    BY <1>3, <1>4, <2>1
<1>5. CASE k # 0
  <2>1. k - 1 \in Nat /\ ~(k <= k - 1)
    BY <1>3, <1>5
  <2>2. k - 1 \notin Missing
    <3> HIDE DEF Missing
    <3> QED
      BY <1>2, <2>1
  <2>3. PICK g : Upto(q, h, k - 1, g)
    BY <2>1, <2>2
  <2> DEFINE f == [i \in 0 .. k |-> IF i = k THEN step(g, k) ELSE g[i]]
             t == [i \in 0 .. k |-> step(f, i)]
  <2>4. \A i \in 0 .. (k - 1) : f[i] = g[i] /\ g[i] = step(g, i)
    <3>1. \A i \in 0 .. (k - 1) : i \in 0 .. k /\ i # k
      BY <1>3
    <3> QED
      BY <2>3, <3>1 DEF Upto
  <2>5. f[k] = step(g, k) /\ k - 1 \in 0 .. (k - 1)
    BY <1>3, <2>1
  <2>6. ASSUME NEW i \in 0 .. k PROVE f[i] = t[i]
    <3>1. CASE i = k
      BY <1>5, <2>4, <2>5, <3>1
    <3>2. CASE i # k /\ i # 0
      <4>1. i \in 0 .. (k - 1) /\ i - 1 \in 0 .. (k - 1)
        BY <1>3, <3>2
      <4> QED
        BY <2>4, <3>2, <4>1
    <3>3. CASE i # k /\ i = 0
      <4>1. 0 \in 0 .. (k - 1)
        BY <1>3, <3>3
      <4> QED
        BY <2>4, <3>3, <4>1
    <3> QED
      BY <3>1, <3>2, <3>3
  <2>7. DOMAIN f = 0 .. k /\ DOMAIN t = 0 .. k
    OBVIOUS
  <2>8. f = [i \in 0 .. k |-> f[i]] /\ t = [i \in 0 .. k |-> t[i]]
    OBVIOUS
  <2>9. f = t
    <3> HIDE DEF f, t
    <3> QED
      BY <2>6, <2>8
  <2>10. Upto(q, h, k, f)
    <3> HIDE DEF f
    <3> QED
      BY <2>9 DEF Upto
  <2> QED
    BY <1>3, <2>10
<1> QED
  BY <1>3, <1>4, <1>5

(* The numbers of a table.                                                 *)
InTable(q, x) == \E i \in DOMAIN q : q[i] = x

LEMMA RetainedIsTheRest ==
  ASSUME NEW q \in Seq(HandlerIds), NEW h, Distinct(q)
  PROVE  /\ Retained(q, h) \in Seq(HandlerIds)
         /\ Distinct(Retained(q, h))
         /\ \A x : InTable(Retained(q, h), x) <=> InTable(q, x) /\ x # h
<1> DEFINE N == Len(q)
           f == CHOOSE g : Upto(q, h, N, g)
           Sofar(n) == /\ f[n] \in Seq(HandlerIds)
                      /\ Distinct(f[n])
                      /\ \A x : InTable(f[n], x) <=> x # h /\ \E i \in 1 .. n : q[i] = x
           Bad == {n \in 0 .. N : ~Sofar(n)}
<1>1. N \in Nat /\ DOMAIN q = 1 .. N /\ \A i \in 1 .. N : q[i] \in HandlerIds
  OBVIOUS
<1>2. Upto(q, h, N, f)
  <2> HIDE DEF N
  <2> QED
    BY <1>1, UptoExists
<1>3. Retained(q, h) = f[N]
  BY DEF Retained, Upto
<1> HIDE DEF f
<1>4. /\ f[0] = <<>>
      /\ \A n \in 1 .. N : f[n] = IF q[n] = h THEN f[n - 1] ELSE Append(f[n - 1], q[n])
  <2>1. \A n \in 0 .. N : f[n] = IF n = 0 THEN <<>>
                                 ELSE IF q[n] = h THEN f[n - 1] ELSE Append(f[n - 1], q[n])
    BY <1>2 DEF Upto
  <2>2. 0 \in 0 .. N /\ \A n \in 1 .. N : n \in 0 .. N /\ n # 0
    BY <1>1
  <2> QED
    BY <2>1, <2>2
<1>5. Sofar(0)
  BY <1>4 DEF Distinct, InTable
<1>6. ASSUME NEW n \in 1 .. N, Sofar(n - 1) PROVE Sofar(n)
  <2>1. /\ n \in Nat /\ n - 1 \in Nat /\ 1 .. n = (1 .. (n - 1)) \cup {n}
        /\ q[n] \in HandlerIds /\ \A i \in 1 .. (n - 1) : i \in DOMAIN q /\ i # n
    BY <1>1
  <2>2. CASE q[n] = h
    <3>1. f[n] = f[n - 1]
      BY <1>4, <2>2
    <3>2. \A x : x # h => ((\E i \in 1 .. n : q[i] = x) <=> \E i \in 1 .. (n - 1) : q[i] = x)
      BY <2>1, <2>2
    <3> QED
      BY <1>6, <3>1, <3>2
  <2>3. CASE q[n] # h
    <3> DEFINE p == f[n - 1]
    <3>1. f[n] = Append(p, q[n]) /\ p \in Seq(HandlerIds) /\ Distinct(p)
      BY <1>4, <1>6, <2>3
    <3>2. ~InTable(p, q[n])
      <4>1. n \in DOMAIN q
        BY <1>1
      <4>2. ~\E i \in 1 .. (n - 1) : q[i] = q[n]
        BY <2>1, <4>1 DEF Distinct
      <4> QED
        BY <1>6, <4>2
    <3>3. \A x : InTable(p, x) <=> x # h /\ \E i \in 1 .. (n - 1) : q[i] = x
      BY <1>6
    <3> HIDE DEF p
    <3>4. f[n] \in Seq(HandlerIds)
      BY <2>1, <3>1
    <3>5. \A i \in DOMAIN f[n] : \/ i \in DOMAIN p /\ f[n][i] = p[i]
                                 \/ i = Len(p) + 1 /\ f[n][i] = q[n]
      BY <3>1
    <3>6. /\ \A i \in DOMAIN p : i \in DOMAIN f[n] /\ f[n][i] = p[i]
          /\ Len(p) + 1 \in DOMAIN f[n] /\ f[n][Len(p) + 1] = q[n]
      BY <3>1
    <3>7. \A x : InTable(f[n], x) <=> InTable(p, x) \/ x = q[n]
      BY <3>5, <3>6 DEF InTable
    <3>8. Distinct(f[n])
      <4>1. \A i, j \in DOMAIN p : p[i] = p[j] => i = j
        BY <3>1 DEF Distinct
      <4>2. \A i \in DOMAIN p : p[i] # q[n]
        BY <3>2 DEF InTable
      <4> HIDE DEF InTable
      <4> QED
        BY <3>5, <4>1, <4>2 DEF Distinct
    <3>9. \A x : (\E i \in 1 .. n : q[i] = x) <=> (\E i \in 1 .. (n - 1) : q[i] = x) \/ x = q[n]
      BY <2>1
    <3> QED
      BY <2>3, <3>3, <3>4, <3>7, <3>8, <3>9
  <2> QED
    BY <2>2, <2>3
<1>7. Bad = {}
  <2>1. SUFFICES ASSUME Bad # {} PROVE FALSE
    OBVIOUS
  <2>2. PICK k \in Bad : \A m \in Bad : k <= m
    <3>1. Bad \in SUBSET Nat
      BY <1>1
    <3> HIDE DEF Bad
    <3> QED
      BY <2>1, <3>1, LeastExists
  <2>3. k \in 0 .. N /\ ~Sofar(k)
    OBVIOUS
  <2>4. k # 0
    BY <1>5, <2>3
  <2>5. k \in 1 .. N /\ k - 1 \in 0 .. N /\ ~(k <= k - 1)
    BY <1>1, <2>3, <2>4
  <2>6. k - 1 \notin Bad
    <3> HIDE DEF Bad
    <3> QED
      BY <2>2, <2>5
  <2>7. Sofar(k - 1)
    <3> HIDE DEF Fits
    <3> QED
      BY <2>5, <2>6
  <2> HIDE DEF Fits
  <2> QED
    BY <1>6, <2>3, <2>5, <2>7
<1>8. N \in 0 .. N
  BY <1>1
<1>9. Sofar(N)
  <2> HIDE DEF Fits
  <2> QED
    BY <1>7, <1>8
<1> QED
  BY <1>1, <1>3, <1>9 DEF InTable

(* The position that is the next or the first is there, and it is.         *)
LEMMA EarliestIsFirst ==
  ASSUME NEW S \in SUBSET Nat, S # {}
  PROVE  Earliest(S) \in S /\ \A j \in S : Earliest(S) <= j
BY LeastExists DEF Earliest

----------------------------------------------------------------------------
(* No event is an event with the marks that no event has.                  *)
LEMMA NoneIsNone ==
  /\ "none" \notin EventModes
  /\ NoEvent \in Definitions /\ NoEvent.handlers = <<>>
  /\ NoHandler \in Subscriptions /\ NoHandler.mode = "none" /\ ~NoHandler.active
  /\ NoDispatch \in Dispatches /\ NoDispatch.at = "idle" /\ NoDispatch.copy = <<>>
  /\ NoDispatch.mode = "none" /\ ~NoDispatch.unspawned /\ NoDispatch.error = 0
  /\ NoDispatch.outcome = [h \in HandlerIds |-> "uncalled"]
<1>1. "none" \notin AllModes
  BY DEF AllModes
<1>2. [h \in HandlerIds |-> "uncalled"] \in [HandlerIds -> Marks]
  BY DEF Marks
<1>3. <<>> \in Seq(HandlerIds)
  OBVIOUS
<1>4. NoDispatch \in Dispatches
  BY <1>2, <1>3 DEF NoDispatch, Dispatches
<1> QED
  BY <1>1, <1>3, <1>4, BusAssumption DEF NoEvent, NoHandler, NoDispatch, Definitions, Subscriptions

LEMMA IdleFits ==
  ASSUME NEW sub
  PROVE  CopyInv(NoDispatch, sub) /\ DispatchInv(NoDispatch)
<1>1. \A i : i \notin DOMAIN NoDispatch.copy
  BY NoneIsNone
<1>2. CopyInv(NoDispatch, sub)
  BY <1>1 DEF CopyInv, Distinct
<1>3. RunningIn(NoDispatch) = {}
  BY NoneIsNone DEF RunningIn
<1>4. ErrorIsFirst(NoDispatch)
  BY <1>1, NoneIsNone DEF ErrorIsFirst, FailedAt
<1> QED
  BY <1>1, <1>2, <1>3, <1>4, NoneIsNone DEF DispatchInv

LEMMA BusInitFits ==
  ASSUME BusInit PROVE BusIInv
<1>1. BusTypeOK
  BY NoneIsNone DEF BusInit, BusTypeOK
<1>2. TableInv
  BY NoneIsNone DEF BusInit, TableInv, Distinct
<1>3. \A t \in BusThreads : dispatch[t] = NoDispatch
  BY DEF BusInit
<1> QED
  BY <1>1, <1>2, <1>3, IdleFits DEF BusIInv

(* A registration takes a number that nobody has.                          *)
LEMMA RegisterKeeps ==
  ASSUME BusIInv, NEW n \in EventNames, NEW type \in PayloadTypes, NEW mode \in EventModes,
         Register(n, type, mode)
  PROVE  BusIInv'
<1> DEFINE new == CHOOSE x \in Fresh : \A y \in Fresh : x <= y
           old == definitions[n].handlers
           now == [type |-> type, mode |-> mode, handlers |-> Append(old, new)]
           sub == [name |-> n, type |-> type, mode |-> mode, active |-> TRUE]
<1>1. new \in Fresh
  <2>1. Fresh \in SUBSET Nat /\ Fresh # {}
    BY DEF Register, Fresh, HandlerIds
  <2> QED
    BY <2>1, LeastExists
<1>2. /\ definitions' = [definitions EXCEPT ![n] =
           [type |-> type, mode |-> mode, handlers |-> Append(@.handlers, new)]]
      /\ subscription' = [subscription EXCEPT ![new] = sub]
      /\ dispatch' = dispatch
      /\ Admits(n, type, mode)
  BY DEF Register
<1> HIDE DEF new
<1>3. new \in HandlerIds /\ subscription[new] = NoHandler
  BY <1>1 DEF Fresh
<1>4. BusTypeOK /\ TableInv
  BY DEF BusIInv
<1>5. /\ definitions[n] \in Definitions /\ old \in Seq(HandlerIds)
      /\ definitions[n].handlers = old
  BY <1>4 DEF BusTypeOK, Definitions
<1> HIDE DEF old
<1>6. definitions' = [definitions EXCEPT ![n] = now]
  BY <1>2, <1>5
<1>7. now \in Definitions /\ sub \in Subscriptions
  <2>1. Append(old, new) \in Seq(HandlerIds)
    BY <1>3, <1>5
  <2> QED
    BY <2>1 DEF Definitions, Subscriptions
<1>8. /\ definitions'[n] = now /\ \A m \in EventNames : m # n => definitions'[m] = definitions[m]
      /\ subscription'[new] = sub
      /\ \A h \in HandlerIds : h # new => subscription'[h] = subscription[h]
  BY <1>2, <1>3, <1>4, <1>6 DEF BusTypeOK
<1>9. BusTypeOK'
  BY <1>2, <1>4, <1>6, <1>7 DEF BusTypeOK
<1>10. \A m \in EventNames : \A i \in DOMAIN definitions[m].handlers :
         definitions[m].handlers[i] \in HandlerIds /\ definitions[m].handlers[i] # new
  <2> TAKE m \in EventNames
  <2> TAKE i \in DOMAIN definitions[m].handlers
  <2>1. definitions[m] \in Definitions
    BY <1>4 DEF BusTypeOK
  <2>2. definitions[m].handlers \in Seq(HandlerIds)
    BY <2>1 DEF Definitions
  <2>3. definitions[m].handlers[i] \in HandlerIds
    BY <2>2
  <2>4. subscription[definitions[m].handlers[i]].active
    BY <1>4 DEF TableInv
  <2> QED
    BY <1>3, <2>3, <2>4, NoneIsNone
<1>11. \A i \in DOMAIN old : /\ subscription[old[i]].active /\ subscription[old[i]].name = n
                             /\ subscription[old[i]].type = type
                             /\ subscription[old[i]].mode = mode
  <2>1. CASE n \in Defined
    BY <1>2, <1>4, <1>5, <2>1 DEF Admits, TableInv
  <2>2. CASE n \notin Defined
    <3>1. definitions[n] = NoEvent
      BY <2>2 DEF Defined
    <3> QED
      BY <1>5, <3>1, NoneIsNone
  <2> QED
    BY <2>1, <2>2
<1>12. /\ Append(old, new) # <<>>
       /\ \A i \in DOMAIN Append(old, new) :
            \/ i \in DOMAIN old /\ Append(old, new)[i] = old[i]
            \/ i = Len(old) + 1 /\ Append(old, new)[i] = new
       /\ \A i \in DOMAIN old : i \in DOMAIN Append(old, new) /\ Append(old, new)[i] = old[i]
       /\ Len(old) + 1 \in DOMAIN Append(old, new) /\ Append(old, new)[Len(old) + 1] = new
  BY <1>3, <1>5
<1>13. \A i \in DOMAIN old : old[i] \in HandlerIds /\ old[i] # new
  BY <1>5, <1>10
<1> HIDE DEF now, sub
<1>14. now.handlers = Append(old, new) /\ now.type = type /\ now.mode = mode
  BY DEF now
<1>15. sub.active /\ sub.name = n /\ sub.type = type /\ sub.mode = mode
  BY DEF sub
<1>16. ASSUME NEW m \in EventNames
       PROVE  /\ definitions'[m] = NoEvent \/ definitions'[m].handlers # <<>>
              /\ Distinct(definitions'[m].handlers)
              /\ \A i \in DOMAIN definitions'[m].handlers :
                   LET s == subscription'[definitions'[m].handlers[i]] IN
                   /\ s.active /\ s.name = m
                   /\ s.type = definitions'[m].type /\ s.mode = definitions'[m].mode
  <2>1. CASE m = n
    <3>1. Distinct(Append(old, new))
      <4>1. Distinct(old)
        BY <1>4, <1>5 DEF TableInv
      <4> QED
        BY <1>12, <1>13, <4>1 DEF Distinct
    <3>2. \A i \in DOMAIN Append(old, new) :
            LET s == subscription'[Append(old, new)[i]] IN
            s.active /\ s.name = n /\ s.type = type /\ s.mode = mode
      BY <1>8, <1>11, <1>12, <1>13, <1>15
    <3>3. /\ definitions'[m].handlers = Append(old, new) /\ m = n
          /\ definitions'[m].type = type /\ definitions'[m].mode = mode
      BY <1>8, <1>14, <2>1
    <3>4. definitions'[m].handlers # <<>>
      BY <1>12, <3>3
    <3>5. Distinct(definitions'[m].handlers)
      BY <3>1, <3>3
    <3> QED
      BY <3>2, <3>3, <3>4, <3>5
  <2>2. CASE m # n
    <3>1. definitions'[m] = definitions[m]
      BY <1>8, <2>2
    <3>2. \A i \in DOMAIN definitions[m].handlers :
            subscription'[definitions[m].handlers[i]] = subscription[definitions[m].handlers[i]]
      BY <1>8, <1>10
    <3> QED
      BY <1>4, <3>1, <3>2 DEF TableInv
  <2> QED
    BY <2>1, <2>2
<1>17. ASSUME NEW h \in HandlerIds
       PROVE  /\ subscription'[h] # NoHandler => subscription'[h].mode \in EventModes
              /\ subscription'[h].active =>
                   /\ subscription'[h].name \in EventNames
                   /\ InTable(definitions'[subscription'[h].name].handlers, h)
  <2>1. CASE h = new
    BY <1>8, <1>12, <1>14, <1>15, <2>1 DEF InTable
  <2>2. CASE h # new
    <3>1. subscription'[h] = subscription[h]
      BY <1>8, <2>2
    <3>2. ASSUME subscription[h].active
          PROVE  /\ subscription[h].name \in EventNames
                 /\ InTable(definitions'[subscription[h].name].handlers, h)
      <4>1. /\ subscription[h].name \in EventNames
            /\ InTable(definitions[subscription[h].name].handlers, h)
        BY <1>4, <3>2 DEF TableInv, InTable
      <4>2. CASE subscription[h].name = n
        BY <1>5, <1>8, <1>12, <1>14, <4>1, <4>2 DEF InTable
      <4>3. CASE subscription[h].name # n
        BY <1>8, <4>1, <4>3
      <4> QED
        BY <4>1, <4>2, <4>3
    <3> QED
      BY <1>4, <3>1, <3>2 DEF TableInv
  <2> QED
    BY <2>1, <2>2
<1>18. TableInv'
  BY <1>16, <1>17 DEF TableInv, InTable
<1>19. ASSUME NEW t \in BusThreads PROVE CopyInv(dispatch[t], subscription')
  <2>1. CopyInv(dispatch[t], subscription) /\ dispatch[t].copy \in Seq(HandlerIds)
    <3>1. dispatch[t] \in Dispatches
      BY <1>4 DEF BusTypeOK
    <3> QED
      BY <3>1 DEF BusIInv, Dispatches
  <2>2. \A i \in DOMAIN dispatch[t].copy :
          subscription'[dispatch[t].copy[i]] = subscription[dispatch[t].copy[i]]
    <3> TAKE i \in DOMAIN dispatch[t].copy
    <3>1. dispatch[t].copy[i] \in HandlerIds /\ subscription[dispatch[t].copy[i]] # NoHandler
      BY <2>1 DEF CopyInv
    <3> QED
      BY <1>3, <1>8, <3>1
  <2> QED
    BY <2>1, <2>2 DEF CopyInv
<1> QED
  BY <1>2, <1>9, <1>18, <1>19 DEF BusIInv

(* A handler that leaves is gone from its table, and only from there; the  *)
(* copies that still have it keep what it was registered for.              *)
LEMMA UnsubscribeKeeps ==
  ASSUME BusIInv, NEW h \in HandlerIds, Unsubscribe(h)
  PROVE  BusIInv'
<1> DEFINE n == subscription[h].name
           old == definitions[n].handlers
           rest == Retained(old, h)
           now == IF rest = <<>> THEN NoEvent ELSE [definitions[n] EXCEPT !.handlers = rest]
           sub == [subscription[h] EXCEPT !.active = FALSE]
<1>1. BusTypeOK /\ TableInv /\ subscription[h].active /\ dispatch' = dispatch
  BY DEF BusIInv, Unsubscribe
<1>2. /\ n \in EventNames /\ definitions[n] \in Definitions
      /\ subscription[h] \in Subscriptions /\ subscription[h] # NoHandler
  BY <1>1, NoneIsNone DEF TableInv, BusTypeOK
<1>3. old \in Seq(HandlerIds) /\ Distinct(old)
  BY <1>1, <1>2 DEF Definitions, TableInv
<1>4. /\ rest \in Seq(HandlerIds) /\ Distinct(rest)
      /\ \A x : InTable(rest, x) <=> InTable(old, x) /\ x # h
  <2> HIDE DEF old
  <2> QED
    BY <1>3, RetainedIsTheRest
<1>5. /\ definitions' = [definitions EXCEPT ![n] = now]
      /\ subscription' = [subscription EXCEPT ![h] = sub]
  BY <1>1, <1>2 DEF Unsubscribe, RemoveHandler, BusTypeOK
<1> HIDE DEF rest
<1>6. /\ now \in Definitions
      /\ now.handlers = rest /\ (rest # <<>> => now.type = definitions[n].type
                                              /\ now.mode = definitions[n].mode)
      /\ now = NoEvent \/ now.handlers # <<>>
  <2>1. CASE rest = <<>>
    BY <2>1, NoneIsNone
  <2>2. CASE rest # <<>>
    <3>1. now = [definitions[n] EXCEPT !.handlers = rest]
      BY <2>2
    <3>2. now \in Definitions /\ now.handlers = rest
      BY <1>2, <1>4, <3>1 DEF Definitions
    <3>3. now.type = definitions[n].type /\ now.mode = definitions[n].mode
      BY <1>2, <3>1 DEF Definitions
    <3> QED
      BY <2>2, <3>2, <3>3
  <2> QED
    BY <2>1, <2>2
<1>7. /\ sub \in Subscriptions /\ ~sub.active /\ sub.type = subscription[h].type
      /\ sub.mode = subscription[h].mode /\ sub.mode \in EventModes
  <2>1. sub \in Subscriptions /\ ~sub.active
    BY <1>2 DEF Subscriptions
  <2>2. sub.type = subscription[h].type /\ sub.mode = subscription[h].mode
    BY <1>2 DEF Subscriptions
  <2> QED
    BY <1>1, <1>2, <2>1, <2>2 DEF TableInv
<1> HIDE DEF now, sub
<1>8. /\ definitions'[n] = now /\ \A m \in EventNames : m # n => definitions'[m] = definitions[m]
      /\ subscription'[h] = sub
      /\ \A x \in HandlerIds : x # h => subscription'[x] = subscription[x]
  BY <1>1, <1>2, <1>5 DEF BusTypeOK
<1>9. BusTypeOK'
  BY <1>1, <1>5, <1>6, <1>7 DEF BusTypeOK
<1>10. sub # NoHandler
  BY <1>7, NoneIsNone
<1>11. ASSUME NEW m \in EventNames, NEW i \in DOMAIN definitions[m].handlers
       PROVE  /\ definitions[m].handlers[i] \in HandlerIds
              /\ m # n => definitions[m].handlers[i] # h
  <2>1. definitions[m] \in Definitions
    BY <1>1 DEF BusTypeOK
  <2>2. definitions[m].handlers \in Seq(HandlerIds)
    BY <2>1 DEF Definitions
  <2>3. subscription[definitions[m].handlers[i]].name = m
    BY <1>1 DEF TableInv
  <2> QED
    BY <2>2, <2>3
<1>12. ASSUME NEW m \in EventNames
       PROVE  /\ definitions'[m] = NoEvent \/ definitions'[m].handlers # <<>>
              /\ Distinct(definitions'[m].handlers)
              /\ \A i \in DOMAIN definitions'[m].handlers :
                   LET s == subscription'[definitions'[m].handlers[i]] IN
                   /\ s.active /\ s.name = m
                   /\ s.type = definitions'[m].type /\ s.mode = definitions'[m].mode
  <2>1. CASE m = n
    <3>1. ASSUME NEW i \in DOMAIN rest
          PROVE  LET s == subscription'[rest[i]] IN
                 /\ s.active /\ s.name = n
                 /\ s.type = definitions[n].type /\ s.mode = definitions[n].mode
      <4>1. InTable(rest, rest[i])
        BY DEF InTable
      <4>2. InTable(old, rest[i]) /\ rest[i] # h
        BY <1>4, <4>1
      <4>3. PICK j \in DOMAIN old : old[j] = rest[i]
        BY <4>2 DEF InTable
      <4>4. old[j] \in HandlerIds
        BY <1>3
      <4>5. subscription'[rest[i]] = subscription[old[j]]
        BY <1>8, <4>2, <4>3, <4>4
      <4> QED
        BY <1>1, <1>2, <4>5 DEF TableInv
    <3>2. \A i \in DOMAIN rest : rest # <<>>
      OBVIOUS
    <3> QED
      BY <1>4, <1>6, <1>8, <2>1, <3>1, <3>2
  <2>2. CASE m # n
    <3>1. definitions'[m] = definitions[m]
      BY <1>8, <2>2
    <3>2. \A i \in DOMAIN definitions[m].handlers :
            subscription'[definitions[m].handlers[i]] = subscription[definitions[m].handlers[i]]
      BY <1>8, <1>11, <2>2
    <3> QED
      BY <1>1, <3>1, <3>2 DEF TableInv
  <2> QED
    BY <2>1, <2>2
<1>13. ASSUME NEW x \in HandlerIds
       PROVE  /\ subscription'[x] # NoHandler => subscription'[x].mode \in EventModes
              /\ subscription'[x].active =>
                   /\ subscription'[x].name \in EventNames
                   /\ InTable(definitions'[subscription'[x].name].handlers, x)
  <2>1. CASE x = h
    BY <1>7, <1>8, <2>1
  <2>2. CASE x # h
    <3>1. subscription'[x] = subscription[x]
      BY <1>8, <2>2
    <3>2. ASSUME subscription[x].active
          PROVE  /\ subscription[x].name \in EventNames
                 /\ InTable(definitions'[subscription[x].name].handlers, x)
      <4>1. /\ subscription[x].name \in EventNames
            /\ InTable(definitions[subscription[x].name].handlers, x)
        BY <1>1, <3>2 DEF TableInv, InTable
      <4>2. CASE subscription[x].name = n
        <5>1. InTable(rest, x)
          BY <1>4, <2>2, <4>1, <4>2
        <5> QED
          BY <1>6, <1>8, <4>1, <4>2, <5>1
      <4>3. CASE subscription[x].name # n
        BY <1>8, <4>1, <4>3
      <4> QED
        BY <4>1, <4>2, <4>3
    <3> QED
      BY <1>1, <3>1, <3>2 DEF TableInv
  <2> QED
    BY <2>1, <2>2
<1>14. TableInv'
  BY <1>12, <1>13 DEF TableInv, InTable
<1>15. ASSUME NEW t \in BusThreads PROVE CopyInv(dispatch[t], subscription')
  <2>1. CopyInv(dispatch[t], subscription) /\ dispatch[t].copy \in Seq(HandlerIds)
    <3>1. dispatch[t] \in Dispatches
      BY <1>1 DEF BusTypeOK
    <3> QED
      BY <3>1 DEF BusIInv, Dispatches
  <2>2. ASSUME NEW i \in DOMAIN dispatch[t].copy
        PROVE  /\ subscription'[dispatch[t].copy[i]] # NoHandler
               /\ subscription'[dispatch[t].copy[i]].type = dispatch[t].type
               /\ subscription'[dispatch[t].copy[i]].mode = dispatch[t].mode
    <3> DEFINE x == dispatch[t].copy[i]
    <3>1. /\ x \in HandlerIds /\ subscription[x] # NoHandler
          /\ subscription[x].type = dispatch[t].type /\ subscription[x].mode = dispatch[t].mode
      BY <2>1 DEF CopyInv
    <3> HIDE DEF x
    <3>2. CASE x = h
      BY <1>7, <1>8, <1>10, <3>1, <3>2 DEF x
    <3>3. CASE x # h
      BY <1>8, <3>1, <3>3 DEF x
    <3> QED
      BY <3>2, <3>3
  <2> QED
    BY <2>1, <2>2 DEF CopyInv
<1> QED
  BY <1>1, <1>9, <1>14, <1>15 DEF BusIInv

----------------------------------------------------------------------------
(* A step of one dispatch leaves the table and the other dispatches alone. *)
LEMMA DispatchStep ==
  ASSUME BusIInv, NEW t \in BusThreads, NEW e \in Dispatches,
         CopyInv(e, subscription), DispatchInv(e), Update(t, e), BusKeeps
  PROVE  BusIInv'
<1>1. /\ definitions' = definitions /\ subscription' = subscription
      /\ dispatch' = [dispatch EXCEPT ![t] = e]
      /\ BusTypeOK /\ TableInv
  BY DEF BusIInv, Update, BusKeeps
<1>2. BusTypeOK'
  BY <1>1 DEF BusTypeOK
<1>3. TableInv'
  BY <1>1 DEF TableInv
<1>4. ASSUME NEW u \in BusThreads
      PROVE  CopyInv(dispatch'[u], subscription') /\ DispatchInv(dispatch'[u])
  <2>1. dispatch'[u] = IF u = t THEN e ELSE dispatch[u]
    BY <1>1 DEF BusTypeOK
  <2> QED
    BY <1>1, <2>1 DEF BusIInv
<1> QED
  BY <1>2, <1>3, <1>4 DEF BusIInv

(* What a dispatch in the invariant is.                                    *)
LEMMA DispatchFits ==
  ASSUME BusIInv, NEW t \in BusThreads
  PROVE  LET d == dispatch[t] IN
         /\ d \in Dispatches /\ CopyInv(d, subscription) /\ DispatchInv(d)
         /\ d.copy \in Seq(HandlerIds) /\ d.outcome \in [HandlerIds -> Marks]
         /\ Distinct(d.copy) /\ d.error \in Nat /\ d.unspawned \in BOOLEAN
         /\ d.mode \in EventModes \cup {"none"}
         /\ Uncalled(d) \in SUBSET Nat /\ FailedAt(d) \in SUBSET Nat
<1>1. dispatch[t] \in Dispatches
  BY DEF BusIInv, BusTypeOK
<1>2. dispatch[t].copy \in Seq(HandlerIds)
  BY <1>1 DEF Dispatches
<1>3. DOMAIN dispatch[t].copy \in SUBSET Nat
  BY <1>2
<1> QED
  BY <1>1, <1>2, <1>3 DEF BusIInv, CopyInv, Dispatches, Uncalled, FailedAt

LEMMA BeginKeeps ==
  ASSUME BusIInv, NEW t \in BusThreads, NEW n \in EventNames, NEW type \in PayloadTypes,
         NEW mode \in EventModes, BeginDispatch(t, n, type, mode)
  PROVE  BusIInv'
<1> DEFINE copy == definitions[n].handlers
           at == IF mode = "parallel" THEN "batch" ELSE "calling"
           e == [NoDispatch EXCEPT !.at = at, !.name = n, !.type = type, !.mode = mode,
                                   !.copy = copy]
<1>1. Update(t, e) /\ BusKeeps
  BY DEF BeginDispatch
<1>2. definitions[n] \in Definitions /\ TableInv
  BY DEF BusIInv, BusTypeOK
<1>3. copy \in Seq(HandlerIds) /\ Distinct(copy)
  BY <1>2 DEF Definitions, TableInv
<1>4. ASSUME NEW i \in DOMAIN copy
      PROVE  subscription[copy[i]] # NoHandler /\ subscription[copy[i]].type = type
             /\ subscription[copy[i]].mode = mode
  <2>1. n \in Defined
    <3>1. definitions[n] # NoEvent
      BY NoneIsNone
    <3> QED
      BY <3>1 DEF Defined
  <2>2. definitions[n].type = type /\ definitions[n].mode = mode
    BY <2>1 DEF BeginDispatch
  <2>3. subscription[copy[i]].active
    BY <1>2 DEF TableInv
  <2> QED
    BY <1>2, <2>2, <2>3, NoneIsNone DEF TableInv
<1> HIDE DEF copy, at
<1>5. at \in {"batch", "calling"} /\ (at = "batch" <=> mode = "parallel")
  BY DEF at
<1>6. /\ e \in Dispatches
      /\ e.at = at /\ e.type = type /\ e.mode = mode /\ e.copy = copy /\ ~e.unspawned
      /\ e.error = 0 /\ e.outcome = [h \in HandlerIds |-> "uncalled"]
  <2>1. e \in Dispatches
    BY <1>3, <1>5, NoneIsNone DEF Dispatches
  <2> QED
    BY <2>1, NoneIsNone DEF Dispatches
<1> HIDE DEF e
<1>7. \A i \in DOMAIN e.copy : Out(e, i) = "uncalled"
  BY <1>3, <1>6 DEF Out
<1>8. CopyInv(e, subscription)
  BY <1>3, <1>4, <1>6 DEF CopyInv
<1>9. RunningIn(e) = {} /\ ErrorIsFirst(e) /\ GoesOn(e)
  <2>1. RunningIn(e) = {}
    BY <1>6 DEF RunningIn
  <2> QED
    BY <1>6, <1>7, <2>1 DEF ErrorIsFirst, FailedAt, GoesOn, Stops
<1>10. DispatchInv(e)
  BY <1>5, <1>6, <1>7, <1>9 DEF DispatchInv
<1> QED
  BY <1>1, <1>6, <1>8, <1>10, DispatchStep

(* One handler of a copy is marked: the others keep their marks.           *)
LEMMA MarkOne ==
  ASSUME NEW d \in Dispatches, NEW e, NEW h \in HandlerIds, NEW a \in Marks,
         e.copy = d.copy, e.outcome = [d.outcome EXCEPT ![h] = a]
  PROVE  /\ \A i \in DOMAIN d.copy : Out(e, i) = IF d.copy[i] = h THEN a ELSE Out(d, i)
         /\ RunningIn(e) = (RunningIn(d) \ {h}) \cup (IF a = "running" THEN {h} ELSE {})
<1>1. d.outcome \in [HandlerIds -> Marks]
  BY DEF Dispatches
<1>2. d.copy \in Seq(HandlerIds)
  BY DEF Dispatches
<1>3. \A i \in DOMAIN d.copy : d.copy[i] \in HandlerIds
  BY <1>2
<1>4. \A x \in HandlerIds : e.outcome[x] = IF x = h THEN a ELSE d.outcome[x]
  BY <1>1
<1> QED
  BY <1>3, <1>4 DEF Out, RunningIn

(* The next handler is the first that was not reached, and all before it   *)
(* were.                                                                   *)
LEMMA NextIsNext ==
  ASSUME BusIInv, NEW t \in BusThreads, Uncalled(dispatch[t]) # {},
         dispatch[t].at \in {"calling", "batch"}
  PROVE  LET d == dispatch[t] IN
         \E k \in DOMAIN d.copy :
           /\ NextHandler(d) = d.copy[k] /\ d.copy[k] \in HandlerIds
           /\ Out(d, k) = "uncalled"
           /\ \A i \in DOMAIN d.copy : d.copy[i] = d.copy[k] => i = k
           /\ \A i \in DOMAIN d.copy : (i < k => Out(d, i) # "uncalled")
                                       /\ (k < i => Out(d, i) = "uncalled")
<1> DEFINE d == dispatch[t]
           k == Earliest(Uncalled(d))
<1>1. /\ d.copy \in Seq(HandlerIds) /\ Distinct(d.copy) /\ DispatchInv(d)
      /\ Uncalled(d) \in SUBSET Nat
  BY DispatchFits
<1> HIDE DEF d
<1>2. k \in Uncalled(d) /\ \A j \in Uncalled(d) : k <= j
  <2>1. Uncalled(d) # {}
    BY DEF d
  <2> QED
    BY <1>1, <2>1, EarliestIsFirst
<1>3. NextHandler(d) = d.copy[k]
  BY DEF NextHandler
<1> HIDE DEF k
<1>4. k \in DOMAIN d.copy /\ Out(d, k) = "uncalled" /\ d.copy[k] \in HandlerIds
  BY <1>1, <1>2 DEF Uncalled, Out
<1>5. \A i \in DOMAIN d.copy : d.copy[i] = d.copy[k] => i = k
  BY <1>1, <1>4 DEF Distinct
<1>6. \A i \in DOMAIN d.copy : i < k => Out(d, i) # "uncalled"
  <2>1. \A i \in DOMAIN d.copy : i \in Nat /\ k \in Nat
    BY <1>1, <1>4
  <2>2. \A i \in DOMAIN d.copy : Out(d, i) = "uncalled" => k <= i
    BY <1>2 DEF Uncalled, Out
  <2> QED
    BY <2>1, <2>2
<1>7. \A i \in DOMAIN d.copy : k < i => Out(d, i) = "uncalled"
  <2>1. GoesOn(d)
    BY <1>1 DEF DispatchInv, d
  <2> QED
    BY <1>4, <2>1 DEF GoesOn
<1> QED
  BY <1>3, <1>4, <1>5, <1>6, <1>7 DEF d

LEMMA SpawnKeeps ==
  ASSUME BusIInv, NEW t \in BusThreads, SpawnNext(t)
  PROVE  BusIInv'
<1> DEFINE d == dispatch[t]
           h == NextHandler(d)
           e == [d EXCEPT !.outcome[h] = "running"]
<1>1. Update(t, e) /\ BusKeeps /\ d.at = "batch" /\ Uncalled(d) # {}
  BY DEF SpawnNext
<1>2. /\ d \in Dispatches /\ CopyInv(d, subscription) /\ DispatchInv(d)
      /\ d.copy \in Seq(HandlerIds) /\ d.outcome \in [HandlerIds -> Marks]
  BY DispatchFits
<1>3. PICK k \in DOMAIN d.copy :
           /\ h = d.copy[k] /\ d.copy[k] \in HandlerIds
           /\ Out(d, k) = "uncalled"
           /\ \A i \in DOMAIN d.copy : d.copy[i] = d.copy[k] => i = k
           /\ \A i \in DOMAIN d.copy : (i < k => Out(d, i) # "uncalled")
                                       /\ (k < i => Out(d, i) = "uncalled")
  BY <1>1, NextIsNext
<1> HIDE DEF d, h
<1> DEFINE outcome == [d.outcome EXCEPT ![h] = "running"]
<1>4. "running" \in Marks /\ outcome \in [HandlerIds -> Marks]
  BY <1>2, <1>3 DEF Marks
<1>5. e = [d EXCEPT !.outcome = outcome]
  BY <1>2 DEF Dispatches
<1> HIDE DEF e, outcome
<1>6. e \in Dispatches
  BY <1>2, <1>4, <1>5 DEF Dispatches
<1>7. /\ e.at = d.at /\ e.type = d.type /\ e.mode = d.mode /\ e.copy = d.copy
      /\ e.outcome = outcome /\ e.error = d.error /\ e.unspawned = d.unspawned
  BY <1>2, <1>5 DEF Dispatches
<1>8. \A i \in DOMAIN d.copy : Out(e, i) = IF i = k THEN "running" ELSE Out(d, i)
  <2>1. \A i \in DOMAIN d.copy : Out(e, i) = IF d.copy[i] = h THEN "running" ELSE Out(d, i)
    BY <1>2, <1>3, <1>4, <1>7, MarkOne DEF outcome
  <2> QED
    BY <1>3, <2>1
<1>9. CopyInv(e, subscription)
  BY <1>2, <1>7 DEF CopyInv
<1>10. d.mode = "parallel" /\ GoesOn(d)
  BY <1>1, <1>2 DEF DispatchInv, d
<1>11. GoesOn(e)
  <2>1. ASSUME NEW i \in DOMAIN d.copy, NEW j \in DOMAIN d.copy, i < j, Out(e, i) = "uncalled"
        PROVE  Out(e, j) = "uncalled"
    <3>1. i # k /\ Out(d, i) = "uncalled"
      BY <1>8, <2>1
    <3>2. i \in Nat /\ j \in Nat /\ k \in Nat
      BY <1>2
    <3>3. ~(i < k)
      BY <1>3, <3>1
    <3>4. j # k
      BY <2>1, <3>1, <3>2, <3>3
    <3> QED
      BY <1>8, <1>10, <2>1, <3>1, <3>4 DEF GoesOn
  <2>2. \A i \in DOMAIN d.copy : ~Stops(d.mode, Out(e, i))
    BY <1>8, <1>10 DEF GoesOn, Stops
  <2> QED
    BY <1>7, <2>1, <2>2 DEF GoesOn
<1>12. FailedAt(e) = FailedAt(d)
  BY <1>3, <1>7, <1>8 DEF FailedAt
<1>13. DispatchInv(e)
  <2>1. e.at = "batch"
    BY <1>1, <1>7 DEF d
  <2>2. e.unspawned \/ ErrorIsFirst(e)
    BY <1>2, <1>7, <1>12 DEF DispatchInv, ErrorIsFirst
  <2>3. \A i \in DOMAIN e.copy : Out(e, i) \in {"uncalled", "running"} \cup Answers(e.mode)
    BY <1>2, <1>7, <1>8 DEF DispatchInv
  <2> QED
    BY <1>7, <1>10, <1>11, <2>1, <2>2, <2>3 DEF DispatchInv
<1> QED
  <2>1. Update(t, e)
    BY <1>1 DEF e, d, h
  <2> QED
    BY <1>1, <1>6, <1>9, <1>13, <2>1, DispatchStep

(* Whenever a worker is joined, the error is that of the first to fail.    *)
LEMMA WorkerKeeps ==
  ASSUME BusIInv, NEW t \in BusThreads, NEW answer \in {"ok", "failed", "handled"},
         WorkerReturns(t, answer)
  PROVE  BusIInv'
<1> DEFINE d == dispatch[t]
<1>1. PICK h \in RunningIn(d) :
        /\ answer \in Answers(d.mode)
        /\ Update(t, [d EXCEPT !.outcome[h] = answer, !.error = FirstJoined(d, h, answer)])
        /\ BusKeeps
  BY DEF WorkerReturns
<1> DEFINE error == FirstJoined(d, h, answer)
           e == [d EXCEPT !.outcome[h] = answer, !.error = error]
           outcome == [d.outcome EXCEPT ![h] = answer]
<1>2. /\ d \in Dispatches /\ CopyInv(d, subscription) /\ DispatchInv(d)
      /\ d.copy \in Seq(HandlerIds) /\ d.outcome \in [HandlerIds -> Marks]
  BY DispatchFits
<1>3. Update(t, e) /\ BusKeeps
  BY <1>1
<1> HIDE DEF d, error
<1>4. h \in HandlerIds /\ d.outcome[h] = "running"
  BY <1>1 DEF RunningIn
<1>5. d.at = "batch" /\ d.mode = "parallel" /\ GoesOn(d)
  BY <1>1, <1>2 DEF DispatchInv
<1>6. answer \in {"ok", "failed"} /\ answer \in Marks
  BY <1>1, <1>5 DEF Answers, Marks
<1>7. outcome \in [HandlerIds -> Marks]
  BY <1>2, <1>6
<1>8. e = [d EXCEPT !.outcome = outcome, !.error = error]
  BY <1>2 DEF Dispatches
<1> HIDE DEF e, outcome
<1>9. /\ e.at = d.at /\ e.type = d.type /\ e.mode = d.mode /\ e.copy = d.copy
      /\ e.outcome = outcome /\ e.error = error /\ e.unspawned = d.unspawned
  BY <1>2, <1>8 DEF Dispatches
<1>10. \A i \in DOMAIN d.copy : Out(e, i) = IF d.copy[i] = h THEN answer ELSE Out(d, i)
  BY <1>2, <1>4, <1>6, <1>9, MarkOne DEF outcome
<1>11. \A i \in DOMAIN d.copy : d.copy[i] = h => Out(d, i) = "running"
  BY <1>4 DEF Out
<1>12. ErrorIsFirst(e) /\ error \in Nat
  <2> DEFINE S == {i \in DOMAIN d.copy : \/ d.copy[i] = h /\ answer = "failed"
                                         \/ d.outcome[d.copy[i]] = "failed"}
  <2>1. S = FailedAt(e)
    BY <1>9, <1>10, <1>11 DEF FailedAt, Out
  <2>2. error = IF S = {} THEN 0 ELSE d.copy[Earliest(S)]
    BY DEF error, FirstJoined
  <2>3. S \in SUBSET Nat /\ \A i \in S : d.copy[i] \in Nat
    <3>1. \A i \in DOMAIN d.copy : i \in Nat /\ d.copy[i] \in HandlerIds
      BY <1>2
    <3>2. \A x \in HandlerIds : x \in Nat
      BY DEF HandlerIds
    <3> QED
      BY <3>1, <3>2
  <2> HIDE DEF S
  <2>4. CASE S = {}
    BY <1>9, <2>1, <2>2, <2>4 DEF ErrorIsFirst
  <2>5. CASE S # {}
    <3>1. Earliest(S) \in S /\ \A j \in S : Earliest(S) <= j
      BY <2>3, <2>5, EarliestIsFirst
    <3>2. error = d.copy[Earliest(S)]
      BY <2>2, <2>5
    <3> QED
      BY <1>9, <2>1, <2>3, <3>1, <3>2 DEF ErrorIsFirst
  <2> QED
    BY <2>4, <2>5
<1>13. e \in Dispatches
  BY <1>2, <1>7, <1>8, <1>12 DEF Dispatches
<1>14. CopyInv(e, subscription)
  BY <1>2, <1>9 DEF CopyInv
<1>15. GoesOn(e)
  <2>1. \A i \in DOMAIN d.copy : Out(e, i) = "uncalled" <=> Out(d, i) = "uncalled"
    BY <1>6, <1>10, <1>11
  <2>2. \A i \in DOMAIN d.copy : ~Stops(d.mode, Out(e, i))
    BY <1>5, <1>6, <1>10 DEF GoesOn, Stops
  <2> QED
    BY <1>5, <1>9, <2>1, <2>2 DEF GoesOn
<1>16. DispatchInv(e)
  <2>1. \A i \in DOMAIN e.copy : Out(e, i) \in {"uncalled", "running"} \cup Answers(e.mode)
    BY <1>1, <1>2, <1>9, <1>10 DEF DispatchInv
  <2> QED
    BY <1>5, <1>9, <1>12, <1>15, <2>1 DEF DispatchInv
<1> QED
  <2>1. Update(t, e)
    BY <1>3 DEF e, d, error
  <2> QED
    BY <1>3, <1>13, <1>14, <1>16, <2>1, DispatchStep

(* Handlers that are called one after the other: the first failure is the  *)
(* error, and a call that stops is the last.                               *)
LEMMA CallKeeps ==
  ASSUME BusIInv, NEW t \in BusThreads, NEW answer \in {"ok", "failed", "handled"},
         CallNext(t, answer)
  PROVE  BusIInv'
<1> DEFINE d == dispatch[t]
           h == NextHandler(d)
           error == IF answer = "failed" /\ d.error = 0 THEN h ELSE d.error
           at == IF Stops(d.mode, answer) THEN "returned" ELSE d.at
           e == [d EXCEPT !.outcome[h] = answer,
                          !.error = IF answer = "failed" /\ @ = 0 THEN h ELSE @,
                          !.at = IF Stops(d.mode, answer) THEN "returned" ELSE @]
           outcome == [d.outcome EXCEPT ![h] = answer]
<1>1. /\ Update(t, e) /\ BusKeeps /\ d.at = "calling" /\ Uncalled(d) # {}
      /\ answer \in Answers(d.mode)
  BY DEF CallNext
<1>2. /\ d \in Dispatches /\ CopyInv(d, subscription) /\ DispatchInv(d)
      /\ d.copy \in Seq(HandlerIds) /\ d.outcome \in [HandlerIds -> Marks]
      /\ d.error \in Nat
  BY DispatchFits
<1>3. PICK k \in DOMAIN d.copy :
           /\ h = d.copy[k] /\ d.copy[k] \in HandlerIds
           /\ Out(d, k) = "uncalled"
           /\ \A i \in DOMAIN d.copy : d.copy[i] = d.copy[k] => i = k
           /\ \A i \in DOMAIN d.copy : (i < k => Out(d, i) # "uncalled")
                                       /\ (k < i => Out(d, i) = "uncalled")
  BY <1>1, NextIsNext
<1> HIDE DEF d, h
<1>4. answer \in Marks /\ outcome \in [HandlerIds -> Marks]
  BY <1>2, <1>3 DEF Marks
<1>5. e = [d EXCEPT !.outcome = outcome, !.error = error, !.at = at]
  BY <1>2 DEF Dispatches
<1>6. h \in Nat \ {0}
  BY <1>3 DEF HandlerIds
<1>7. error \in Nat /\ at \in {"calling", "returned"} /\ (at = "returned" <=> Stops(d.mode, answer))
  BY <1>1, <1>2, <1>6
<1> HIDE DEF e, outcome, at
<1>8. e \in Dispatches
  BY <1>2, <1>4, <1>5, <1>7 DEF Dispatches
<1>9. /\ e.at = at /\ e.type = d.type /\ e.mode = d.mode /\ e.copy = d.copy
      /\ e.outcome = outcome /\ e.error = error /\ e.unspawned = d.unspawned
  BY <1>2, <1>5 DEF Dispatches
<1>10. \A i \in DOMAIN d.copy : Out(e, i) = IF i = k THEN answer ELSE Out(d, i)
  <2>1. \A i \in DOMAIN d.copy : Out(e, i) = IF d.copy[i] = h THEN answer ELSE Out(d, i)
    BY <1>2, <1>3, <1>4, <1>9, MarkOne DEF outcome
  <2> QED
    BY <1>3, <2>1
<1>11. CopyInv(e, subscription)
  BY <1>2, <1>9 DEF CopyInv
<1>12. d.mode # "parallel" /\ GoesOn(d) /\ RunningIn(d) = {}
  BY <1>1, <1>2 DEF DispatchInv, d
<1>13. RunningIn(e) = {}
  <2>1. answer # "running"
    OBVIOUS
  <2>2. h \in HandlerIds
    BY <1>3
  <2> QED
    BY <1>2, <1>4, <1>9, <1>12, <2>1, <2>2, MarkOne DEF outcome
<1>14. \A i \in DOMAIN d.copy : i \in Nat /\ k \in Nat
  BY <1>2
<1>15. \A i, j \in DOMAIN d.copy : i < j /\ Out(e, i) = "uncalled" => Out(e, j) = "uncalled"
  <2>1. ASSUME NEW i \in DOMAIN d.copy, NEW j \in DOMAIN d.copy, i < j, Out(e, i) = "uncalled"
        PROVE  Out(e, j) = "uncalled"
    <3>1. i # k /\ Out(d, i) = "uncalled"
      BY <1>10, <2>1
    <3>2. ~(i < k)
      BY <1>3, <3>1
    <3>3. j # k
      BY <1>14, <2>1, <3>1, <3>2
    <3> QED
      BY <1>10, <1>12, <2>1, <3>1, <3>3 DEF GoesOn
  <2> QED
    BY <2>1
<1>16. \A i \in DOMAIN d.copy : Stops(d.mode, Out(e, i)) => i = k /\ at = "returned"
  BY <1>7, <1>10, <1>12 DEF GoesOn
<1>17. \A i, j \in DOMAIN d.copy : Stops(d.mode, Out(e, i)) /\ i < j => Out(e, j) = "uncalled"
  <2>1. ASSUME NEW j \in DOMAIN d.copy, k < j PROVE Out(e, j) = "uncalled"
    <3>1. j # k
      BY <1>14, <2>1
    <3> QED
      BY <1>3, <1>10, <2>1, <3>1
  <2> QED
    BY <1>16, <2>1
<1>18. at = "returned" => d.mode \notin {"emit", "parallel"}
  BY <1>1, <1>7, <1>12 DEF Stops, Answers
<1>19. e.unspawned \/ ErrorIsFirst(e)
  <2>1. SUFFICES ASSUME ~e.unspawned PROVE ErrorIsFirst(e)
    OBVIOUS
  <2>2. ErrorIsFirst(d)
    BY <1>2, <1>9, <2>1 DEF DispatchInv
  <2>3. FailedAt(e) = FailedAt(d) \cup (IF answer = "failed" THEN {k} ELSE {})
    BY <1>3, <1>9, <1>10 DEF FailedAt
  <2>4. \A i \in FailedAt(d) : i \in DOMAIN d.copy /\ i <= k /\ d.copy[i] # 0
    <3>1. ASSUME NEW i \in FailedAt(d) PROVE i \in DOMAIN d.copy /\ i <= k /\ d.copy[i] # 0
      <4>1. i \in DOMAIN d.copy /\ ~(k < i)
        BY <1>3 DEF FailedAt
      <4>2. d.copy[i] \in HandlerIds
        BY <1>2, <4>1
      <4> QED
        BY <1>14, <4>1, <4>2 DEF HandlerIds
    <3> QED
      BY <3>1
  <2>5. CASE answer = "failed" /\ FailedAt(d) = {}
    <3>1. d.error = 0
      BY <2>2, <2>5 DEF ErrorIsFirst
    <3>2. error = d.copy[k] /\ FailedAt(e) = {k}
      BY <1>3, <2>3, <2>5, <3>1 DEF error
    <3> QED
      BY <1>9, <1>14, <3>2 DEF ErrorIsFirst
  <2>6. CASE FailedAt(d) # {}
    <3>1. PICK i \in FailedAt(d) : d.error = d.copy[i] /\ \A j \in FailedAt(d) : i <= j
      BY <2>2, <2>6 DEF ErrorIsFirst
    <3>2. error = d.copy[i]
      BY <2>4, <3>1 DEF error
    <3>3. i \in FailedAt(e) /\ \A j \in FailedAt(e) : i <= j
      BY <2>3, <2>4, <3>1
    <3> QED
      BY <1>9, <3>2, <3>3 DEF ErrorIsFirst
  <2>7. CASE answer # "failed" /\ FailedAt(d) = {}
    BY <1>9, <2>2, <2>3, <2>7 DEF ErrorIsFirst, error
  <2> QED
    BY <2>5, <2>6, <2>7
<1> HIDE DEF error
<1>20. DispatchInv(e)
  <2>1. \A i \in DOMAIN e.copy : Out(e, i) \in {"uncalled", "running"} \cup Answers(e.mode)
    BY <1>1, <1>2, <1>9, <1>10 DEF DispatchInv
  <2>2. e.at \in {"calling", "batch"} => GoesOn(e)
    BY <1>7, <1>9, <1>15, <1>16 DEF GoesOn
  <2>3. e.at = "returned" => Ended(e)
    BY <1>9, <1>17, <1>18 DEF Ended
  <2> QED
    BY <1>7, <1>9, <1>12, <1>13, <1>19, <2>1, <2>2, <2>3 DEF DispatchInv
<1> QED
  <2>1. Update(t, e)
    BY <1>1 DEF e, d, h
  <2> QED
    BY <1>1, <1>8, <1>11, <1>20, <2>1, DispatchStep

(* A dispatch that has come to its end, or cannot go on.                   *)
LEMMA EndKeeps ==
  ASSUME BusIInv, NEW t \in BusThreads, AllCalled(t) \/ SpawnFails(t)
  PROVE  BusIInv'
<1> DEFINE d == dispatch[t]
<1>1. PICK fails \in BOOLEAN :
        /\ Update(t, IF fails THEN [d EXCEPT !.at = "returned", !.error = 0, !.unspawned = TRUE]
                              ELSE [d EXCEPT !.at = "returned"])
        /\ BusKeeps /\ RunningIn(d) = {} /\ d.at \in {"calling", "batch"}
        /\ fails => d.at = "batch"
        /\ ~fails => Uncalled(d) = {}
  <2>1. CASE AllCalled(t)
    <3>1. /\ Update(t, [d EXCEPT !.at = "returned"])
          /\ BusKeeps /\ RunningIn(d) = {} /\ d.at \in {"calling", "batch"}
          /\ Uncalled(d) = {}
      BY <2>1 DEF AllCalled
    <3> QED
      BY <3>1
  <2>2. CASE SpawnFails(t)
    <3>1. /\ Update(t, [d EXCEPT !.at = "returned", !.error = 0, !.unspawned = TRUE])
          /\ BusKeeps /\ RunningIn(d) = {} /\ d.at = "batch"
      BY <2>2 DEF SpawnFails
    <3> QED
      BY <3>1
  <2> QED
    BY <2>1, <2>2
<1> DEFINE e == IF fails THEN [d EXCEPT !.at = "returned", !.error = 0, !.unspawned = TRUE]
                         ELSE [d EXCEPT !.at = "returned"]
<1>2. /\ d \in Dispatches /\ CopyInv(d, subscription) /\ DispatchInv(d)
      /\ d.copy \in Seq(HandlerIds)
  BY DispatchFits
<1>3. Update(t, e)
  BY <1>1
<1> HIDE DEF d
<1>4. /\ e \in Dispatches /\ e.at = "returned" /\ e.type = d.type /\ e.mode = d.mode
      /\ e.copy = d.copy /\ e.outcome = d.outcome
      /\ (fails => e.unspawned) /\ (~fails => e.error = d.error /\ e.unspawned = d.unspawned)
  <2>1. CASE fails
    BY <1>2, <2>1 DEF Dispatches
  <2>2. CASE ~fails
    BY <1>2, <2>2 DEF Dispatches
  <2> QED
    BY <2>1, <2>2
<1> HIDE DEF e
<1>5. CopyInv(e, subscription)
  BY <1>2, <1>4 DEF CopyInv
<1>6. GoesOn(d) /\ \A i : Out(e, i) = Out(d, i)
  BY <1>1, <1>2, <1>4 DEF DispatchInv, Out
<1>7. RunningIn(e) = {} /\ FailedAt(e) = FailedAt(d)
  BY <1>1, <1>4, <1>6 DEF RunningIn, FailedAt
<1>8. e.unspawned \/ ErrorIsFirst(e)
  BY <1>2, <1>4, <1>7 DEF DispatchInv, ErrorIsFirst
<1>9. Ended(e)
  <2>1. ASSUME ~e.unspawned, e.mode \in {"emit", "parallel"}, NEW i \in DOMAIN d.copy
        PROVE  Out(e, i) \in {"ok", "failed"}
    <3>1. Out(d, i) # "uncalled"
      BY <1>1, <1>4, <2>1 DEF Uncalled, Out
    <3>2. Out(d, i) # "running"
      <4>1. d.copy[i] \in HandlerIds
        BY <1>2
      <4> QED
        BY <1>1, <4>1 DEF RunningIn, Out
    <3>3. Out(d, i) \in {"uncalled", "running", "ok", "failed"}
      BY <1>2, <1>4, <2>1 DEF DispatchInv, Answers
    <3> QED
      BY <1>6, <3>1, <3>2, <3>3
  <2>2. \A i \in DOMAIN d.copy : ~Stops(e.mode, Out(e, i))
    BY <1>4, <1>6 DEF GoesOn
  <2> QED
    BY <1>4, <2>1, <2>2 DEF Ended
<1>10. DispatchInv(e)
  <2>1. \A i \in DOMAIN e.copy : Out(e, i) \in {"uncalled", "running"} \cup Answers(e.mode)
    BY <1>2, <1>4, <1>6 DEF DispatchInv
  <2> QED
    BY <1>4, <1>7, <1>8, <1>9, <2>1 DEF DispatchInv
<1> QED
  BY <1>1, <1>3, <1>4, <1>5, <1>10, DispatchStep

LEMMA ReturnKeeps ==
  ASSUME BusIInv, NEW t \in BusThreads, DispatchReturns(t)
  PROVE  BusIInv'
<1>1. Update(t, NoDispatch) /\ BusKeeps
  BY DEF DispatchReturns
<1>2. NoDispatch \in Dispatches /\ CopyInv(NoDispatch, subscription) /\ DispatchInv(NoDispatch)
  BY NoneIsNone, IdleFits
<1> QED
  BY <1>1, <1>2, DispatchStep

LEMMA BusNextKeeps ==
  ASSUME BusIInv, [BusNext]_busVars PROVE BusIInv'
<1>1. CASE UNCHANGED busVars
  BY <1>1 DEF busVars, BusIInv, BusTypeOK, TableInv
<1>2. CASE \E n \in EventNames, type \in PayloadTypes, mode \in EventModes :
             \/ Register(n, type, mode)
             \/ \E t \in BusThreads : BeginDispatch(t, n, type, mode)
  BY <1>2, RegisterKeeps, BeginKeeps
<1>3. CASE \E h \in HandlerIds : Unsubscribe(h)
  BY <1>3, UnsubscribeKeeps
<1>4. CASE \E t \in BusThreads, answer \in {"ok", "failed", "handled"} :
             CallNext(t, answer) \/ WorkerReturns(t, answer)
  BY <1>4, CallKeeps, WorkerKeeps
<1>5. CASE \E t \in BusThreads :
             SpawnNext(t) \/ SpawnFails(t) \/ AllCalled(t) \/ DispatchReturns(t)
  BY <1>5, SpawnKeeps, EndKeeps, ReturnKeeps
<1> QED
  BY <1>1, <1>2, <1>3, <1>4, <1>5 DEF BusNext

LEMMA BusIsInvariant == BusInit /\ [][BusNext]_busVars => []BusIInv
<1>1. BusInit => BusIInv
  BY BusInitFits
<1>2. BusIInv /\ [BusNext]_busVars => BusIInv'
  BY BusNextKeeps
<1> QED
  BY <1>1, <1>2, PTL

(* The handlers of a copy were registered for the dispatch's payload and   *)
(* mode: the downcast of event.rs never fails, however the event was       *)
(* dropped and defined anew while it ran.                                  *)
THEOREM PayloadsAlwaysMatch == BusInit /\ [][BusNext]_busVars => []PayloadsMatch
<1>1. BusIInv => PayloadsMatch
  BY DEF BusIInv, CopyInv, PayloadsMatch
<1> QED
  BY <1>1, BusIsInvariant, PTL

LEMMA LiveOnesAreHeard ==
  ASSUME BusIInv PROVE LiveSubscriptionsHeard
<1>1. SUFFICES ASSUME NEW h \in HandlerIds, NEW n \in EventNames
               PROVE  Cardinality({i \in DOMAIN definitions[n].handlers :
                                     definitions[n].handlers[i] = h})
                        = IF subscription[h].active /\ subscription[h].name = n THEN 1 ELSE 0
  BY DEF LiveSubscriptionsHeard
<1> DEFINE S == {i \in DOMAIN definitions[n].handlers : definitions[n].handlers[i] = h}
<1>2. TableInv
  BY DEF BusIInv
<1>3. CASE subscription[h].active /\ subscription[h].name = n
  <2>1. PICK i \in DOMAIN definitions[n].handlers : definitions[n].handlers[i] = h
    BY <1>2, <1>3 DEF TableInv
  <2>2. S = {i}
    BY <1>2, <2>1 DEF TableInv, Distinct
  <2> HIDE DEF S
  <2>3. Cardinality(S) = 1
    BY <2>2, FS_Singleton
  <2> QED
    BY <1>3, <2>3 DEF S
<1>4. CASE ~(subscription[h].active /\ subscription[h].name = n)
  <2>1. S = {}
    BY <1>2, <1>4 DEF TableInv
  <2> HIDE DEF S
  <2>2. Cardinality(S) = 0
    BY <2>1, FS_EmptySet
  <2> QED
    BY <1>4, <2>2 DEF S
<1> QED
  BY <1>3, <1>4

LEMMA ContractIsKept ==
  ASSUME BusIInv PROVE DispatchContract
<1> SUFFICES ASSUME NEW t \in BusThreads, dispatch[t].at = "returned"
             PROVE  LET d == dispatch[t]
                        out(i) == d.outcome[d.copy[i]]
                        last == {i \in DOMAIN d.copy : Stops(d.mode, out(i))}
                    IN /\ d.mode \in {"emit", "parallel"} /\ ~d.unspawned =>
                            \A i \in DOMAIN d.copy : out(i) \in {"ok", "failed"}
                       /\ \A i \in last, j \in DOMAIN d.copy : i < j => out(j) = "uncalled"
                       /\ ~d.unspawned =>
                            /\ d.error # 0 <=> \E i \in DOMAIN d.copy : out(i) = "failed"
                            /\ \A i \in DOMAIN d.copy : d.copy[i] = d.error =>
                                 \A j \in 1 .. i - 1 : out(j) # "failed"
  BY DEF DispatchContract
<1> DEFINE d == dispatch[t]
           last == {i \in DOMAIN d.copy : Stops(d.mode, Out(d, i))}
<1>1. /\ d.copy \in Seq(HandlerIds) /\ Distinct(d.copy) /\ DispatchInv(d)
      /\ d.at = "returned"
  BY DispatchFits
<1>2. /\ \A i \in DOMAIN d.copy : d.copy[i] # 0
      /\ DOMAIN d.copy = 1 .. Len(d.copy) /\ Len(d.copy) \in Nat
  <2>1. \A i \in DOMAIN d.copy : d.copy[i] \in HandlerIds
    BY <1>1
  <2>2. \A x \in HandlerIds : x # 0
    BY DEF HandlerIds
  <2> QED
    BY <1>1, <2>1, <2>2
<1> HIDE DEF d
<1>3. Ended(d) /\ (d.unspawned \/ ErrorIsFirst(d))
  BY <1>1 DEF DispatchInv
<1>4. d.mode \in {"emit", "parallel"} /\ ~d.unspawned =>
        \A i \in DOMAIN d.copy : Out(d, i) \in {"ok", "failed"}
  BY <1>3 DEF Ended
<1>5. \A i \in last, j \in DOMAIN d.copy : i < j => Out(d, j) = "uncalled"
  BY <1>3 DEF Ended
<1>6. ASSUME ~d.unspawned PROVE d.error # 0 <=> \E i \in DOMAIN d.copy : Out(d, i) = "failed"
  BY <1>2, <1>3, <1>6 DEF ErrorIsFirst, FailedAt
<1>7. ASSUME ~d.unspawned, NEW i \in DOMAIN d.copy, d.copy[i] = d.error, NEW j \in 1 .. i - 1
      PROVE  Out(d, j) # "failed"
  <2>1. j \in DOMAIN d.copy /\ i \in Nat /\ j \in Nat /\ ~(i <= j)
    BY <1>2
  <2>2. PICK k \in FailedAt(d) : d.error = d.copy[k] /\ \A m \in FailedAt(d) : k <= m
    BY <1>2, <1>3, <1>7 DEF ErrorIsFirst
  <2>3. k = i
    BY <1>1, <1>7, <2>2 DEF Distinct, FailedAt
  <2>4. j \notin FailedAt(d)
    BY <2>1, <2>2, <2>3
  <2> QED
    BY <2>1, <2>4 DEF FailedAt
<1> QED
  BY <1>4, <1>5, <1>6, <1>7 DEF Out, d

(* Live subscriptions are in the table once, ended ones are not, and what  *)
(* a dispatch answers is the first failure in registration order, after it *)
(* has called whom its mode has it call.                                   *)
THEOREM DispatchesStaySound == BusInit /\ [][BusNext]_busVars => []DispatchesAreSound
<1>1. BusIInv => DispatchesAreSound
  BY LiveOnesAreHeard, ContractIsKept DEF DispatchesAreSound
<1> QED
  BY <1>1, BusIsInvariant, PTL
----------------------------------------------------------------------------
(***************************************************************************)
(* The runtime: its records, and a start that no order can change.         *)
(***************************************************************************)
Lifecycles == {"Pending", "Disabled", "Mounted", "Failed"}
Records == [enabled : BOOLEAN, lifecycle : Lifecycles, fiber : BOOLEAN,
            fiberState : {"none", "Mounted", "Failed", "Unmounted"},
            failure : {"none", "Factory", "Identity", "Mount", "Unmount"}]

(* A record says of itself what RecordsAgree says of what is shown.        *)
Agrees(r) ==
  /\ r \in Records
  /\ (r.lifecycle = "Mounted") <=> r.fiber
  /\ (r.lifecycle = "Disabled") <=> ~r.enabled
  /\ r.fiberState = "Mounted" => r.fiber
  /\ r.failure # "none" => ~r.fiber

LEMMA DeactivatedAgrees ==
  ASSUME NEW r \in Records, ~r.fiber
  PROVE  LET d == Deactivated(r) IN Agrees(d) /\ ~d.enabled /\ ~d.fiber
BY DEF Deactivated, Agrees, Records, Lifecycles

LEMMA UnmountedAgrees ==
  ASSUME NEW r \in Records, NEW clean \in BOOLEAN
  PROVE  LET d == UnmountIndex(r, clean) IN Agrees(d) /\ ~d.enabled /\ ~d.fiber
BY DEF UnmountIndex, Agrees, Records, Lifecycles

LEMMA PreparedAgrees ==
  ASSUME NEW r, Agrees(r)
  PROVE  LET d == Prepared(r) IN Agrees(d) /\ d.enabled /\ (d.fiber <=> r.fiber)
BY DEF Prepared, Agrees, Records, Lifecycles

LEMMA ResetFits ==
  ASSUME NEW r \in Records
  PROVE  ResetForManualMount(r) \in Records /\ ResetForManualMount(r).fiber = r.fiber
BY DEF ResetForManualMount, Records, Lifecycles

LEMMA DeferredAgrees ==
  ASSUME NEW r \in Records, ~r.fiber
  PROVE  LET d == Deferred(r) IN Agrees(d) /\ d.enabled /\ ~d.fiber
BY DEF Deferred, Agrees, Records, Lifecycles

LEMMA GivenUpAgrees ==
  ASSUME NEW r, Agrees(r), ~r.fiber, r.enabled
  PROVE  LET d == RecordFailure(r, "Mount") IN
         Agrees(d) /\ d.enabled /\ ~d.fiber /\ d.lifecycle = "Failed"
BY DEF RecordFailure, Agrees, Records, Lifecycles

Outcomes == AllBehaviours \cup {"Missing"}

LEMMA MountedAgrees ==
  ASSUME NEW r \in Records, ~r.fiber, NEW o \in Outcomes
  PROVE  LET d == MountIndex(r, o) IN
         /\ Agrees(d) /\ d.enabled
         /\ d.fiber <=> o \in {"ok", "gives"}
         /\ o \notin {"ok", "gives"} => d.lifecycle = "Failed"
<1>1. CASE o \in {"ok", "gives"}
  BY <1>1 DEF MountIndex, Agrees, Records, Lifecycles
<1>2. CASE o \notin {"ok", "gives"}
  BY <1>2 DEF MountIndex, RecordFailure, Agrees, Records, Lifecycles, Outcomes, AllBehaviours
<1> QED
  BY <1>1, <1>2

LEMMA OutcomeFits ==
  ASSUME NEW p, NEW x \in Behaviours, NEW services
  PROVE  MountOutcome(p, x, services) \in Outcomes
BY RuntimeAssumption DEF MountOutcome, Outcomes

----------------------------------------------------------------------------
(* What a start begins with, and the set of plugins that it promises.      *)
Wanted == {p \in RtPlugins : EffectiveEnabled(p)}
Running == {p \in RtPlugins : record[p].fiber}
GivenTo(X, b) == rooted \cup ((X \ Running) \cap {p \in RtPlugins : b[p] = "gives"})
Carries(X, b) ==
  /\ Running \cap Wanted \subseteq X
  /\ \A p \in Wanted :
       b[p] \in {"ok", "gives"} /\ needs[p] \subseteq GivenTo(X, b) => p \in X
Least(b) == {p \in Wanted : \A X \in SUBSET Wanted : Carries(X, b) => p \in X}

RtServices == RtPlugins \cup RootServices
PassStates == [rec : [RtPlugins -> Records], next : SUBSET RtPlugins,
               mounted : BOOLEAN, rooted : SUBSET RtServices]
Up(st) == {p \in RtPlugins : st.rec[p].fiber}

RecordsFollow(rec) ==
  \A p \in RtPlugins : Agrees(rec[p]) /\ rec[p].enabled = EffectiveEnabled(p)

(* What no pass waits for any more is up, or cannot come up.               *)
DecidedBut(waiting, rec, b) ==
  \A p \in Wanted \ waiting :
    \/ rec[p].fiber
    \/ b[p] \notin {"ok", "gives"} /\ rec[p].lifecycle = "Failed"

(* In a pass that has yet to try the plugins of todo: no more is up than   *)
(* promised, what is up has given its services, and as long as nothing was *)
(* mounted, what waits again does so for want of a service.                *)
InPass(st, todo, b) ==
  /\ st \in PassStates
  /\ RecordsFollow(st.rec)
  /\ Running \cap Wanted \subseteq Up(st)
  /\ Up(st) \subseteq Least(b)
  /\ st.rooted = GivenTo(Up(st), b)
  /\ todo \cup st.next \subseteq Wanted \ Up(st)
  /\ todo \cap st.next = {}
  /\ DecidedBut(todo \cup st.next, st.rec, b)
  /\ ~st.mounted => \A p \in st.next : Unmet(p, st.rooted)

LEMMA AttemptMounts ==
  ASSUME NEW b \in [RtPlugins -> Behaviours], NEW st, NEW todo, InPass(st, todo, b),
         NEW p \in todo, MountOutcome(p, b[p], st.rooted) \in {"ok", "gives"}
  PROVE  p \in Least(b)
<1>1. p \in Wanted /\ Up(st) \subseteq Least(b) /\ st.rooted = GivenTo(Up(st), b)
  BY DEF InPass
<1>2. b[p] \in {"ok", "gives"} /\ needs[p] \subseteq st.rooted
  BY DEF MountOutcome, Unmet
<1>3. ASSUME NEW X \in SUBSET Wanted, Carries(X, b) PROVE p \in X
  <2>1. Up(st) \subseteq X
    BY <1>1, <1>3 DEF Least
  <2>2. needs[p] \subseteq GivenTo(X, b)
    BY <1>1, <1>2, <2>1 DEF GivenTo
  <2> QED
    BY <1>1, <1>2, <1>3, <2>2 DEF Carries
<1> QED
  BY <1>1, <1>3 DEF Least

LEMMA AttemptDefers ==
  ASSUME NEW b \in [RtPlugins -> Behaviours], NEW st, NEW todo, InPass(st, todo, b),
         NEW p \in todo, MountOutcome(p, b[p], st.rooted) = "Missing"
  PROVE  LET t == TryMount(st, p, b) IN
         /\ InPass(t, todo \ {p}, b)
         /\ t.next \cup (todo \ {p}) = st.next \cup todo
         /\ t.mounted = st.mounted
<1> DEFINE t == TryMount(st, p, b)
<1>1. /\ st \in PassStates /\ RecordsFollow(st.rec) /\ p \in Wanted /\ p \in RtPlugins
      /\ p \notin Up(st) /\ p \notin st.next
  BY DEF InPass, Wanted
<1>2. st.rec \in [RtPlugins -> Records] /\ st.rec[p] \in Records /\ ~st.rec[p].fiber
  BY <1>1 DEF PassStates, Up
<1>3. t = [st EXCEPT !.next = @ \cup {p}, !.rec[p] = Deferred(@)]
  BY DEF TryMount
<1>4. /\ t = [rec |-> t.rec, next |-> t.next, mounted |-> t.mounted, rooted |-> t.rooted]
      /\ t.next = st.next \cup {p} /\ t.mounted = st.mounted /\ t.rooted = st.rooted
      /\ t.rec = [st.rec EXCEPT ![p] = Deferred(st.rec[p])]
  BY <1>1, <1>3 DEF PassStates
<1> HIDE DEF t
<1>5. LET d == Deferred(st.rec[p]) IN Agrees(d) /\ d.enabled /\ ~d.fiber /\ d \in Records
  BY <1>2, DeferredAgrees DEF Agrees
<1>6. /\ t.rec \in [RtPlugins -> Records]
      /\ t.rec[p] = Deferred(st.rec[p])
      /\ \A q \in RtPlugins \ {p} : t.rec[q] = st.rec[q]
  BY <1>1, <1>2, <1>4, <1>5
<1>7. t \in PassStates
  BY <1>1, <1>4, <1>6 DEF PassStates
<1>8. RecordsFollow(t.rec)
  BY <1>1, <1>5, <1>6 DEF RecordsFollow, Wanted
<1>9. Up(t) = Up(st)
  BY <1>2, <1>5, <1>6 DEF Up
<1>10. (todo \ {p}) \cup t.next = todo \cup st.next
  BY <1>4
<1>11. DecidedBut(todo \cup st.next, t.rec, b)
  BY <1>6 DEF DecidedBut, InPass, Wanted
<1>12. \A q \in st.next : ~st.mounted => Unmet(q, st.rooted)
  BY DEF InPass
<1>13. Unmet(p, st.rooted)
  <2>1. b[p] # "Missing"
    BY <1>1, RuntimeAssumption DEF AllBehaviours
  <2> QED
    BY <2>1 DEF MountOutcome
<1>14. InPass(t, todo \ {p}, b)
  BY <1>1, <1>4, <1>7, <1>8, <1>9, <1>10, <1>11, <1>12, <1>13 DEF InPass
<1> QED
  BY <1>4, <1>10, <1>14 DEF t

LEMMA AttemptDecides ==
  ASSUME NEW b \in [RtPlugins -> Behaviours], NEW st, NEW todo, InPass(st, todo, b),
         NEW p \in todo, MountOutcome(p, b[p], st.rooted) # "Missing"
  PROVE  LET t == TryMount(st, p, b) IN
         /\ InPass(t, todo \ {p}, b)
         /\ t.next = st.next
<1> DEFINE t == TryMount(st, p, b)
           o == MountOutcome(p, b[p], st.rooted)
<1>1. /\ st \in PassStates /\ RecordsFollow(st.rec) /\ p \in Wanted /\ p \in RtPlugins
      /\ p \notin Up(st) /\ p \notin st.next
  BY DEF InPass, Wanted
<1>2. st.rec \in [RtPlugins -> Records] /\ st.rec[p] \in Records /\ ~st.rec[p].fiber
  BY <1>1 DEF PassStates, Up
<1>3. t = [st EXCEPT !.rec[p] = MountIndex(@, o), !.mounted = @ \/ o \in {"ok", "gives"},
                     !.rooted = @ \cup Gives(p, o)]
  BY DEF TryMount
<1>o. o \in Outcomes
  BY <1>1, OutcomeFits
<1>b. o = b[p]
  BY DEF MountOutcome
<1>m. o \in {"ok", "gives"} => p \in Least(b)
  BY AttemptMounts
<1> HIDE DEF o
<1>4. /\ t = [rec |-> t.rec, next |-> t.next, mounted |-> t.mounted, rooted |-> t.rooted]
      /\ t.next = st.next /\ t.mounted = (st.mounted \/ o \in {"ok", "gives"})
      /\ t.rooted = st.rooted \cup Gives(p, o)
      /\ t.rec = [st.rec EXCEPT ![p] = MountIndex(st.rec[p], o)]
  BY <1>1, <1>3 DEF PassStates
<1> HIDE DEF t
<1>5. LET d == MountIndex(st.rec[p], o) IN
      /\ Agrees(d) /\ d.enabled /\ d \in Records /\ (d.fiber <=> o \in {"ok", "gives"})
      /\ o \notin {"ok", "gives"} => d.lifecycle = "Failed"
  BY <1>2, <1>o, MountedAgrees DEF Agrees
<1>6. /\ t.rec \in [RtPlugins -> Records]
      /\ t.rec[p] = MountIndex(st.rec[p], o)
      /\ \A q \in RtPlugins \ {p} : t.rec[q] = st.rec[q]
  BY <1>1, <1>2, <1>4, <1>5
<1>7. t \in PassStates
  <2>1. t.mounted \in BOOLEAN
    BY <1>4
  <2>2. t.rooted \in SUBSET RtServices
    BY <1>1, <1>4 DEF PassStates, Gives, RtServices
  <2> QED
    BY <1>1, <1>4, <1>6, <2>1, <2>2 DEF PassStates
<1>8. RecordsFollow(t.rec)
  BY <1>1, <1>5, <1>6 DEF RecordsFollow, Wanted
<1>9. Up(t) = Up(st) \cup {q \in {p} : o \in {"ok", "gives"}}
  BY <1>1, <1>2, <1>5, <1>6 DEF Up
<1>10. Up(t) \subseteq Least(b) /\ Running \cap Wanted \subseteq Up(t)
  BY <1>9, <1>m DEF InPass
<1>11. t.rooted = GivenTo(Up(t), b)
  <2>1. st.rooted = GivenTo(Up(st), b)
    BY DEF InPass
  <2>2. p \notin Running
    BY <1>1 DEF InPass
  <2> QED
    BY <1>1, <1>4, <1>9, <1>b, <2>1, <2>2 DEF GivenTo, Gives
<1>12. (todo \ {p}) \cup t.next \subseteq Wanted \ Up(t) /\ (todo \ {p}) \cap t.next = {}
  BY <1>4, <1>9 DEF InPass
<1>13. DecidedBut((todo \ {p}) \cup t.next, t.rec, b)
  <2>1. DecidedBut(todo \cup st.next, st.rec, b)
    BY DEF InPass
  <2> SUFFICES ASSUME NEW q \in Wanted \ ((todo \ {p}) \cup t.next)
               PROVE  \/ t.rec[q].fiber
                      \/ b[q] \notin {"ok", "gives"} /\ t.rec[q].lifecycle = "Failed"
    BY DEF DecidedBut
  <2>2. CASE q = p
    BY <1>5, <1>6, <1>b, <2>2
  <2>3. CASE q # p
    BY <1>4, <1>6, <2>1, <2>3 DEF DecidedBut, Wanted
  <2> QED
    BY <2>2, <2>3
<1>14. ASSUME ~t.mounted, NEW q \in t.next PROVE Unmet(q, t.rooted)
  <2>1. ~st.mounted /\ o # "gives"
    BY <1>4, <1>14
  <2>2. t.rooted = st.rooted
    BY <1>4, <2>1 DEF Gives
  <2> QED
    BY <1>4, <1>14, <2>1, <2>2 DEF InPass
<1>15. InPass(t, todo \ {p}, b)
  BY <1>7, <1>8, <1>10, <1>11, <1>12, <1>13, <1>14 DEF InPass
<1> QED
  BY <1>4, <1>15 DEF t

LEMMA RangeInduction ==
  ASSUME NEW N \in Nat, NEW P, 0 \in P, \A n \in 1..N : n - 1 \in P => n \in P
  PROVE  \A n \in 0..N : n \in P
<1> DEFINE Others == {n \in 0..N : n \notin P}
           Less == OpToRel(<, Nat)
<1>1. SUFFICES ASSUME Others # {} PROVE FALSE
  OBVIOUS
<1>2. Others \in SUBSET Nat
  OBVIOUS
<1>3. \A m, n \in Nat : m < n => <<m, n>> \in Less
  BY DEF OpToRel
<1>4. PICK n \in Others : \A m \in Others : <<m, n>> \notin Less
  <2> HIDE DEF Others
  <2> QED
    BY <1>1, <1>2, NatLessThanWellFounded, WFMin
<1> HIDE DEF Less
<1>5. n \in 1..N /\ n - 1 \in 0..N /\ n - 1 < n
  <2>1. n \in 0..N /\ n # 0
    OBVIOUS
  <2> QED
    BY <2>1
<1>6. n - 1 \notin Others
  BY <1>2, <1>3, <1>4, <1>5
<1> QED
  BY <1>5, <1>6

LEMMA RegistryLen ==
  /\ Len(Registered) \in Nat /\ DOMAIN Registered = 1 .. Len(Registered)
  /\ RtPlugins = {Registered[i] : i \in 1 .. Len(Registered)}
  /\ \A i, j \in 1 .. Len(Registered) : Registered[i] = Registered[j] => i = j
<1>1. Registered \in Seq(RtPlugins)
  BY RuntimeAssumption
<1>2. Len(Registered) \in Nat /\ DOMAIN Registered = 1 .. Len(Registered)
  BY <1>1
<1> QED
  BY <1>2, RuntimeAssumption DEF RtPlugins

(* The two recursive functions of a start exist: the plugins of a pass,    *)
(* and the passes.                                                         *)
Begun(st) == [st EXCEPT !.next = {}, !.mounted = FALSE]
Tried(st, before, b, i) ==
  IF Registered[i] \in st.next THEN TryMount(before, Registered[i], b) ELSE before
Tries(f, st, b, N) ==
  f = [i \in 0 .. N |-> IF i = 0 THEN Begun(st) ELSE Tried(st, f[i - 1], b, i)]
Followed(before, b) == IF PassAgain(before) THEN Pass(before, b) ELSE before
Follows(f, st, b, N) ==
  f = [n \in 0 .. N |-> IF n = 0 THEN Pass(st, b) ELSE Followed(f[n - 1], b)]

LEMMA TriesExist ==
  ASSUME NEW st, NEW b, NEW N \in Nat
  PROVE  \E f : Tries(f, st, b, N)
<1> DEFINE P == {k \in 0..N : \E f : Tries(f, st, b, k)}
<1>1. 0 \in P
  <2> DEFINE f == [i \in 0..0 |-> Begun(st)]
  <2>1. f = [i \in 0..0 |-> IF i = 0 THEN Begun(st) ELSE Tried(st, f[i - 1], b, i)]
    <3>1. \A i \in 0..0 : i = 0
      OBVIOUS
    <3> QED
      BY <3>1, Zenon
  <2>2. Tries(f, st, b, 0)
    BY <2>1 DEF Tries
  <2> HIDE DEF f
  <2> QED
    BY <2>2
<1>2. ASSUME NEW k \in 1..N, k - 1 \in P PROVE k \in P
  <2>1. PICK f : Tries(f, st, b, k - 1)
    BY <1>2
  <2> DEFINE Body(h, i) == IF i = 0 THEN Begun(st) ELSE Tried(st, h[i - 1], b, i)
             g == [i \in 0..k |-> Body(f, i)]
             h == [i \in 0..k |-> Body(g, i)]
  <2>2. \A i \in 0..k : g[i] = Body(f, i)
    BY Zenon
  <2>3. \A i \in 0..(k - 1) : f[i] = Body(f, i)
    BY <2>1, Zenon DEF Tries
  <2>4. \A i \in 0..k : i # 0 => i - 1 \in 0..(k - 1) /\ i - 1 \in 0..k
    OBVIOUS
  <2>5. \A i \in 0..(k - 1) : g[i] = f[i]
    <3>1. \A i \in 0..(k - 1) : i \in 0..k
      OBVIOUS
    <3> HIDE DEF g
    <3> QED
      BY <2>2, <2>3, <3>1, Zenon
  <2>6. \A i \in 0..k : h[i] = Body(g, i)
    BY Zenon
  <2>g. g = [i \in 0..k |-> g[i]]
    BY Zenon
  <2>h. h = [i \in 0..k |-> h[i]]
    <3> HIDE DEF g
    <3> QED
      BY Zenon
  <2>8. \A i \in 0..k : i # 0 => g[i - 1] = f[i - 1]
    <3> HIDE DEF g
    <3> QED
      BY <2>4, <2>5, Zenon
  <2>9. g = h
    <3> HIDE DEF g, h
    <3>1. \A i \in 0..k : g[i] = h[i]
      BY <2>2, <2>6, <2>8, Zenon
    <3> QED
      BY <2>g, <2>h, <3>1, Zenon
  <2>10. Tries(g, st, b, k)
    <3>1. g = [i \in 0..k |-> IF i = 0 THEN Begun(st) ELSE Tried(st, g[i - 1], b, i)]
      <4> HIDE DEF g
      <4> QED
        BY <2>9 DEF h
    <3> QED
      BY <3>1 DEF Tries
  <2> HIDE DEF g
  <2> QED
    BY <2>10
<1> HIDE DEF P
<1>3. \A n \in 0..N : n \in P
  BY <1>1, <1>2, RangeInduction
<1> QED
  BY <1>3 DEF P

LEMMA FollowersExist ==
  ASSUME NEW st, NEW b, NEW N \in Nat
  PROVE  \E f : Follows(f, st, b, N)
<1> DEFINE P == {k \in 0..N : \E f : Follows(f, st, b, k)}
<1>1. 0 \in P
  <2> DEFINE f == [i \in 0..0 |-> Pass(st, b)]
  <2>1. f = [i \in 0..0 |-> IF i = 0 THEN Pass(st, b) ELSE Followed(f[i - 1], b)]
    <3>1. \A i \in 0..0 : i = 0
      OBVIOUS
    <3> QED
      BY <3>1, Zenon
  <2>2. Follows(f, st, b, 0)
    BY <2>1 DEF Follows
  <2> HIDE DEF f
  <2> QED
    BY <2>2
<1>2. ASSUME NEW k \in 1..N, k - 1 \in P PROVE k \in P
  <2>1. PICK f : Follows(f, st, b, k - 1)
    BY <1>2
  <2> DEFINE Body(h, i) == IF i = 0 THEN Pass(st, b) ELSE Followed(h[i - 1], b)
             g == [i \in 0..k |-> Body(f, i)]
             h == [i \in 0..k |-> Body(g, i)]
  <2>2. \A i \in 0..k : g[i] = Body(f, i)
    BY Zenon
  <2>3. \A i \in 0..(k - 1) : f[i] = Body(f, i)
    BY <2>1, Zenon DEF Follows
  <2>4. \A i \in 0..k : i # 0 => i - 1 \in 0..(k - 1) /\ i - 1 \in 0..k
    OBVIOUS
  <2>5. \A i \in 0..(k - 1) : g[i] = f[i]
    <3>1. \A i \in 0..(k - 1) : i \in 0..k
      OBVIOUS
    <3> HIDE DEF g
    <3> QED
      BY <2>2, <2>3, <3>1, Zenon
  <2>6. \A i \in 0..k : h[i] = Body(g, i)
    BY Zenon
  <2>g. g = [i \in 0..k |-> g[i]]
    BY Zenon
  <2>h. h = [i \in 0..k |-> h[i]]
    <3> HIDE DEF g
    <3> QED
      BY Zenon
  <2>8. \A i \in 0..k : i # 0 => g[i - 1] = f[i - 1]
    <3> HIDE DEF g
    <3> QED
      BY <2>4, <2>5, Zenon
  <2>9. g = h
    <3> HIDE DEF g, h
    <3>1. \A i \in 0..k : g[i] = h[i]
      BY <2>2, <2>6, <2>8, Zenon
    <3> QED
      BY <2>g, <2>h, <3>1, Zenon
  <2>10. Follows(g, st, b, k)
    <3>1. g = [i \in 0..k |-> IF i = 0 THEN Pass(st, b) ELSE Followed(g[i - 1], b)]
      <4> HIDE DEF g
      <4> QED
        BY <2>9 DEF h
    <3> QED
      BY <3>1 DEF Follows
  <2> HIDE DEF g
  <2> QED
    BY <2>10
<1> HIDE DEF P
<1>3. \A n \in 0..N : n \in P
  BY <1>1, <1>2, RangeInduction
<1> QED
  BY <1>3 DEF P

LEMMA PassSteps ==
  ASSUME NEW st, NEW b
  PROVE  \E f : /\ f[0] = Begun(st) /\ Pass(st, b) = f[Len(Registered)]
                /\ \A i \in 1 .. Len(Registered) : f[i] = Tried(st, f[i - 1], b, i)
<1> DEFINE N == Len(Registered)
           f == CHOOSE g : Tries(g, st, b, N)
<1>1. Pass(st, b) = f[N]
  BY Zenon DEF Pass, Tries, Begun, Tried
<1>2. N \in Nat
  BY RegistryLen
<1> HIDE DEF N
<1>3. Tries(f, st, b, N)
  BY <1>2, TriesExist, Zenon
<1> HIDE DEF f
<1>4. \A i \in 0..N : f[i] = IF i = 0 THEN Begun(st) ELSE Tried(st, f[i - 1], b, i)
  BY <1>3, Zenon DEF Tries
<1>5. 0 \in 0..N /\ \A i \in 1..N : i \in 0..N /\ i # 0
  BY <1>2
<1>6. f[0] = Begun(st) /\ \A i \in 1..N : f[i] = Tried(st, f[i - 1], b, i)
  BY <1>4, <1>5, Zenon
<1> QED
  BY <1>1, <1>6 DEF N

LEMMA PassesSteps ==
  ASSUME NEW st, NEW b
  PROVE  \E f : /\ f[0] = Pass(st, b) /\ Passes(st, b) = GiveUp(f[Len(Registered)])
                /\ \A n \in 1 .. Len(Registered) : f[n] = Followed(f[n - 1], b)
<1> DEFINE N == Len(Registered)
           f == CHOOSE g : Follows(g, st, b, N)
<1>1. Passes(st, b) = GiveUp(f[N])
  BY Zenon DEF Passes, Follows, Followed
<1>2. N \in Nat
  BY RegistryLen
<1> HIDE DEF N
<1>3. Follows(f, st, b, N)
  BY <1>2, FollowersExist, Zenon
<1> HIDE DEF f
<1>4. \A n \in 0..N : f[n] = IF n = 0 THEN Pass(st, b) ELSE Followed(f[n - 1], b)
  BY <1>3, Zenon DEF Follows
<1>5. 0 \in 0..N /\ \A n \in 1..N : n \in 0..N /\ n # 0
  BY <1>2
<1>6. f[0] = Pass(st, b) /\ \A n \in 1..N : f[n] = Followed(f[n - 1], b)
  BY <1>4, <1>5, Zenon
<1> QED
  BY <1>1, <1>6 DEF N

(* A pass decides what it can: what it leaves waiting waits for a service. *)
LEMMA PassKeeps ==
  ASSUME NEW b \in [RtPlugins -> Behaviours], NEW st, InPass(Begun(st), st.next, b)
  PROVE  LET t == Pass(st, b) IN
         /\ InPass(t, {}, b)
         /\ t.next \subseteq st.next
         /\ t.mounted => t.next # st.next
<1> DEFINE N == Len(Registered)
           Left(i) == {p \in st.next : \A j \in 1..i : Registered[j] # p}
<1>1. PICK f : /\ f[0] = Begun(st) /\ Pass(st, b) = f[N]
               /\ \A i \in 1..N : f[i] = Tried(st, f[i - 1], b, i)
  BY PassSteps
<1> DEFINE Kept(i) == /\ InPass(f[i], Left(i), b)
                      /\ f[i].next \cup Left(i) \subseteq st.next
                      /\ f[i].mounted => f[i].next \cup Left(i) # st.next
           P == {i \in 0..N : Kept(i)}
<1>2. N \in Nat /\ RtPlugins = {Registered[i] : i \in 1..N}
      /\ \A i, j \in 1..N : Registered[i] = Registered[j] => i = j
  BY RegistryLen
<1>r. st.next \subseteq RtPlugins
  BY DEF InPass, Wanted
<1> HIDE DEF N
<1>3. 0 \in P
  <2>1. Left(0) = st.next
    <3>1. 1..0 = {}
      OBVIOUS
    <3> QED
      BY <3>1
  <2>2. f[0].next \subseteq st.next /\ ~f[0].mounted
    <3>1. Begun(st) \in PassStates
      BY DEF InPass
    <3>2. Begun(st).mounted \in BOOLEAN /\ Begun(st).next = {} 
      BY <3>1 DEF Begun, PassStates
    <3> QED
      BY <1>1, <3>1, <3>2 DEF Begun, PassStates
  <2>3. InPass(f[0], Left(0), b)
    BY <1>1, <2>1
  <2>4. Kept(0)
    BY <2>1, <2>2, <2>3
  <2>5. 0 \in 0..N
    BY <1>2
  <2> HIDE DEF Kept
  <2> QED
    BY <2>4, <2>5
<1>4. ASSUME NEW i \in 1..N, i - 1 \in P PROVE i \in P
  <2> DEFINE p == Registered[i]
             s == f[i - 1]
  <2>1. /\ InPass(s, Left(i - 1), b) /\ s.next \cup Left(i - 1) \subseteq st.next
        /\ s.mounted => s.next \cup Left(i - 1) # st.next
    BY <1>4
  <2>2. f[i] = IF p \in st.next THEN TryMount(s, p, b) ELSE s
    BY <1>1 DEF Tried
  <2>3. Left(i) = Left(i - 1) \ {p}
    <3>1. \A j : j \in 1..i <=> (j \in 1..(i - 1) \/ j = i)
      BY <1>2
    <3> QED
      BY <3>1
  <2>4. p \in st.next => p \in Left(i - 1)
    <3>1. \A j \in 1..(i - 1) : j \in 1..N /\ j # i
      BY <1>2
    <3> QED
      BY <1>2, <3>1
  <2>5. i \in 0..N
    BY <1>2
  <2>6. p \in Left(i - 1) => p \in st.next /\ p \notin s.next
    BY <2>1 DEF InPass
  <2> HIDE DEF Left, s, p
  <2>7. CASE p \notin st.next
    BY <2>1, <2>2, <2>3, <2>5, <2>6, <2>7
  <2>8. CASE p \in st.next /\ MountOutcome(p, b[p], s.rooted) = "Missing"
    <3> DEFINE todo == Left(i - 1)
    <3>1. InPass(s, todo, b) /\ p \in todo
      BY <2>1, <2>4, <2>8
    <3> HIDE DEF todo
    <3>2. LET t == TryMount(s, p, b) IN
          /\ InPass(t, todo \ {p}, b)
          /\ t.next \cup (todo \ {p}) = s.next \cup todo
          /\ t.mounted = s.mounted
      BY <2>8, <3>1, AttemptDefers, Zenon
    <3> QED
      BY <2>1, <2>2, <2>3, <2>5, <2>8, <3>2 DEF todo
  <2>9. CASE p \in st.next /\ MountOutcome(p, b[p], s.rooted) # "Missing"
    <3>1. LET t == TryMount(s, p, b) IN
          /\ InPass(t, Left(i - 1) \ {p}, b)
          /\ t.next = s.next
      BY <2>1, <2>4, <2>9, AttemptDecides
    <3> QED
      BY <2>1, <2>2, <2>3, <2>4, <2>5, <2>6, <2>9, <3>1
  <2> QED
    BY <2>7, <2>8, <2>9
<1>5. N \in P
  <2> HIDE DEF P
  <2>1. \A i \in 0..N : i \in P
    BY <1>2, <1>3, <1>4, RangeInduction
  <2> QED
    BY <1>2, <2>1
<1>6. Left(N) = {}
  BY <1>2, <1>r
<1> HIDE DEF Left
<1> QED
  BY <1>1, <1>5, <1>6

LEMMA FewPlugins ==
  /\ IsFiniteSet(RtPlugins) /\ Cardinality(RtPlugins) \in Nat
  /\ Cardinality(RtPlugins) <= Len(Registered)
<1> DEFINE N == Len(Registered)
           f == [i \in 1..N |-> Registered[i]]
<1>1. /\ N \in Nat /\ RtPlugins = {Registered[i] : i \in 1 .. N}
      /\ \A i, j \in 1 .. N : Registered[i] = Registered[j] => i = j
  BY RegistryLen
<1> HIDE DEF N
<1>2. f \in Surjection(1..N, RtPlugins)
  BY <1>1 DEF Surjection
<1>3. IsFiniteSet(1..N) /\ Cardinality(1..N) = N
  BY <1>1, FS_Interval
<1>4. IsFiniteSet(RtPlugins) /\ Cardinality(RtPlugins) <= N
  BY <1>2, <1>3, FS_Surjection
<1> QED
  BY <1>4, FS_CardinalityType DEF N

LEMMA FewerWait ==
  ASSUME NEW S \in SUBSET RtPlugins, NEW T \in SUBSET S
  PROVE  /\ Cardinality(S) \in Nat /\ Cardinality(T) \in Nat
         /\ Cardinality(S) <= Len(Registered)
         /\ T # S => Cardinality(T) < Cardinality(S)
<1>1. IsFiniteSet(S) /\ Cardinality(S) <= Cardinality(RtPlugins)
  BY FewPlugins, FS_Subset
<1>2. /\ IsFiniteSet(T) /\ Cardinality(T) <= Cardinality(S)
      /\ Cardinality(T) = Cardinality(S) => T = S
  BY <1>1, FS_Subset
<1>3. Cardinality(S) \in Nat /\ Cardinality(T) \in Nat
  BY <1>1, <1>2, FS_CardinalityType
<1> QED
  BY <1>1, <1>2, <1>3, FewPlugins, RegistryLen

LEMMA BegunFits ==
  ASSUME NEW st \in PassStates
  PROVE  LET s == Begun(st) IN
         /\ s.rec = st.rec /\ s.next = {} /\ s.mounted = FALSE /\ s.rooted = st.rooted
         /\ s \in PassStates
BY DEF Begun, PassStates

LEMMA NextPassBegins ==
  ASSUME NEW b, NEW st, InPass(st, {}, b)
  PROVE  InPass(Begun(st), st.next, b)
<1> DEFINE s == Begun(st)
<1>1. st \in PassStates
  BY DEF InPass
<1>2. s.rec = st.rec /\ s.next = {} /\ s.rooted = st.rooted /\ s \in PassStates
  BY <1>1, BegunFits
<1> HIDE DEF s
<1>3. Up(s) = Up(st)
  BY <1>2 DEF Up
<1>4. st.next \cup s.next = {} \cup st.next
  BY <1>2
<1>5. DecidedBut(st.next \cup s.next, s.rec, b)
  BY <1>2, <1>4 DEF InPass
<1>6. InPass(s, st.next, b)
  BY <1>2, <1>3, <1>4, <1>5 DEF InPass
<1> QED
  BY <1>6 DEF s

(* No pass is left to be made after as many as there are plugins.          *)
LEMMA PassesEnd ==
  ASSUME NEW b \in [RtPlugins -> Behaviours], NEW st, InPass(Begun(st), st.next, b)
  PROVE  \E t : Passes(st, b) = GiveUp(t) /\ InPass(t, {}, b) /\ ~PassAgain(t)
<1> DEFINE N == Len(Registered)
<1>1. PICK f : /\ f[0] = Pass(st, b) /\ Passes(st, b) = GiveUp(f[N])
               /\ \A n \in 1..N : f[n] = Followed(f[n - 1], b)
  BY PassesSteps
<1> DEFINE Awaits(n) == Cardinality(f[n].next)
           Kept(n) == /\ InPass(f[n], {}, b) /\ Awaits(n) \in Nat
                      /\ PassAgain(f[n]) => Awaits(n) + n < N
           P == {n \in 0..N : Kept(n)}
<1>2. N \in Nat
  BY RegistryLen
<1>3. st.next \subseteq RtPlugins
  BY DEF InPass, Wanted
<1>4. ASSUME NEW n \in 0..N, NEW s, f[n] = Pass(s, b), InPass(Begun(s), s.next, b),
             s.next \subseteq RtPlugins
      PROVE  /\ InPass(f[n], {}, b) /\ Awaits(n) \in Nat /\ Cardinality(s.next) \in Nat
             /\ Cardinality(s.next) <= N
             /\ PassAgain(f[n]) => Awaits(n) < Cardinality(s.next)
  <2>1. /\ InPass(f[n], {}, b) /\ f[n].next \subseteq s.next
        /\ f[n].mounted => f[n].next # s.next
    BY <1>4, PassKeeps
  <2> QED
    BY <1>4, <2>1, FewerWait DEF PassAgain
<1> HIDE DEF N, Awaits
<1>5. 0 \in P
  <2>1. 0 \in 0..N
    BY <1>2
  <2>2. /\ InPass(f[0], {}, b) /\ Awaits(0) \in Nat /\ Cardinality(st.next) \in Nat
        /\ Cardinality(st.next) <= N
        /\ PassAgain(f[0]) => Awaits(0) < Cardinality(st.next)
    BY <1>1, <1>3, <1>4, <2>1
  <2>3. Kept(0)
    BY <1>2, <2>2
  <2> HIDE DEF Kept
  <2> QED
    BY <2>1, <2>3
<1>6. ASSUME NEW n \in 1..N, n - 1 \in P PROVE n \in P
  <2>1. n \in 0..N /\ n - 1 \in 0..N /\ n \in Nat
    BY <1>2
  <2>2. Kept(n - 1) /\ f[n] = Followed(f[n - 1], b)
    BY <1>1, <1>6
  <2>3. CASE ~PassAgain(f[n - 1])
    <3>1. f[n] = f[n - 1]
      BY <2>2, <2>3 DEF Followed
    <3>2. Kept(n)
      BY <2>2, <2>3, <3>1 DEF Awaits
    <3> HIDE DEF Kept
    <3> QED
      BY <2>1, <3>2
  <2>4. CASE PassAgain(f[n - 1])
    <3>1. f[n] = Pass(f[n - 1], b) /\ InPass(Begun(f[n - 1]), f[n - 1].next, b)
      BY <2>2, <2>4, NextPassBegins DEF Followed
    <3>2. f[n - 1].next \subseteq RtPlugins
      BY <2>2 DEF InPass, Wanted
    <3>3. /\ InPass(f[n], {}, b) /\ Awaits(n) \in Nat
          /\ PassAgain(f[n]) => Awaits(n) < Awaits(n - 1)
      BY <1>4, <2>1, <3>1, <3>2 DEF Awaits
    <3>4. Awaits(n - 1) \in Nat /\ Awaits(n - 1) + (n - 1) < N
      BY <2>2, <2>4
    <3>5. Kept(n)
      BY <1>2, <2>1, <3>3, <3>4
    <3> HIDE DEF Kept
    <3> QED
      BY <2>1, <3>5
  <2> QED
    BY <2>3, <2>4
<1>7. Kept(N)
  <2> HIDE DEF Kept
  <2>0. \A n : n \in P <=> n \in 0..N /\ Kept(n)
    OBVIOUS
  <2> HIDE DEF P
  <2>1. \A n \in 0..N : n \in P
    BY <1>2, <1>5, <1>6, RangeInduction
  <2> QED
    BY <1>2, <2>0, <2>1
<1>8. InPass(f[N], {}, b) /\ ~PassAgain(f[N])
  BY <1>2, <1>7
<1> QED
  BY <1>1, <1>8

(* What the last pass leaves has all it can: the promised set is up.       *)
LEMMA PassesReachLeast ==
  ASSUME NEW b \in [RtPlugins -> Behaviours], NEW st, InPass(Begun(st), st.next, b)
  PROVE  LET end == Passes(st, b) IN
         /\ end.rec \in [RtPlugins -> Records]
         /\ end.rooted \in SUBSET RtServices
         /\ RecordsFollow(end.rec)
         /\ Up(end) = Least(b)
         /\ \A p \in Wanted : end.rec[p].lifecycle \in {"Mounted", "Failed"}
<1>1. PICK t : Passes(st, b) = GiveUp(t) /\ InPass(t, {}, b) /\ ~PassAgain(t)
  BY PassesEnd
<1> DEFINE end == GiveUp(t)
<1>2. t \in PassStates /\ t.rec \in [RtPlugins -> Records] /\ t.rooted \in SUBSET RtServices
  BY <1>1 DEF InPass, PassStates
<1>3. /\ end.rooted = t.rooted
      /\ end.rec = [p \in RtPlugins |-> IF p \in t.next THEN RecordFailure(t.rec[p], "Mount")
                                        ELSE t.rec[p]]
  BY <1>2 DEF GiveUp, PassStates
<1> HIDE DEF end
<1>4. ASSUME NEW p \in t.next
      PROVE  /\ p \in RtPlugins /\ end.rec[p].lifecycle = "Failed" /\ end.rec[p].enabled
             /\ Agrees(end.rec[p]) /\ ~end.rec[p].fiber
             /\ EffectiveEnabled(p) /\ ~t.rec[p].fiber
  <2>1. p \in RtPlugins /\ EffectiveEnabled(p) /\ ~t.rec[p].fiber
    BY <1>1 DEF InPass, Wanted, Up
  <2>2. Agrees(t.rec[p]) /\ t.rec[p].enabled
    BY <1>1, <2>1 DEF InPass, RecordsFollow
  <2>3. end.rec[p] = RecordFailure(t.rec[p], "Mount")
    BY <1>3, <2>1
  <2> QED
    BY <2>1, <2>2, <2>3, GivenUpAgrees
<1>5. \A p \in RtPlugins : p \notin t.next => end.rec[p] = t.rec[p]
  BY <1>3
<1>6. RecordsFollow(end.rec)
  BY <1>1, <1>4, <1>5 DEF RecordsFollow, InPass
<1>7. end.rec \in [RtPlugins -> Records]
  <2>1. \A p \in RtPlugins : end.rec[p] \in Records
    BY <1>6 DEF RecordsFollow, Agrees
  <2> QED
    BY <1>3, <2>1
<1>8. Up(end) = Up(t)
  BY <1>4, <1>5 DEF Up
<1>9. \A p \in Wanted \ t.next :
        \/ t.rec[p].fiber
        \/ b[p] \notin {"ok", "gives"} /\ t.rec[p].lifecycle = "Failed"
  <2>1. DecidedBut({} \cup t.next, t.rec, b)
    BY <1>1 DEF InPass
  <2> QED
    BY <2>1 DEF DecidedBut
<1>10. \A p \in t.next : ~(needs[p] \subseteq t.rooted)
  <2>1. t.next = {} \/ ~t.mounted
    BY <1>1 DEF PassAgain
  <2> QED
    BY <1>1, <2>1 DEF InPass, Unmet
<1>11. Carries(Up(t), b) /\ Up(t) \in SUBSET Wanted /\ Up(t) \subseteq Least(b)
  <2>1. Up(t) \subseteq Least(b) /\ t.rooted = GivenTo(Up(t), b) /\ Running \cap Wanted \subseteq Up(t)
    BY <1>1 DEF InPass
  <2>2. Up(t) \in SUBSET Wanted
    BY <2>1 DEF Least
  <2>3. ASSUME NEW p \in Wanted, b[p] \in {"ok", "gives"}, needs[p] \subseteq GivenTo(Up(t), b)
        PROVE  p \in Up(t)
    <3>1. p \notin t.next
      BY <1>10, <2>1, <2>3
    <3> QED
      BY <1>9, <2>3, <3>1 DEF Up, Wanted
  <2> QED
    BY <2>1, <2>2, <2>3 DEF Carries
<1>12. Up(end) = Least(b)
  BY <1>8, <1>11 DEF Least
<1>13. ASSUME NEW p \in Wanted PROVE end.rec[p].lifecycle \in {"Mounted", "Failed"}
  <2>1. CASE p \in t.next
    BY <1>4, <2>1
  <2>2. CASE p \notin t.next
    <3>1. end.rec[p] = t.rec[p] /\ Agrees(end.rec[p])
      BY <1>5, <1>6, <2>2 DEF Wanted, RecordsFollow
    <3> QED
      BY <1>9, <2>2, <3>1 DEF Agrees
  <2> QED
    BY <2>1, <2>2
<1> QED
  BY <1>1, <1>2, <1>3, <1>6, <1>7, <1>12, <1>13 DEF end

----------------------------------------------------------------------------
(* The inductive invariant: every record agrees with itself, with the      *)
(* switch while the runtime is open and with its end when it is closed,    *)
(* and what the last start promised is so.                                 *)
RtTypeOK ==
  /\ manifest \in [RtPlugins -> Manifests]
  /\ overrides \in [RtPlugins -> {"none", "on", "off"}]
  /\ runtime \in [started : BOOLEAN, closed : BOOLEAN]
  /\ record \in [RtPlugins -> Records]
  /\ rooted \in SUBSET RtServices

RecordsKept ==
  \A p \in RtPlugins :
    /\ Agrees(record[p])
    /\ ~runtime.closed => record[p].enabled = EffectiveEnabled(p)
    /\ runtime.closed => ~record[p].fiber

RtIInv == RtTypeOK /\ RecordsKept /\ StartupIsOrderFree

LEMMA RecordsKeptAgree ==
  ASSUME RecordsKept PROVE RecordsAgree
BY DEF RecordsKept, RecordsAgree, PluginSnapshot, Agrees

LEMMA RtInitInv == RtInit => RtIInv
<1> SUFFICES ASSUME RtInit PROVE RtIInv
  OBVIOUS
<1>1. \A p \in RtPlugins : manifest[p] \in Manifests /\ record[p] = NewRecord(manifest[p])
  BY DEF RtInit
<1>2. \A p \in RtPlugins : EffectiveEnabled(p) = ResolvesToEnabled(manifest[p])
  BY DEF RtInit, EffectiveEnabled, ResolvesToEnabled
<1>3. ASSUME NEW p \in RtPlugins
      PROVE  Agrees(record[p]) /\ record[p].enabled = EffectiveEnabled(p)
  <2>1. ResolvesToEnabled(manifest[p]) \in BOOLEAN
    BY DEF ResolvesToEnabled
  <2>2. record[p] = NewRecord(manifest[p]) /\ EffectiveEnabled(p) = ResolvesToEnabled(manifest[p])
    BY <1>1, <1>2, <1>3
  <2> QED
    BY <2>1, <2>2 DEF NewRecord, Agrees, Records, Lifecycles
<1>4. record \in [RtPlugins -> Records]
  BY <1>3 DEF RtInit, Agrees
<1>5. RtTypeOK
  BY <1>4 DEF RtTypeOK, RtInit
<1>6. RecordsKept
  BY <1>3 DEF RecordsKept, RtInit
<1>7. StartupIsOrderFree
  BY DEF RtInit, StartupIsOrderFree
<1> QED
  BY <1>5, <1>6, <1>7 DEF RtIInv

LEMMA FirstPassReady ==
  ASSUME RtIInv, ~runtime.closed, NEW b \in [RtPlugins -> Behaviours], NEW clean \in BOOLEAN
  PROVE  LET st == [rec |-> FirstPass(clean),
                    next |-> {p \in RtPlugins : EffectiveEnabled(p) /\ ~record[p].fiber},
                    mounted |-> FALSE, rooted |-> rooted]
         IN InPass(Begun(st), st.next, b)
<1> DEFINE first == FirstPass(clean)
           pending == {p \in RtPlugins : EffectiveEnabled(p) /\ ~record[p].fiber}
           st == [rec |-> first, next |-> pending, mounted |-> FALSE, rooted |-> rooted]
           s == Begun(st)
<1>1. /\ record \in [RtPlugins -> Records] /\ rooted \in SUBSET RtServices
      /\ \A p \in RtPlugins : Agrees(record[p]) /\ record[p].enabled = EffectiveEnabled(p)
  BY DEF RtIInv, RtTypeOK, RecordsKept
<1>3. ASSUME NEW p \in RtPlugins, EffectiveEnabled(p) PROVE first[p] = record[p]
  BY <1>3 DEF FirstPass
<1>4. ASSUME NEW p \in RtPlugins, ~EffectiveEnabled(p)
      PROVE  Agrees(first[p]) /\ ~first[p].enabled /\ ~first[p].fiber
  <2> DEFINE r == record[p]
             off == UnmountIndex(r, TRUE)
  <2>1. first[p] = IF r.fiber /\ ~clean THEN UnmountIndex(r, FALSE)
                   ELSE Deactivated(IF r.fiber THEN off ELSE r)
    BY <1>4 DEF FirstPass
  <2>2. r \in Records
    BY <1>1
  <2> HIDE DEF r
  <2>3. off \in Records /\ ~off.fiber
    BY <2>2, UnmountedAgrees DEF Agrees
  <2> HIDE DEF off
  <2>4. CASE r.fiber /\ ~clean
    BY <2>1, <2>2, <2>4, UnmountedAgrees
  <2>5. CASE r.fiber /\ clean
    BY <2>1, <2>3, <2>5, DeactivatedAgrees
  <2>6. CASE ~r.fiber
    BY <2>1, <2>2, <2>6, DeactivatedAgrees
  <2> QED
    BY <2>4, <2>5, <2>6
<1>5. \A p \in RtPlugins : EffectiveEnabled(p) \in BOOLEAN
  BY DEF EffectiveEnabled
<1>6. RecordsFollow(first)
  BY <1>1, <1>3, <1>4, <1>5 DEF RecordsFollow, Agrees, Records
<1>7. first \in [RtPlugins -> Records]
  <2>1. \A p \in RtPlugins : first[p] \in Records
    BY <1>6 DEF RecordsFollow, Agrees
  <2>2. first = [p \in RtPlugins |-> first[p]]
    BY DEF FirstPass
  <2> HIDE DEF first
  <2> QED
    BY <2>1, <2>2
<1> HIDE DEF first, pending
<1>2. /\ st \in PassStates /\ st.rec = first /\ st.next = pending /\ st.rooted = rooted
  <2>1. pending \in SUBSET RtPlugins
    BY DEF pending
  <2> QED
    BY <1>1, <1>7, <2>1 DEF PassStates
<1> HIDE DEF st
<1>8. s \in PassStates /\ s.rec = first /\ s.next = {} /\ s.rooted = rooted
  BY <1>2, BegunFits
<1> HIDE DEF s
<1>9. Up(s) = Running \cap Wanted
  BY <1>1, <1>3, <1>4, <1>8 DEF Up, Running, Wanted
<1>10. Up(s) \subseteq Least(b) /\ s.rooted = GivenTo(Up(s), b)
  BY <1>8, <1>9 DEF Least, Carries, GivenTo
<1>11. pending = Wanted \ Running
  BY DEF pending, Wanted, Running
<1>12. pending \cup s.next = pending
  BY <1>8
<1>13. DecidedBut(pending, s.rec, b)
  BY <1>8, <1>9, <1>11 DEF DecidedBut, Up, Wanted, Running
<1>14. InPass(s, pending, b)
  BY <1>6, <1>8, <1>9, <1>10, <1>11, <1>12, <1>13 DEF InPass
<1> QED
  BY <1>2, <1>14 DEF s, st, first, pending

LEMMA StartKeeps ==
  ASSUME RtIInv, NEW b \in [RtPlugins -> Behaviours], NEW clean \in BOOLEAN,
         StartDefault(b, clean)
  PROVE  RtIInv'
<1> DEFINE st == [rec |-> FirstPass(clean),
                  next |-> {p \in RtPlugins : EffectiveEnabled(p) /\ ~record[p].fiber},
                  mounted |-> FALSE, rooted |-> rooted]
           end == Passes(st, b)
<1>1. /\ ~runtime.closed /\ UNCHANGED <<manifest, needs, overrides>>
      /\ record' = end.rec /\ rooted' = end.rooted
      /\ runtime' = [runtime EXCEPT !.started = TRUE]
  BY DEF StartDefault, Call
<1>2. report' = [made |-> TRUE, services |-> rooted,
                 works |-> {p \in RtPlugins : b[p] \in {"ok", "gives"}},
                 gives |-> {p \in RtPlugins : b[p] = "gives"},
                 running |-> {p \in RtPlugins : record[p].fiber},
                 wanted |-> {p \in RtPlugins : EffectiveEnabled(p)},
                 activated |-> {p \in RtPlugins : end.rec[p].fiber}]
  BY DEF StartDefault
<1>3. InPass(Begun(st), st.next, b)
  BY <1>1, FirstPassReady
<1> HIDE DEF st
<1>4. /\ end.rec \in [RtPlugins -> Records] /\ end.rooted \in SUBSET RtServices
      /\ RecordsFollow(end.rec) /\ Up(end) = Least(b)
      /\ \A p \in Wanted : end.rec[p].lifecycle \in {"Mounted", "Failed"}
  BY <1>3, PassesReachLeast
<1> HIDE DEF end
<1>5. \A p \in RtPlugins : EffectiveEnabled(p)' = EffectiveEnabled(p)
  BY <1>1 DEF EffectiveEnabled
<1>6. runtime' \in [started : BOOLEAN, closed : BOOLEAN] /\ ~runtime'.closed
  BY <1>1 DEF RtIInv, RtTypeOK
<1>7. RtTypeOK'
  <2>1. RtTypeOK
    BY DEF RtIInv
  <2> QED
    BY <1>1, <1>4, <1>6, <2>1 DEF RtTypeOK, RtServices
<1>8. RecordsKept'
  BY <1>1, <1>4, <1>5, <1>6 DEF RecordsKept, RecordsFollow
<1>9. StartupIsOrderFree'
  <2>1. /\ report'.services = rooted /\ report'.running = Running /\ report'.wanted = Wanted
        /\ report'.works = {p \in RtPlugins : b[p] \in {"ok", "gives"}}
        /\ report'.gives = {p \in RtPlugins : b[p] = "gives"}
        /\ report'.activated = Up(end)
    BY <1>2 DEF Running, Wanted, Up
  <2>2. \A p \in Wanted : p \in RtPlugins
    BY DEF Wanted
  <2>3. report'.activated = {p \in report'.wanted : \A X \in SUBSET report'.wanted :
          (/\ report'.running \cap report'.wanted \subseteq X
           /\ \A q \in report'.wanted :
                q \in report'.works
                  /\ needs'[q] \subseteq report'.services
                                   \cup ((X \ report'.running) \cap report'.gives) => q \in X)
          => p \in X}
    BY <1>1, <1>4, <2>1, <2>2 DEF Least, Carries, GivenTo
  <2>4. \A p \in report'.wanted : record'[p].lifecycle \in {"Mounted", "Failed"}
    BY <1>1, <1>4, <2>1
  <2> QED
    BY <2>3, <2>4 DEF StartupIsOrderFree
<1> QED
  BY <1>7, <1>8, <1>9 DEF RtIInv

(* The calls that change the record and the switch of one plugin.          *)
SetsTo(p, on) ==
  /\ rooted' \in SUBSET RtServices
  /\ \E d \in Records : /\ Agrees(d) /\ d.enabled = on
                        /\ record' = [record EXCEPT ![p] = d]

LEMMA MountsSets ==
  ASSUME RtIInv, NEW p \in RtPlugins, NEW r \in Records, ~r.fiber, NEW x \in Behaviours,
         Mounts(p, r, x)
  PROVE  SetsTo(p, TRUE)
<1> DEFINE o == MountOutcome(p, x, rooted)
           d == MountIndex(r, o)
<1>1. record' = [record EXCEPT ![p] = d] /\ rooted' = rooted \cup Gives(p, o)
  BY DEF Mounts
<1>2. Agrees(d) /\ d.enabled
  <2>1. o \in Outcomes
    BY OutcomeFits
  <2> HIDE DEF o
  <2> QED
    BY <2>1, MountedAgrees
<1>3. d \in Records /\ d.enabled = TRUE
  BY <1>2 DEF Agrees, Records
<1>4. rooted' \in SUBSET RtServices
  BY <1>1 DEF RtIInv, RtTypeOK, RtServices, Gives
<1> HIDE DEF d
<1> QED
  BY <1>1, <1>2, <1>3, <1>4 DEF SetsTo

LEMMA StaysSet ==
  ASSUME RtIInv, NEW p \in RtPlugins, record[p].enabled, UNCHANGED <<record, rooted>>
  PROVE  SetsTo(p, TRUE)
<1>1. /\ record \in [RtPlugins -> Records] /\ rooted \in SUBSET RtServices
      /\ Agrees(record[p])
  BY DEF RtIInv, RtTypeOK, RecordsKept
<1>2. record' = [record EXCEPT ![p] = record[p]] /\ record[p] \in Records
  BY <1>1
<1>3. record[p].enabled = TRUE
  BY <1>2 DEF Records
<1> QED
  BY <1>1, <1>2, <1>3 DEF SetsTo

LEMMA SwitchOnSets ==
  ASSUME RtIInv, NEW p \in RtPlugins, NEW r, NEW x \in Behaviours, SwitchOn(p, r, x),
         \/ r = record[p]
         \/ runtime.started /\ ~record[p].fiber /\ r = ResetForManualMount(record[p])
  PROVE  SetsTo(p, TRUE)
<1>1. /\ record \in [RtPlugins -> Records] /\ rooted \in SUBSET RtServices
      /\ Agrees(record[p]) /\ record[p] \in Records
  BY DEF RtIInv, RtTypeOK, RecordsKept
<1>2. r \in Records /\ (r.fiber <=> record[p].fiber)
  BY <1>1, ResetFits
<1>3. CASE ~runtime.started
  <2> DEFINE d == Prepared(r)
  <2>1. record' = [record EXCEPT ![p] = d] /\ rooted' = rooted
    BY <1>3 DEF SwitchOn
  <2>2. Agrees(d) /\ d.enabled
    BY <1>1, <1>3, PreparedAgrees
  <2>3. d \in Records /\ d.enabled = TRUE
    BY <2>2 DEF Agrees, Records
  <2> HIDE DEF d
  <2> QED
    BY <1>1, <2>1, <2>2, <2>3 DEF SetsTo
<1>4. CASE runtime.started /\ r.fiber
  <2>1. UNCHANGED <<record, rooted>>
    BY <1>4 DEF SwitchOn
  <2>2. record[p].enabled
    BY <1>1, <1>2, <1>4 DEF Agrees
  <2> QED
    BY <2>1, <2>2, StaysSet
<1>5. CASE runtime.started /\ ~r.fiber
  <2>1. Mounts(p, r, x)
    BY <1>5 DEF SwitchOn
  <2> QED
    BY <1>2, <1>5, <2>1, MountsSets
<1> QED
  BY <1>3, <1>4, <1>5

LEMMA SwitchOffSets ==
  ASSUME RtIInv, NEW p \in RtPlugins, NEW clean \in BOOLEAN, SwitchOff(p, clean)
  PROVE  SetsTo(p, FALSE)
<1> DEFINE r == record[p]
           d == IF runtime.started \/ r.fiber THEN UnmountIndex(r, clean) ELSE Deactivated(r)
<1>1. r \in Records /\ record \in [RtPlugins -> Records] /\ rooted \in SUBSET RtServices
  BY DEF RtIInv, RtTypeOK
<1>2. record' = [record EXCEPT ![p] = d] /\ rooted' = rooted
  BY <1>1 DEF SwitchOff
<1>3. Agrees(d) /\ ~d.enabled
  <2> HIDE DEF r
  <2> QED
    BY <1>1, UnmountedAgrees, DeactivatedAgrees
<1>4. d \in Records /\ d.enabled = FALSE
  BY <1>3 DEF Agrees, Records
<1> HIDE DEF d
<1> QED
  BY <1>1, <1>2, <1>3, <1>4 DEF SetsTo

LEMMA OneSwitchKeeps ==
  ASSUME RtIInv, ~runtime.closed, NEW p \in RtPlugins, NEW on \in BOOLEAN, SetsTo(p, on),
         UNCHANGED <<manifest, needs, runtime>>, ~report'.made,
         NEW v \in {"none", "on", "off"},
         overrides' = [overrides EXCEPT ![p] = v] \/ (overrides' = overrides /\ v = overrides[p]),
         on = (\/ IsRequired(manifest[p].role)
               \/ IF v = "none" THEN ResolvesToEnabled(manifest[p]) ELSE v = "on")
  PROVE  RtIInv'
<1>1. /\ overrides \in [RtPlugins -> {"none", "on", "off"}] /\ record \in [RtPlugins -> Records]
      /\ RtTypeOK /\ RecordsKept
  BY DEF RtIInv, RtTypeOK
<1>2. PICK d \in Records : Agrees(d) /\ d.enabled = on /\ record' = [record EXCEPT ![p] = d]
  BY DEF SetsTo
<1>3. /\ record' \in [RtPlugins -> Records] /\ record'[p] = d
      /\ \A q \in RtPlugins \ {p} : record'[q] = record[q]
  BY <1>1, <1>2
<1>4. /\ overrides' \in [RtPlugins -> {"none", "on", "off"}] /\ overrides'[p] = v
      /\ \A q \in RtPlugins \ {p} : overrides'[q] = overrides[q]
  BY <1>1
<1>5. EffectiveEnabled(p)' = on /\ \A q \in RtPlugins \ {p} : EffectiveEnabled(q)' = EffectiveEnabled(q)
  <2>1. EffectiveEnabled(p)' = on
    BY <1>4 DEF EffectiveEnabled, IsRequired, ResolvesToEnabled
  <2>2. ASSUME NEW q \in RtPlugins \ {p} PROVE EffectiveEnabled(q)' = EffectiveEnabled(q)
    BY <1>4, <2>2 DEF EffectiveEnabled
  <2> QED
    BY <2>1, <2>2
<1>6. RtTypeOK'
  BY <1>1, <1>3, <1>4 DEF RtTypeOK, RtServices, SetsTo
<1>7. RecordsKept'
  BY <1>1, <1>2, <1>3, <1>5 DEF RecordsKept
<1>8. StartupIsOrderFree'
  BY DEF StartupIsOrderFree
<1> QED
  BY <1>6, <1>7, <1>8 DEF RtIInv

LEMMA MountKeeps ==
  ASSUME RtIInv, NEW p \in RtPlugins, NEW x \in Behaviours, MountPlugin(p, x)
  PROVE  RtIInv'
<1>1. /\ overrides \in [RtPlugins -> {"none", "on", "off"}] /\ Agrees(record[p])
      /\ record[p] \in Records
  BY DEF RtIInv, RtTypeOK, RecordsKept
<1>2. SetsTo(p, TRUE)
  <2>1. CASE record[p].fiber
    BY <1>1, <2>1, StaysSet DEF MountPlugin, Agrees
  <2>2. CASE ~record[p].fiber
    <3>1. Mounts(p, ResetForManualMount(record[p]), x)
      BY <2>2 DEF MountPlugin
    <3> QED
      BY <1>1, <2>2, <3>1, ResetFits, MountsSets
  <2> QED
    BY <2>1, <2>2
<1> DEFINE v == IF IsRequired(manifest[p].role) THEN overrides[p] ELSE "on"
<1>3. /\ ~runtime.closed /\ UNCHANGED <<manifest, needs, runtime>> /\ ~report'.made
  BY DEF MountPlugin, Call
<1>4. v \in {"none", "on", "off"}
  BY <1>1
<1>5. overrides' = [overrides EXCEPT ![p] = v] \/ (overrides' = overrides /\ v = overrides[p])
  BY DEF MountPlugin
<1>6. \/ IsRequired(manifest[p].role)
      \/ IF v = "none" THEN ResolvesToEnabled(manifest[p]) ELSE v = "on"
  OBVIOUS
<1> HIDE DEF v
<1> QED
  BY <1>2, <1>3, <1>4, <1>5, <1>6, OneSwitchKeeps

LEMMA SetEnabledKeeps ==
  ASSUME RtIInv, NEW p \in RtPlugins, NEW on \in BOOLEAN, NEW x \in Behaviours,
         NEW clean \in BOOLEAN, SetEnabled(p, on, x, clean)
  PROVE  RtIInv'
<1> DEFINE v == IF on THEN "on" ELSE "off"
<1>1. /\ ~runtime.closed /\ UNCHANGED <<manifest, needs, runtime>> /\ ~report'.made
      /\ overrides' = [overrides EXCEPT ![p] = v] /\ v \in {"none", "on", "off"}
      /\ on \/ ~IsRequired(manifest[p].role)
  BY DEF SetEnabled, Call
<1>2. SetsTo(p, on)
  <2>1. CASE on
    <3> DEFINE r == IF runtime.started /\ ~record[p].fiber
                      THEN ResetForManualMount(record[p]) ELSE record[p]
    <3>1. SwitchOn(p, r, x)
      BY <2>1 DEF SetEnabled
    <3>2. \/ r = record[p]
          \/ runtime.started /\ ~record[p].fiber /\ r = ResetForManualMount(record[p])
      OBVIOUS
    <3> HIDE DEF r
    <3>3. SetsTo(p, TRUE)
      BY <3>1, <3>2, SwitchOnSets
    <3>4. on = TRUE
      BY <2>1
    <3> QED
      BY <3>3, <3>4
  <2>2. CASE ~on
    <3>1. SetsTo(p, FALSE)
      BY <2>2, SwitchOffSets DEF SetEnabled
    <3>2. on = FALSE
      BY <2>2
    <3> QED
      BY <3>1, <3>2
  <2> QED
    BY <2>1, <2>2
<1>3. on = (\/ IsRequired(manifest[p].role)
            \/ IF v = "none" THEN ResolvesToEnabled(manifest[p]) ELSE v = "on")
  BY <1>1 DEF IsRequired
<1> HIDE DEF v
<1> QED
  BY <1>1, <1>2, <1>3, OneSwitchKeeps

LEMMA ClearOverrideKeeps ==
  ASSUME RtIInv, NEW p \in RtPlugins, NEW x \in Behaviours, NEW clean \in BOOLEAN,
         ClearOverride(p, x, clean)
  PROVE  RtIInv'
<1>1. /\ ~runtime.closed /\ UNCHANGED <<manifest, needs, runtime>> /\ ~report'.made
      /\ overrides' = [overrides EXCEPT ![p] = "none"]
  BY DEF ClearOverride, Call
<1> DEFINE on == IsRequired(manifest[p].role) \/ ResolvesToEnabled(manifest[p])
<1>2. SetsTo(p, on)
  <2>1. CASE IsRequired(manifest[p].role)
    <3>1. record[p].enabled = EffectiveEnabled(p) /\ EffectiveEnabled(p)
      BY <1>1, <2>1 DEF RtIInv, RecordsKept, EffectiveEnabled
    <3>2. SetsTo(p, TRUE)
      BY <2>1, <3>1, StaysSet DEF ClearOverride
    <3>3. on = TRUE
      BY <2>1 DEF IsRequired
    <3> QED
      BY <3>2, <3>3
  <2>2. CASE ~IsRequired(manifest[p].role) /\ ResolvesToEnabled(manifest[p])
    <3>1. SetsTo(p, TRUE)
      BY <2>2, SwitchOnSets DEF ClearOverride
    <3>2. on = TRUE
      BY <2>2 DEF IsRequired, ResolvesToEnabled
    <3> QED
      BY <3>1, <3>2
  <2>3. CASE ~IsRequired(manifest[p].role) /\ ~ResolvesToEnabled(manifest[p])
    <3>1. SetsTo(p, FALSE)
      BY <2>3, SwitchOffSets DEF ClearOverride
    <3>2. on = FALSE
      BY <2>3
    <3> QED
      BY <3>1, <3>2
  <2> QED
    BY <2>1, <2>2, <2>3
<1>3. on \in BOOLEAN
  BY DEF IsRequired
<1>4. on = (\/ IsRequired(manifest[p].role)
            \/ IF "none" = "none" THEN ResolvesToEnabled(manifest[p]) ELSE "none" = "on")
  OBVIOUS
<1> HIDE DEF on
<1> QED
  BY <1>1, <1>2, <1>3, <1>4, OneSwitchKeeps

LEMMA ShutdownKeeps ==
  ASSUME RtIInv, NEW clean \in BOOLEAN, RtShutdown(clean)
  PROVE  RtIInv'
<1>1. RtTypeOK /\ record \in [RtPlugins -> Records]
  BY DEF RtIInv, RtTypeOK
<1>2. /\ runtime' = [started |-> FALSE, closed |-> TRUE] /\ rooted' = {} /\ ~report'.made
      /\ UNCHANGED <<manifest, needs, overrides>>
  BY DEF RtShutdown, Call
<1>3. ASSUME NEW p \in RtPlugins PROVE Agrees(record'[p]) /\ ~record'[p].fiber
  <2>1. record'[p] = IF record[p].fiber THEN UnmountIndex(record[p], clean)
                     ELSE Deactivated(record[p])
    BY <1>3 DEF RtShutdown
  <2>2. record[p] \in Records
    BY <1>1, <1>3
  <2> QED
    BY <2>1, <2>2, UnmountedAgrees, DeactivatedAgrees
<1>4. record' \in [RtPlugins -> Records]
  <2>1. \A p \in RtPlugins : record'[p] \in Records
    BY <1>3 DEF Agrees
  <2>2. record' = [p \in RtPlugins |-> record'[p]]
    BY DEF RtShutdown
  <2> QED
    BY <2>1, <2>2
<1>5. RtTypeOK'
  BY <1>1, <1>2, <1>4 DEF RtTypeOK, RtServices
<1>6. RecordsKept'
  BY <1>2, <1>3 DEF RecordsKept
<1>7. StartupIsOrderFree'
  BY <1>2 DEF StartupIsOrderFree
<1> QED
  BY <1>5, <1>6, <1>7 DEF RtIInv

LEMMA ProvideKeeps ==
  ASSUME RtIInv, NEW s \in RootServices, ProvideAtRoot(s)
  PROVE  RtIInv'
<1>1. /\ UNCHANGED <<manifest, needs, record, overrides, runtime>> /\ ~report'.made
      /\ rooted' = rooted \cup {s}
  BY DEF ProvideAtRoot, Call
<1>2. RtTypeOK'
  BY <1>1 DEF RtIInv, RtTypeOK, RtServices
<1>3. RecordsKept'
  BY <1>1 DEF RtIInv, RecordsKept, EffectiveEnabled
<1>4. StartupIsOrderFree'
  BY <1>1 DEF StartupIsOrderFree
<1> QED
  BY <1>2, <1>3, <1>4 DEF RtIInv

LEMMA RtStutterKeeps ==
  ASSUME RtIInv, UNCHANGED rtVars
  PROVE  RtIInv'
<1>1. RtTypeOK'
  BY DEF RtIInv, RtTypeOK, rtVars, RtServices
<1>2. RecordsKept'
  BY DEF RtIInv, RecordsKept, rtVars, EffectiveEnabled
<1>3. StartupIsOrderFree'
  BY DEF RtIInv, StartupIsOrderFree, rtVars
<1> QED
  BY <1>1, <1>2, <1>3 DEF RtIInv

LEMMA RtNextKeeps == RtIInv /\ [RtNext]_rtVars => RtIInv'
<1> SUFFICES ASSUME RtIInv, [RtNext]_rtVars PROVE RtIInv'
  OBVIOUS
<1>1. ASSUME NEW b \in [RtPlugins -> Behaviours], NEW clean \in BOOLEAN, StartDefault(b, clean)
      PROVE  RtIInv'
  BY <1>1, StartKeeps
<1>2. ASSUME NEW p \in RtPlugins, NEW x \in Behaviours, MountPlugin(p, x) PROVE RtIInv'
  BY <1>2, MountKeeps
<1>3. ASSUME NEW p \in RtPlugins, NEW x \in Behaviours, NEW clean \in BOOLEAN,
             NEW on \in BOOLEAN, SetEnabled(p, on, x, clean)
      PROVE  RtIInv'
  BY <1>3, SetEnabledKeeps
<1>4. ASSUME NEW p \in RtPlugins, NEW x \in Behaviours, NEW clean \in BOOLEAN,
             ClearOverride(p, x, clean)
      PROVE  RtIInv'
  BY <1>4, ClearOverrideKeeps
<1>5. ASSUME NEW s \in RootServices, ProvideAtRoot(s) PROVE RtIInv'
  BY <1>5, ProvideKeeps
<1>6. ASSUME NEW clean \in BOOLEAN, RtShutdown(clean) PROVE RtIInv'
  BY <1>6, ShutdownKeeps
<1>7. CASE UNCHANGED rtVars
  BY <1>7, RtStutterKeeps
<1> QED
  BY <1>1, <1>2, <1>3, <1>4, <1>5, <1>6, <1>7 DEF RtNext, RtClosed

LEMMA RtIsInvariant == RtSpec => []RtIInv
<1>1. RtInit => RtIInv
  BY RtInitInv
<1>2. RtIInv /\ [RtNext]_rtVars => RtIInv'
  BY RtNextKeeps
<1> QED
  BY <1>1, <1>2, PTL DEF RtSpec

(* For any registry, manifests and needs, and whatever plugins do when     *)
(* they are mounted: what the runtime shows of a plugin agrees with the    *)
(* switch and with the fiber after any calls and failures, and a start     *)
(* mounts exactly the least set of wanted plugins that is closed under     *)
(* what they give and need, in whichever order they are registered.        *)
THEOREM RuntimeStaysSound == RtSpec => []RuntimeIsSound
<1>1. RtIInv => RuntimeIsSound
  BY RecordsKeptAgree DEF RtIInv, RuntimeIsSound
<1> QED
  BY <1>1, RtIsInvariant, PTL
=============================================================================
