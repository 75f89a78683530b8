------------------------------- MODULE GoCall -------------------------------
(***************************************************************************)
(* The way the toolkit's sequential tools run.  A tool is a Go function    *)
(* that calls others; any external command or file operation may fail; an  *)
(* error is returned by every caller that does not handle it; deferred     *)
(* calls run in reverse order when their function returns.                 *)
(*                                                                         *)
(* What the tools hold while they run (mounts, loop devices, directories,  *)
(* chroots) is the state.  A function of the program is a sequence of the  *)
(* instructions below, so that its order, its early returns, its deferred  *)
(* calls and the errors it drops are those of the code.                    *)
(***************************************************************************)
EXTENDS Naturals, Sequences, FiniteSets, TLC

CONSTANTS
    MaxFaults,          \* bound: how many steps fail in one run of a tool
    Watched             \* the steps whose failure is told apart

ASSUME MaxFaultsAssumption == MaxFaults \in Nat

VARIABLES
    tool,               \* which tool runs, with its configuration
    stack,              \* the calls, innermost first
    held,               \* what is held, each with what it rests on
    stuck,              \* what a failed release or removal left behind
    sealed,             \* contents that must not change any more
    failures,           \* the steps that failed, in order
    outcome             \* "running", "ok", "error", "panic"

goVars == <<tool, stack, held, stuck, sealed, failures, outcome>>
-----------------------------------------------------------------------------
(* Instructions.                                                           *)

Instr(op, at, r, rs, body, alt) ==
    [op |-> op, at |-> at, r |-> r, rs |-> rs, changes |-> {},
     body |-> body, alt |-> alt]

None == <<>>

\* A step that may fail, and what it works on.
Use(at, rs) == Instr("use", at, None, rs, <<>>, <<>>)

Step(at) == Use(at, {})

\* A step that writes some contents, and the moment from which a content must
\* stay as it is (a hash, a label or a copy of it has been taken).
Change(at, contents, rs) == [Use(at, rs) EXCEPT !.changes = contents]

Seal(contents) == [Instr("seal", "", None, {}, <<>>, <<>>) EXCEPT !.changes = contents]

\* r comes to rest on the members of rs; r is given back; a directory is
\* removed with whatever is reached through it.
Acquire(at, r, rs) == Instr("acquire", at, r, rs, <<>>, <<>>)

Release(at, r) == Instr("release", at, r, {}, <<>>, <<>>)

RemoveAll(at, r) == Instr("remove", at, r, {}, <<>>, <<>>)

\* if r is held { body }
IfHeld(r, body) == Instr("ifheld", "", r, {}, body, <<>>)

\* A branch on data that is not modelled.
Either(body, alt) == Instr("either", "", None, {}, body, alt)

\* err = f(); if err != nil { return err }
Call(body) == Instr("call", "return", None, {}, body, <<>>)

\* The error of f is logged or dropped.
Try(body) == Instr("call", "ignore", None, {}, body, <<>>)

\* if f() fails { alt }
OrElse(body, alt) == Instr("call", "else", None, {}, body, alt)

\* defer f(); defer func() { if err != nil { f() } }(); a deferred call whose
\* error becomes the function's.
Defer(body) == Instr("defer", "ignore", None, {}, body, <<>>)

DeferOnError(body) == Instr("defer", "onerror", None, {}, body, <<>>)

DeferJoin(body) == Instr("defer", "return", None, {}, body, <<>>)

\* return nil; return errors.New(...); panic(...)
Return == Instr("return", "", None, {}, <<>>, <<>>)

Raise == Instr("raise", "error", None, {}, <<>>, <<>>)

PanicNow == Instr("raise", "panic", None, {}, <<>>, <<>>)

\* os.Exit(1)
Exit == Instr("exit", "", None, {}, <<>>, <<>>)

When(cond, body) == IF cond THEN body ELSE <<>>

\* The bodies of a loop one after the other.
ForEach(s, Body(_)) ==
    LET upTo[k \in 0..Len(s)] ==
            IF k = 0 THEN <<>> ELSE upTo[k - 1] \o Body(s[k])
    IN upTo[Len(s)]

Reversed(s) == [i \in 1..Len(s) |-> s[Len(s) + 1 - i]]

\* Every body runs; one that fails makes the function fail once all have run.
JoinErrors(bodies) ==
    LET n == Len(bodies)
        tries(k) == ForEach(SubSeq(bodies, k, n), LAMBDA b : <<Try(b)>>)
    IN ForEach([k \in 1..n |-> OrElse(bodies[k], tries(k + 1) \o <<Raise>>)],
               LAMBDA i : <<i>>)
-----------------------------------------------------------------------------
(* Execution.                                                              *)

Frame(body, fate, alt) ==
    [todo |-> body, defers |-> <<>>, err |-> "nil", fate |-> fate, alt |-> alt]

Top == Head(stack)

Running == outcome = "running"

At(op) == Running /\ Top.todo # <<>> /\ Head(Top.todo).op = op

Next1 == Head(Top.todo)

Rest == [Top EXCEPT !.todo = Tail(@)]

Advance == stack' = <<Rest>> \o Tail(stack)

Holding(f) == [r \in DOMAIN held \cup DOMAIN f |->
                  IF r \in DOMAIN f THEN f[r] ELSE held[r]]

Without(r) == [s \in DOMAIN held \ {r} |-> held[s]]

Keep == UNCHANGED <<tool, held, stuck, sealed, failures, outcome>>

\* The function returns err; its deferred calls are still to run.
Give(err) == stack' = <<[Top EXCEPT !.todo = <<>>, !.err = err]>> \o Tail(stack)

DoUse == At("use") /\ Advance /\ Keep

DoSeal ==
    /\ At("seal")
    /\ sealed' = sealed \cup Next1.changes
    /\ Advance
    /\ UNCHANGED <<tool, held, stuck, failures, outcome>>

DoAcquire ==
    /\ At("acquire")
    /\ held' = Holding(Next1.r :> Next1.rs)
    /\ Advance
    /\ UNCHANGED <<tool, stuck, sealed, failures, outcome>>

\* Giving back what is not held fails: umount or losetup -d report an error.
DoRelease ==
    /\ At("release")
    /\ IF Next1.r \in DOMAIN held THEN Advance ELSE Give("error")
    /\ held' = Without(Next1.r)
    /\ UNCHANGED <<tool, stuck, sealed, failures, outcome>>

\* Removing a directory that is not there is no error.
DoRemove ==
    /\ At("remove")
    /\ held' = Without(Next1.r)
    /\ Advance
    /\ UNCHANGED <<tool, stuck, sealed, failures, outcome>>

Insert(body) == stack' = <<[Rest EXCEPT !.todo = body \o @]>> \o Tail(stack)

DoIfHeld ==
    /\ At("ifheld")
    /\ IF Next1.r \in DOMAIN held THEN Insert(Next1.body) ELSE Advance
    /\ Keep

DoEither ==
    /\ At("either")
    /\ Insert(Next1.body) \/ Insert(Next1.alt)
    /\ Keep

DoCall ==
    /\ At("call")
    /\ stack' = <<Frame(Next1.body, Next1.at, Next1.alt), Rest>> \o Tail(stack)
    /\ Keep

DoDefer ==
    /\ At("defer")
    /\ stack' = <<[Rest EXCEPT !.defers = <<Next1>> \o @]>> \o Tail(stack)
    /\ Keep

DoReturn == At("return") /\ Give("nil") /\ Keep

DoRaise == At("raise") /\ Give(Next1.at) /\ Keep

\* The process ends at once; no deferred call runs.
DoExit ==
    /\ At("exit")
    /\ outcome' = "error" /\ stack' = <<>>
    /\ UNCHANGED <<tool, held, stuck, sealed, failures>>

\* The command or file operation reports an error.
StepFails ==
    /\ Running /\ Top.todo # <<>>
    /\ Next1.op \in {"use", "acquire", "release", "remove"}
    /\ Next1.at # ""
    /\ Next1.op = "remove" => Next1.r \in DOMAIN held
    /\ Len(failures) < MaxFaults
    /\ failures' = Append(failures,
                          IF Next1.at \in Watched THEN Next1.at ELSE "step")
    /\ stuck' = IF Next1.op \in {"release", "remove"}
                THEN stuck \cup ({Next1.r} \cap DOMAIN held)
                ELSE stuck
    /\ Give("error")
    /\ UNCHANGED <<tool, held, sealed, outcome>>

\* The last deferred call that has not run yet.
RunDeferred ==
    /\ Running /\ Top.todo = <<>> /\ Top.defers # <<>>
    /\ LET d == Head(Top.defers)
           caller == [Top EXCEPT !.defers = Tail(@)]
       IN stack' = IF d.at = "onerror" /\ Top.err = "nil"
                   THEN <<caller>> \o Tail(stack)
                   ELSE <<Frame(d.body, IF d.at = "onerror" THEN "ignore" ELSE d.at, <<>>),
                          caller>> \o Tail(stack)
    /\ Keep

\* A panic passes every caller; an error passes those that return it.
ReturnToCaller ==
    /\ Running /\ Top.todo = <<>> /\ Top.defers = <<>>
    /\ Len(stack) > 1
    /\ LET caller == stack[2]
           failed == \/ Top.err = "panic"
                     \/ Top.err = "error" /\ Top.fate = "return"
           todo == IF failed THEN <<>>
                   ELSE IF Top.err = "error" /\ Top.fate = "else"
                   THEN Top.alt \o caller.todo
                   ELSE caller.todo
           err == IF failed THEN Top.err ELSE caller.err
       IN stack' = <<[caller EXCEPT !.todo = todo, !.err = err]>>
                   \o SubSeq(stack, 3, Len(stack))
    /\ Keep

Finish ==
    /\ Running /\ Top.todo = <<>> /\ Top.defers = <<>>
    /\ Len(stack) = 1
    /\ outcome' = IF Top.err = "nil" THEN "ok" ELSE Top.err
    /\ stack' = <<>>
    /\ UNCHANGED <<tool, held, stuck, sealed, failures>>

Terminated == ~Running /\ UNCHANGED goVars

GoNext ==
    \/ DoUse \/ DoSeal \/ DoAcquire \/ DoRelease \/ DoRemove
    \/ DoIfHeld \/ DoEither \/ DoCall \/ DoDefer \/ DoReturn \/ DoRaise \/ DoExit
    \/ StepFails \/ RunDeferred \/ ReturnToCaller \/ Finish
    \/ Terminated

Start(t, body) ==
    /\ tool = t
    /\ stack = <<Frame(body, "return", <<>>)>>
    /\ held = <<>>
    /\ stuck = {} /\ sealed = {} /\ failures = <<>>
    /\ outcome = "running"
=============================================================================
