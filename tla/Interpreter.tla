----------------------------- MODULE Interpreter -----------------------------
(***************************************************************************)
(* The bytecode interpreter on the coroutine of the main task              *)
(* (lyric_runtime): calls, returns, exceptions, and the places where an    *)
(* instruction enters the interpreter again.                               *)
(*                                                                         *)
(* A coroutine has a stack of calls and a stack of operands that the calls *)
(* share: each call notes how many operands there were, its stack guard.   *)
(* To load a static or an instance for the first time, the interpreter     *)
(* pushes the call of its initializer and runs a second interpreter loop   *)
(* in C++, which must end when that call returns. What tells it is the     *)
(* stack of guards: the depth of the call stack at each entry.             *)
(*                                                                         *)
(* A program is any sequence of instructions that the compiler may emit:   *)
(* an instruction takes no operand below the guard of its call, a function *)
(* that returns a value has one, and code ends in a return or a raise. The *)
(* operand of an instruction is not looked at, only where it comes from.   *)
(***************************************************************************)
EXTENDS Integers, FiniteSets, SequencesExt

CONSTANTS
    Main, Functions, Constructors,   \* procs
    Statics, Instances,
    Variables,          \* the statics that a program may assign to
    Initializer,        \* static or instance -> its proc
    Size,               \* proc -> number of instructions
    SegmentOf,          \* proc -> segment
    Checks,             \* proc -> its exception checks, in order
    Exceptions,
    MAX_INTERPRETER_RECURSION,
    None

CONSTANTS MaxCalls, MaxOperands      \* bounds of the model

Procs == {Main} \cup Functions \cup Constructors

\* What a program calls: not the initializers of its statics.
Callable == {p \in Functions : \A s \in Statics : p # Initializer[s]}

\* Whether the proc is declared to return a value. A constructor is not.
Returns(p) == p \notin Constructors

ASSUME InterpreterAssumption ==
    /\ Variables \subseteq Statics
    /\ Initializer \in [Statics \cup Instances -> Functions \cup Constructors]
    /\ \A s \in Statics : Initializer[s] \in Functions
    /\ \A i \in Instances : Initializer[i] \in Constructors
    /\ Functions \cap Constructors = {}
    /\ MAX_INTERPRETER_RECURSION \in Nat \ {0}
    /\ Checks \in [Procs -> Seq([from : Nat, to : Nat, catch : Nat, catches : SUBSET Exceptions])]
    /\ \A p \in Procs : \A c \in ToSet(Checks[p]) :
          1 <= c.from /\ c.from < c.to /\ c.to <= c.catch /\ c.catch <= Size[p]

VARIABLES
    calls,     \* the call stack: proc, return offset, guard, what it returns
    ip,        \* the offset of the next instruction, 0 when there is none
    data,      \* the operand stack: for each operand the proc it comes from,
               \* the depth of the call it belongs to, what it is
    guards,    \* the guard stack of the coroutine
    natives,   \* what each active runSubinterpreter was entered for
    cells,     \* static or instance -> the operand it holds
    status     \* running, halted, error

vars == <<calls, ip, data, guards, natives, cells, status>>

Depth == Len(calls)
Proc == Last(calls).proc

Operand(kind) == [from |-> Proc, depth |-> Depth, kind |-> kind]

Frame(p, returnIP, returns, stackGuard) ==
    [proc |-> p, returnIP |-> returnIP, returns |-> returns, guard |-> stackGuard]

\* load of the entry point, and the first runSubinterpreter.
Init ==
    /\ calls = <<Frame(Main, 0, TRUE, 0)>>
    /\ ip = 1
    /\ data = << >>
    /\ guards = <<1>>
    /\ natives = <<Main>>
    /\ cells = [c \in Statics \cup Instances |-> None]
    /\ status = "running"

\* checkGuard.
CheckGuard == guards = << >> \/ Last(guards) <= Depth

\* An instruction runs when the loop has passed its checks.
Executing == status = "running" /\ CheckGuard /\ ip # 0

\* The last instruction of a proc returns or raises.
Inner == Executing /\ ip < Size[Proc]

\* A literal, an argument or a local is loaded.
Push ==
    /\ Inner
    /\ Len(data) < MaxOperands
    /\ data' = Append(data, Operand("value"))
    /\ ip' = ip + 1
    /\ UNCHANGED <<calls, guards, natives, cells, status>>

\* The top operand is dropped, decides a branch, or is stored in an argument, a
\* local or a lexical of the call.
Pop ==
    /\ Inner
    /\ Len(data) > Last(calls).guard
    /\ data' = Front(data)
    /\ ip' = ip + 1
    /\ UNCHANGED <<calls, guards, natives, cells, status>>

-----------------------------------------------------------------------------
(* Calls.                                                                  *)

\* Mutant: the guard is taken before the arguments are popped.
CallBeforeArguments(p, placement) ==
    /\ Inner
    /\ Depth < MaxCalls
    /\ Len(data) - placement >= Last(calls).guard
    /\ data' = SubSeq(data, 1, Len(data) - placement)
    /\ calls' = Append(calls, Frame(p, ip + 1, Returns(p), Len(data)))
    /\ ip' = 1
    /\ UNCHANGED <<guards, natives, cells, status>>

\* OP_CALL_STATIC and its kin: the arguments are popped, then the guard is taken.
Call(p, placement) ==
    /\ Inner
    /\ Depth < MaxCalls
    /\ Len(data) - placement >= Last(calls).guard
    /\ data' = SubSeq(data, 1, Len(data) - placement)
    /\ calls' = Append(calls, Frame(p, ip + 1, Returns(p), Len(data')))
    /\ ip' = 1
    /\ UNCHANGED <<guards, natives, cells, status>>

\* The call of a constructor on a new object, which stays below its guard. The
\* frame is one that returns a value, whatever the constructor is declared as.
Construct(p) ==
    /\ Depth < MaxCalls
    /\ Len(data) < MaxOperands
    /\ data' = Append(data, Operand("ref"))
    /\ calls' = Append(calls, Frame(p, ip + 1, TRUE, Len(data')))
    /\ ip' = 1

\* construct_new: OP_NEW of a class runs the constructor in this loop.
New(p) ==
    /\ Inner
    /\ Construct(p)
    /\ UNCHANGED <<guards, natives, cells, status>>

\* Mutant: the guard is taken before the call is pushed.
ReenterBeforeCall(c) ==
    /\ guards' = Append(guards, Depth)
    /\ natives' = Append(natives, c)
    /\ UNCHANGED status

\* runSubinterpreter is entered for cell c: the new call is guarded, unless the
\* recursion is too deep.
Reenter(c) ==
    IF Len(natives) < MAX_INTERPRETER_RECURSION
    THEN /\ guards' = Append(guards, Len(calls'))
         /\ natives' = Append(natives, c)
         /\ UNCHANGED status
    ELSE /\ status' = "error"
         /\ UNCHANGED <<guards, natives>>

\* LOAD_STATIC, and the load of an instance or enum, of a cell that is set.
LoadCell(c) ==
    /\ Inner
    /\ cells[c] # None
    /\ Len(data) < MaxOperands
    /\ data' = Append(data, Operand(cells[c].kind))
    /\ ip' = ip + 1
    /\ UNCHANGED <<calls, guards, natives, cells, status>>

\* STORE_STATIC: the cell of a variable is overwritten, also one that is not set
\* yet, or whose initializer is running: then what it returns overwrites this.
StoreStatic(s) ==
    /\ Inner
    /\ Len(data) > Last(calls).guard
    /\ data' = Front(data)
    /\ cells' = [cells EXCEPT ![s] = Last(data)]
    /\ ip' = ip + 1
    /\ UNCHANGED <<calls, guards, natives, status>>

\* initStatic.
InitStatic(s) ==
    /\ Inner
    /\ cells[s] = None
    /\ Depth < MaxCalls
    /\ calls' = Append(calls, Frame(Initializer[s], ip + 1, Returns(Initializer[s]), Len(data)))
    /\ ip' = 1
    /\ Reenter(s)
    /\ UNCHANGED <<data, cells>>

\* construct_instance and construct_enum.
InitInstance(i) ==
    /\ Inner
    /\ cells[i] = None
    /\ Construct(Initializer[i])
    /\ Reenter(i)
    /\ UNCHANGED cells

-----------------------------------------------------------------------------
(* Returns.                                                                *)

\* Mutant: leftover operands stay on the stack.
ReturnToCallerKeepsAll(m) ==
    LET frame == Last(m.calls)
    IN [calls |-> Front(m.calls), ip |-> frame.returnIP, data |-> m.data]

\* returnToCaller: what the call has left over is dropped, but for the topmost
\* operand when the call returns a value. From here on it is the caller's.
ReturnToCaller(m) ==
    LET frame == Last(m.calls)
        result == [Last(m.data) EXCEPT !.depth = Len(m.calls) - 1, !.from = frame.proc]
    IN [calls |-> Front(m.calls),
        ip |-> frame.returnIP,
        data |-> IF Len(m.data) <= frame.guard THEN m.data
                 ELSE SubSeq(m.data, 1, frame.guard)
                         \o (IF frame.returns THEN <<result>> ELSE << >>)]

Machine == [calls |-> calls, ip |-> ip, data |-> data]

\* Mutant: the loop ends with the first call that returns.
ReachedAnyGuard == Len(guards) > 1 \/ Last(guards) = Depth

\* The call that returns is the one the innermost loop was entered for.
ReachedGuard == Last(guards) = Depth

\* OP_RETURN. Where the main call has returned the program halts. Where a guard
\* was reached, runSubinterpreter returns the topmost operand to the load that
\* entered it, and the load sets the cell: a static to the result, an instance
\* to the object that the constructor was given, which is pushed again.
Return ==
    LET m == ReturnToCaller(Machine)
        c == Last(natives)
        popped == IF m.data = << >> THEN m.data ELSE Front(m.data)
        ref == [from |-> Last(m.calls).proc, depth |-> Len(m.calls), kind |-> "ref"]
        value == IF c \in Statics THEN Last(m.data) ELSE ref
    IN /\ Executing
       /\ Returns(Proc) => Len(data) > Last(calls).guard
       /\ calls' = m.calls
       /\ ip' = m.ip
       /\ guards' = IF ReachedGuard THEN Front(guards) ELSE guards
       /\ IF m.ip = 0
          THEN /\ status' = "halted"
               /\ data' = popped
               /\ UNCHANGED <<natives, cells>>
          ELSE /\ IF ReachedGuard
                  THEN /\ data' = Append(popped, value)
                       /\ cells' = [cells EXCEPT ![c] = value]
                       /\ natives' = Front(natives)
                  ELSE /\ data' = m.data
                       /\ UNCHANGED <<cells, natives>>
               /\ UNCHANGED status

-----------------------------------------------------------------------------
(* Exceptions.                                                             *)

\* The first check of proc p that covers the offset and catches e, or 0. The
\* offset is always that of the raise, in whichever proc p is.
Catching(p, e, offset) ==
    SelectInSeq(Checks[p], LAMBDA c : c.from <= offset /\ offset < c.to /\ e \in c.catches)

\* Where the search for a handler stops: a call that has one, an empty stack of
\* calls, or a call of another segment.
StopsSearch(m, e) ==
    \/ m.calls = << >>
    \/ SegmentOf[Last(m.calls).proc] # SegmentOf[Proc]
    \/ Catching(Last(m.calls).proc, e, ip) # 0

\* raise_exception: calls are returned from, the topmost first, until the search
\* stops. The guards are left as they are.
Unwound(e) ==
    LET after[n \in 0 .. Depth] ==
            IF n = 0 THEN [Machine EXCEPT !.data = Front(data)]
            ELSE IF StopsSearch(after[n - 1], e) THEN after[n - 1]
            ELSE ReturnToCaller(after[n - 1])
    IN after[Depth]

\* Without a handler the raise returns as if it had one, and the loop goes on to
\* its checks.
Raise(e) ==
    LET m == Unwound(e)
        handler == IF m.calls = << >> THEN 0 ELSE Catching(Last(m.calls).proc, e, ip)
    IN /\ Executing
       /\ Len(data) > Last(calls).guard
       /\ calls' = m.calls
       /\ data' = m.data
       /\ IF \/ m.calls = << >>
             \/ SegmentOf[Last(m.calls).proc] = SegmentOf[Proc]
          THEN /\ ip' = IF handler = 0 THEN m.ip ELSE Checks[Last(m.calls).proc][handler].catch
               /\ UNCHANGED status
          ELSE /\ ip' = m.ip
               /\ status' = "error"
       /\ UNCHANGED <<guards, natives, cells>>

\* "stack invariant violation" or "no instruction available": the error passes
\* through every runSubinterpreter and ends the program.
Fail ==
    /\ status = "running"
    /\ ~CheckGuard \/ ip = 0
    /\ status' = "error"
    /\ UNCHANGED <<calls, ip, data, guards, natives, cells>>

Next ==
    \/ Push
    \/ Pop
    \/ \E p \in Callable, placement \in 0 .. 1 : Call(p, placement)
    \/ \E p \in Constructors : New(p)
    \/ \E c \in Statics \cup Instances : LoadCell(c)
    \/ \E s \in Variables : StoreStatic(s)
    \/ \E s \in Statics : InitStatic(s)
    \/ \E i \in Instances : InitInstance(i)
    \/ Return
    \/ \E e \in Exceptions : Raise(e)
    \/ Fail

Spec == Init /\ [][Next]_vars

-----------------------------------------------------------------------------
(* Properties.                                                             *)

\* Every active runSubinterpreter has one guard, and the guard is the depth of
\* the call it was entered for, which is still on the stack: it ends when this
\* call returns, and not with one that this call has made. An exception that
\* leaves the call stops the program before another instruction runs.
GuardsAreEntries ==
    Executing =>
        /\ Len(guards) = Len(natives)
        /\ \A n \in DOMAIN guards :
              /\ guards[n] \in DOMAIN calls
              /\ calls[guards[n]].proc = IF n = 1 THEN Main ELSE Initializer[natives[n]]
        /\ \A n \in 2 .. Len(guards) : guards[n - 1] < guards[n]

\* The operands between the guards of two calls are those of the lower call: no
\* call, return, exception or initializer takes an operand of a call below, and
\* none leaves operands of a call that is gone.
OperandsBelongToCalls ==
    status = "running" =>
        \A n \in DOMAIN calls : \A k \in DOMAIN data :
            k <= calls[n].guard <=> data[k].depth < n

\* A static that is no variable holds what its initializer returned, whatever the
\* initializer has called, raised and caught, whichever cells it has initialized
\* and whatever it has assigned to variables; an instance holds the object itself.
CellsHoldTheirResult ==
    /\ \A s \in Statics \ Variables : cells[s] # None => cells[s].from = Initializer[s]
    /\ \A i \in Instances : cells[i] # None => cells[i].kind = "ref"

\* "otherwise return to caller and continue searching for a matching catch"
\* (raise_exception.cpp:81): what catches the exception in a caller is a check
\* around the call that has raised it.
HandlerCoversCall ==
    [][\A e \in Exceptions :
        (/\ Raise(e)
         /\ status' = "running"
         /\ calls' # << >>
         /\ Len(calls') < Depth
         /\ Catching(Last(calls').proc, e, ip) # 0) =>
             Catching(Last(calls').proc, e, calls[Len(calls') + 1].returnIP - 1) # 0]_vars
=============================================================================
