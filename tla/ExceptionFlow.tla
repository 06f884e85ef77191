----------------------------- MODULE ExceptionFlow -----------------------------
(***************************************************************************)
(* Exception handling in the interpreter (interp/interpreter.cpp): the     *)
(* global stack s_exception_flows, the opcodes that push and pop it, and   *)
(* the loop at unwind_exception_handler.                                   *)
(*                                                                         *)
(* A method is its table of exception clauses, innermost first, over a few *)
(* points of its code, and the `leave` instructions it has.  A point       *)
(* stands for a stretch of code that lies in the same regions: offsets     *)
(* matter to this code only through them.  A flow names its frame by the   *)
(* frame's address, and the address of a frame is its depth: the next call *)
(* from the same place reuses it.                                          *)
(***************************************************************************)
EXTENDS Integers, Sequences, FiniteSetsExt

CONSTANTS
  Method,
  Point,        \* code points; a method starts at point 0
  Clauses,      \* method -> its RtInterpExceptionClause table
  Leaves,       \* method -> its leave instructions, <<source, target>>
  Ex,           \* exceptions, one of each class that the clauses tell apart
  CallsBeforeTry,  \* whether a call may be the last instruction before a try
  MaxFrames     \* bound on the depth of calls

Clause ==
  [kind : {"catch", "filter", "finally", "fault"},
   try : SUBSET Point, handler : (SUBSET Point) \ {{}}, catches : SUBSET Ex]

Unwinds(c) == c.kind \in {"finally", "fault"}
Start(c) == Min(c.handler)

(* What Transformer::setup_exception_clauses demands of neighbouring       *)
(* clauses.                                                                *)
ProperlyNested(cs) ==
  \A i \in 2..Len(cs) :
    LET last == cs[i - 1]
        src == cs[i]
    IN /\ last.try \cap src.try = {} \/ last.try \subseteq src.try
       /\ \/ last.handler \cap src.handler = {}
          \/ last.handler \subseteq src.handler
          \/ src.handler \subseteq last.handler

Region(c) == c.try \cup c.handler

(* The clauses of lexically nested blocks, inner ones first: of two        *)
(* clauses either one lies in the try block or the handler of the other,   *)
(* or they are apart, or several handlers of one try block.                *)
WellNested(cs) ==
  /\ \A i \in 1..Len(cs) : 0 \notin cs[i].handler /\ cs[i].try \cap cs[i].handler = {}
  /\ \A j \in 1..Len(cs) : \A i \in 1..j - 1 :
       LET a == cs[i]
           b == cs[j]
       IN /\ Start(b) \notin a.handler
          /\ \/ Region(a) \cap Region(b) = {}
             \/ Region(a) \subseteq b.try
             \/ Region(a) \subseteq b.handler
             \/ /\ a.try = b.try /\ a.handler \cap b.handler = {}
                /\ a.kind \in {"catch", "filter"} /\ b.kind \in {"catch", "filter"}

(* setup_filter_checker pops no flows, a throw in the handler of a filter  *)
(* is dropped, and the search goes on behind it: the flows are right only  *)
(* if no other block lies in the handler, no handler in the try block, and *)
(* the filter is the last clause of its try block.                         *)
PlainFilters(cs) ==
  \A i \in 1..Len(cs) : cs[i].kind = "filter" =>
    \A j \in (1..Len(cs)) \ {i} :
      /\ cs[j].handler \cap cs[i].try = {}
      /\ cs[j].try \cap cs[i].handler = {}
      /\ j > i => cs[j].try # cs[i].try

ASSUME PointAssumption == Point \subseteq Nat /\ 0 \in Point
ASSUME ClausesAssumption ==
  /\ Clauses \in [Method -> Seq(Clause)]
  /\ Leaves \in [Method -> SUBSET (Point \X Point)]
  /\ \A m \in Method : ProperlyNested(Clauses[m])
ASSUME FramesAssumption == MaxFrames \in Nat \ {0} /\ CallsBeforeTry \in BOOLEAN

VARIABLES
  frames,       \* interpreter frames, innermost last
  flows,        \* s_exception_flows
  mode          \* "run", or "unwind" at unwind_exception_handler

vars == <<frames, flows, mode>>

--------------------------------------------------------------------------------
(* `native`: the frame was entered by Interpreter::execute, so leaving it  *)
(* ends that activation of execute.  While a call is in progress `ip` is   *)
(* where it will return to; `at`, which the code does not have, is where   *)
(* it was made.                                                            *)
Frame(m, native) == [m |-> m, ip |-> 0, at |-> 0, native |-> native]

Depth == Len(frames)
Cur == frames[Depth]
ip == Cur.ip
clauses == Clauses[Cur.m]
TopFlow == flows[Len(flows)]
PopFlow == SubSeq(flows, 1, Len(flows) - 1)
At(p) == [frames EXCEPT ![Depth].ip = p, ![Depth].at = p]

ThrowFlow(m, d, p, e) ==
  [throw |-> TRUE, m |-> m, frame |-> d, ip |-> p, ex |-> e, next |-> 1,
   cur |-> 0, handled |-> FALSE]
LeaveFlow(src, target, i, n) ==
  [throw |-> FALSE, m |-> Cur.m, frame |-> Depth, ip |-> src,
   target |-> target, next |-> i + 1, cur |-> i, remain |-> n]

(* The handler of the clause that a flow records. *)
CurHandler(f) == IF f.cur = 0 THEN {} ELSE Clauses[f.m][f.cur].handler

(* The longest prefix of s whose last flow satisfies Keep. *)
PrefixTo(s, Keep(_)) ==
  SubSeq(s, 1, Max({0} \cup {k \in 1..Len(s) : Keep(s[k])}))

(* Mutant: the flows of the handlers that were left stay. *)
PopOutscopeNone(s, d, p) == s

(* pop_outscope_flows *)
PopOutscope(s, d, p) ==
  LET Keep(f) == f.frame # d \/ p \in CurHandler(f) IN PrefixTo(s, Keep)

(* pop_all_flow_of_cur_frame_exclude_last, which leaves none. *)
PopFrameFlows(s, d) ==
  LET Keep(f) == f.frame # d IN PrefixTo(s, Keep)

(* is_in_filter_check_flow, for the frame at depth d. *)
InFilterCheck(s, d) ==
  /\ s # <<>>
  /\ LET f == s[Len(s)]
     IN f.throw /\ f.frame = d /\ f.cur # 0
        /\ ~f.handled /\ Clauses[f.m][f.cur].kind = "filter"

(* RAISE_RUNTIME_EXCEPTION and RAISE_RUNTIME_ERROR in the innermost frame  *)
(* of fr.  While a filter is thought to run the new exception is dropped.  *)
Raised(fr, s, e) ==
  LET d == Len(fr)
  IN IF InFilterCheck(s, d) THEN s
     ELSE Append(s, ThrowFlow(fr[d].m, d, fr[d].ip, e))
Raise(fr, s, e) ==
  /\ frames' = fr
  /\ flows' = Raised(fr, s, e)
  /\ mode' = "unwind"

Init == frames = <<>> /\ flows = <<>> /\ mode = "run"

--------------------------------------------------------------------------------
(* Regions of the clauses cs that contain the point p. *)
Trys(cs, p) == {i \in 1..Len(cs) : p \in cs[i].try}
Handlers(cs, p) == {i \in 1..Len(cs) : p \in cs[i].handler}

(* find_finally_clause_idx_of_leave_target *)
Finallys(cs, src, target) ==
  {i \in Trys(cs, src) \ Trys(cs, target) : cs[i].kind = "finally"}

(* get_leave_surrounding_block_type: the type that the last clause which   *)
(* the leave exits gives.                                                  *)
LeaveType(cs, src, target) ==
  LET trys == Trys(cs, src) \ Trys(cs, target)
      exited == {i \in trys \cup (Handlers(cs, src) \ Handlers(cs, target)) :
                   cs[i].kind # "fault"}
  IN IF exited = {} THEN "none"
     ELSE IF Max(exited) \in trys THEN "try" ELSE "catch"

(* Of the leaves that IL allows, which enter no handler and exit no        *)
(* finally or fault handler, those whose flows the code gets right.  A     *)
(* leave that exits a handler exits nothing around it (LeaveType sees the  *)
(* outermost clause only); as its flow is popped before the finally blocks *)
(* run, no clause it exits may catch what they throw; and since the flow   *)
(* of a leave keeps the name of the first finally block, nothing is caught *)
(* inside a later one.                                                     *)
PlainLeave(cs, src, target) ==
  LET trys == Trys(cs, src) \ Trys(cs, target)
      handlers == Handlers(cs, src) \ Handlers(cs, target)
      finallys == Finallys(cs, src, target)
  IN /\ Handlers(cs, target) \subseteq Handlers(cs, src)
     /\ \A h \in handlers :
          /\ cs[h].kind \in {"catch", "filter"}
          /\ \A i \in trys \cup handlers : cs[i].kind = "fault" \/ i <= h
          /\ \A i \in finallys, j \in trys : i < j => cs[j].kind # "catch"
     /\ \A i, k \in finallys, j \in 1..Len(cs) :
          k < i /\ cs[j].kind = "catch" => cs[j].try \cap cs[i].handler = {}

Plain(m) ==
  /\ WellNested(Clauses[m]) /\ PlainFilters(Clauses[m])
  /\ \A l \in Leaves[m] : PlainLeave(Clauses[m], l[1], l[2])

(* get_exception_in_last_throw_flow: its assertions. *)
LastThrowFlowIsMine ==
  /\ flows # <<>>
  /\ TopFlow.throw /\ TopFlow.frame = Depth
  /\ ip \in CurHandler(TopFlow)

(* find_exception_in_enclosing_throw_flow: the flow it stops at, 0 if none *)
EnclosingThrow ==
  LET stops == {k \in 1..Len(flows) :
                  flows[k].throw /\ (flows[k].frame # Depth \/ ip \in CurHandler(flows[k]))}
      k == Max({0} \cup stops)
  IN IF k # 0 /\ flows[k].frame = Depth THEN k ELSE 0

--------------------------------------------------------------------------------
(* The interpreter loop, mode "run".                                       *)
Running == mode = "run" /\ frames # <<>>

(* Code that runs on or branches: into a try region, never out of one, nor *)
(* into or out of a handler.                                               *)
MayGo(p) ==
  /\ Handlers(clauses, p) = Handlers(clauses, ip)
  /\ Trys(clauses, ip) \subseteq Trys(clauses, p)

(* The points of the instruction after a call.  The points of a method are *)
(* in the order of its code.                                               *)
NextIps ==
  {ip} \cup {p \in Point : CallsBeforeTry /\ p = ip + 1 /\ MayGo(p)}

(* ENTER_INTERP_FRAME saves the address of the next instruction, and so do *)
(* the opcodes that call a native function.                                *)
Calling(p) == [frames EXCEPT ![Depth].ip = p]

(* The innermost frame of fr goes on where its call returns.               *)
Resumed(fr) ==
  IF fr = <<>> THEN fr ELSE [fr EXCEPT ![Len(fr)].at = fr[Len(fr)].ip]

(* Native code calls Interpreter::execute: the host, or a native function  *)
(* that the innermost frame called.                                        *)
HostInvokes(m) ==
  /\ frames = <<>>
  /\ frames' = <<Frame(m, TRUE)>>
  /\ UNCHANGED <<flows, mode>>

NativeInvokes(m) ==
  /\ Running /\ Depth < MaxFrames
  /\ \E p \in NextIps : frames' = Append(Calling(p), Frame(m, TRUE))
  /\ UNCHANGED <<flows, mode>>

Call(m) ==
  /\ Running /\ Depth < MaxFrames
  /\ \E p \in NextIps : frames' = Append(Calling(p), Frame(m, FALSE))
  /\ UNCHANGED <<flows, mode>>

(* LEAVE_FRAME at a ret, which IL allows in no region. *)
Return ==
  /\ Running
  /\ Trys(clauses, ip) = {} /\ Handlers(clauses, ip) = {}
  /\ frames' = Resumed(SubSeq(frames, 1, Depth - 1))
  /\ UNCHANGED <<flows, mode>>

Step(p) ==
  /\ Running /\ p # ip /\ MayGo(p)
  /\ frames' = At(p)
  /\ UNCHANGED <<flows, mode>>

(* Throw, or an opcode that fails.  Left out: a virtual call, or a load of *)
(* a virtual function, whose lookup of the method fails (interpreter.cpp   *)
(* 2958, 3351, 5817, 6205) returns from execute with the error, and no     *)
(* handler of its frames runs.                                             *)
Throw(e) == Running /\ Raise(frames, flows, e)

(* Rethrow, which IL allows in a catch handler and in no finally or fault  *)
(* handler inside it.                                                      *)
InCatch ==
  /\ Handlers(clauses, ip) # {}
  /\ clauses[Min(Handlers(clauses, ip))].kind = "catch"
Rethrow ==
  /\ Running /\ InCatch
  /\ IF EnclosingThrow = 0
     THEN \E e \in Ex : Raise(frames, flows, e)      \* ExecutionEngine
     ELSE Raise(frames, flows, flows[EnclosingThrow].ex)

(* Leave as Transformer compiles it: a branch, LeaveTryWithFinally,        *)
(* LeaveCatchWithFinally or LeaveCatchWithoutFinally.                      *)
LeaveBranch(src, target) ==
  /\ LeaveType(clauses, src, target) # "catch"
  /\ Finallys(clauses, src, target) = {}
  /\ frames' = At(target)
  /\ UNCHANGED flows

RunFinallys(src, target, rest) ==
  LET F == Finallys(clauses, src, target)
      first == Min(F)
  IN /\ F # {}
     /\ frames' = At(Start(clauses[first]))
     /\ flows' = Append(rest, LeaveFlow(src, target, first, Cardinality(F) - 1))

LeaveTryWithFinally(src, target) ==
  /\ LeaveType(clauses, src, target) = "try"
  /\ RunFinallys(src, target, flows)

LeaveCatchWithFinally(src, target) ==
  /\ LeaveType(clauses, src, target) = "catch"
  /\ LastThrowFlowIsMine
  /\ RunFinallys(src, target, PopFlow)

LeaveCatchWithoutFinally(src, target) ==
  /\ LeaveType(clauses, src, target) = "catch"
  /\ Finallys(clauses, src, target) = {}
  /\ LastThrowFlowIsMine
  /\ frames' = At(target)
  /\ flows' = PopFlow

Leave ==
  /\ Running /\ UNCHANGED mode
  /\ \E l \in Leaves[Cur.m] :
       /\ l[1] = ip
       /\ \/ LeaveBranch(l[1], l[2])
          \/ LeaveTryWithFinally(l[1], l[2])
          \/ LeaveCatchWithFinally(l[1], l[2])
          \/ LeaveCatchWithoutFinally(l[1], l[2])

(* EndFinally and EndFault, at the end of the innermost handler. *)
EndFinally ==
  /\ Running
  /\ Handlers(clauses, ip) # {}
  /\ LET c == clauses[Min(Handlers(clauses, ip))]
     IN Unwinds(c) /\ \A i \in Trys(clauses, ip) : ~(clauses[i].try \subseteq c.handler)
  /\ mode' = "unwind"
  /\ UNCHANGED <<frames, flows>>

--------------------------------------------------------------------------------
(* unwind_exception_handler: one turn of its loop is one action.           *)
Unwinding(throw) == mode = "unwind" /\ flows # <<>> /\ TopFlow.throw = throw

(* Mutant: the search resumes one clause late. *)
StopsLate(f) ==
  {i \in f.next + 1..Len(clauses) :
     /\ f.ip \in clauses[i].try
     /\ clauses[i].kind = "catch" => f.ex \in clauses[i].catches}

(* Mutant: a clause need not guard the throwing instruction. *)
StopsAnywhere(f) ==
  {i \in f.next..Len(clauses) : clauses[i].kind = "catch" => f.ex \in clauses[i].catches}

(* The clauses the search of the top flow f would stop at. *)
Stops(f) ==
  {i \in f.next..Len(clauses) :
     /\ f.ip \in clauses[i].try
     /\ clauses[i].kind = "catch" => f.ex \in clauses[i].catches}

Found == Min(Stops(TopFlow))
FoundClause == clauses[Found]
EnterHandler ==
  /\ Unwinding(TRUE)
  /\ Stops(TopFlow) # {}
  /\ frames' = At(Start(FoundClause))
  /\ mode' = "run"

(* setup_catch_handler: the flow becomes the handled one, above the flows  *)
(* whose handlers the catch handler lies in.                               *)
CatchFlow == [TopFlow EXCEPT !.next = Found + 1, !.cur = Found, !.handled = TRUE]
EnterCatch ==
  /\ EnterHandler /\ FoundClause.kind = "catch"
  /\ flows' = Append(PopOutscope(PopFlow, Depth, Start(FoundClause)), CatchFlow)

(* setup_filter_checker and setup_finally_or_fault_handler: the flow stays *)
(* and remembers the clause.  A filter is entered at its handler: its      *)
(* condition is not evaluated.                                             *)
EnterOther ==
  /\ EnterHandler /\ FoundClause.kind # "catch"
  /\ flows' = Append(PopFlow, [TopFlow EXCEPT !.next = Found + 1, !.cur = Found])

(* No clause of the frame takes the exception.  It is thrown again in the  *)
(* caller, or the activation of execute fails with it.                     *)
NoClause == Unwinding(TRUE) /\ Stops(TopFlow) = {}

PropagateToCaller ==
  /\ NoClause /\ ~Cur.native
  /\ LET d == Depth - 1
         caller == frames[d]
     IN flows' = Append(PopFrameFlows(flows, Depth),
                        ThrowFlow(caller.m, d, caller.ip, TopFlow.ex))
  /\ frames' = SubSeq(frames, 1, Depth - 1)
  /\ UNCHANGED mode

(* The native function that called execute fails in turn, so the frame     *)
(* under it raises what execute failed with.                               *)
PropagateThroughNative ==
  /\ NoClause /\ Cur.native /\ Depth > 1
  /\ Raise(SubSeq(frames, 1, Depth - 1), PopFrameFlows(flows, Depth), TopFlow.ex)

(* The host, or a native function that drops the error as the finalizer    *)
(* does, sees execute fail and carries on.                                 *)
PropagateToNative ==
  /\ NoClause /\ Cur.native
  /\ frames' = Resumed(SubSeq(frames, 1, Depth - 1))
  /\ flows' = PopFrameFlows(flows, Depth)
  /\ mode' = "run"

(* A finally handler that a leave entered has ended: the leave goes on to  *)
(* the next one, or to its target.  cur_finally_clause is not moved on.    *)
LeaveArrives ==
  /\ Unwinding(FALSE) /\ TopFlow.remain = 0
  /\ TopFlow.frame = Depth                            \* pop_leave_flow asserts
  /\ frames' = At(TopFlow.target)
  /\ flows' = PopFlow
  /\ mode' = "run"

LeaveGoesOn ==
  /\ Unwinding(FALSE) /\ TopFlow.remain > 0
  /\ LET left == {i \in Finallys(clauses, TopFlow.ip, TopFlow.target) : i >= TopFlow.next}
     IN /\ left # {}                                  \* assert(next_finally_clause)
        /\ frames' = At(Start(clauses[Min(left)]))
        /\ flows' = Append(PopFlow, [TopFlow EXCEPT !.next = Min(left) + 1, !.remain = @ - 1])
  /\ mode' = "run"

Next ==
  \/ \E m \in Method : HostInvokes(m) \/ NativeInvokes(m) \/ Call(m)
  \/ Return
  \/ \E p \in Point : Step(p)
  \/ \E e \in Ex : Throw(e)
  \/ Rethrow
  \/ Leave
  \/ EndFinally
  \/ EnterCatch
  \/ EnterOther
  \/ PropagateToCaller
  \/ PropagateThroughNative
  \/ PropagateToNative
  \/ LeaveArrives
  \/ LeaveGoesOn

Spec == Init /\ [][Next]_vars

--------------------------------------------------------------------------------
FlowsOf(d) == {k \in 1..Len(flows) : flows[k].frame = d}

(* The global stack mirrors the handlers that run: flows lie in the order  *)
(* of their frames, a frame in a handler has the flow that runs its        *)
(* innermost handler on top of its own, and a frame in no handler has      *)
(* none, so no flow outlives its frame to meet the next one at its         *)
(* address.                                                                *)
RunsHandler(d) ==
  LET fr == frames[d]
      cs == Clauses[fr.m]
      H == Handlers(cs, fr.ip)
      own == FlowsOf(d)
  IN IF H = {} THEN own = {}
     ELSE own # {} /\ flows[Max(own)].m = fr.m /\ flows[Max(own)].next - 1 = Min(H)
FlowsMirrorHandlers ==
  /\ \A j, k \in 1..Len(flows) : j < k => flows[j].frame <= flows[k].frame
  /\ \A k \in 1..Len(flows) : flows[k].frame <= Depth
  /\ mode = "run" => \A d \in 1..Depth : RunsHandler(d)

(* A frame that leaves a try region guarded by a finally clause, by        *)
(* whatever jump, enters the handler of that clause, and is not discarded  *)
(* in it: finally blocks are never skipped.  (Fault clauses likewise, if   *)
(* an exception is what leaves.)                                           *)
Guards(c, fr) == Unwinds(c) /\ fr.at \in c.try
FinallyNotSkipped ==
  [][\A d \in 1..Depth : \A i \in 1..Len(Clauses[frames[d].m]) :
       LET c == Clauses[frames[d].m][i]
       IN Guards(c, frames[d]) =>
            /\ d <= Len(frames')
            /\ \/ frames'[d].at \in c.try
               \/ frames'[d].at = Start(c)
               \/ c.kind = "fault" /\ (mode = "run" \/ ~TopFlow.throw)]_vars

(* A frame enters a handler only out of the try region that it guards: an  *)
(* exception in a call counts as thrown where the call stands.             *)
HandlersGuardTheirTry ==
  [][\A d \in 1..Depth : d <= Len(frames') =>
       LET cs == Clauses[frames[d].m]
       IN \A i \in Handlers(cs, frames'[d].at) \ Handlers(cs, frames[d].at) :
            frames[d].at \in cs[i].try]_vars

(* A leave opcode that ends a catch finds the throw flow of its handler on *)
(* top: the assertion of get_exception_in_last_throw_flow.                 *)
LeaveFindsItsFlow ==
  mode = "run" /\ frames # <<>> =>
    \A l \in Leaves[Cur.m] :
      l[1] = ip /\ LeaveType(clauses, l[1], l[2]) = "catch" => LastThrowFlowIsMine

(* peek_top_exception_flow: there is a flow to unwind. *)
FlowsNotEmpty == mode = "unwind" => flows # <<>>

================================================================================
