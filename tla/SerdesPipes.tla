---------------------------- MODULE SerdesPipes -----------------------------
(***************************************************************************)
(* The video pipes of a deserializer: who may take one and what giving one *)
(* back does.  Two deserializers are supported.  A max96712 hands out its  *)
(* first free pipe; a max9296 only the pipe whose number is the virtual    *)
(* channel asked for.  Each call runs under the deserializer's own mutex,  *)
(* so it is one step; alloc[p] is video_pipe_alloc[p], or st_count of p.   *)
(***************************************************************************)
EXTENDS Integers

CONSTANTS
  NPipe,          \* MAX96712_MAX_PIPES or MAX9296_MAX_PIPES
  AnyPipe,        \* TRUE: max96712, FALSE: max9296
  ReleaseFaults   \* TRUE: the I2C accesses of max96712_release_pipe may fail

ASSUME PipesAssumption ==
  NPipe \in Nat \ {0} /\ AnyPipe \in BOOLEAN /\ ReleaseFaults \in BOOLEAN

Pipe == 0..(NPipe - 1)

Free(alloc) == {p \in Pipe : ~alloc[p]}

\* The pipe get_available_pipe_id may return for virtual channel vc.
Available(alloc, vc) ==
  IF AnyPipe THEN {p \in Free(alloc) : \A q \in Free(alloc) : p <= q}
             ELSE Free(alloc) \cap {vc}

\* release_pipe marks the pipe free before it touches the hardware: the
\* pipe is free whatever becomes of the register accesses that follow.
Released(alloc, p) == [alloc EXCEPT ![p] = FALSE]

ReleaseMayFail(p) == p \notin Pipe \/ (AnyPipe /\ ReleaseFaults)
ReleaseMaySucceed(p) == p \in Pipe
=============================================================================
