---------------------------- MODULE NormalizerCalls ----------------------------
(***************************************************************************)
(* What a Normalizer promises its callers (part_004:42-82), with the       *)
(* recursion of normalizeAt hidden: a series of public calls over one      *)
(* document, each given a list of schemas (Normalize one, InputCompatible  *)
(* and OutputCompatible two), which either fails or yields one map per    *)
(* schema, no more and no fewer, and then ends "ok".  That each map is in  *)
(* the spec's normal form is not said here (see NormalizedOutputs).        *)
(*                                                                         *)
(* Module Normalizer implements this specification: its steps inside one   *)
(* normalizeAt are stutters here, the return of the outermost frame is a   *)
(* Produce step, and an error returned through every frame is Abort.       *)
(***************************************************************************)
EXTENDS Profile

CONSTANT Docs   \* the inputs: [heap, root, calls]

VARIABLES
  input,    \* the chosen input
  calls,    \* the public calls still to come
  results,  \* the maps the current call has produced so far
  status    \* "idle", "running", "ok" or "failed"

avars == <<input, calls, results, status>>

\* The schemas of the current call: the last call started.
Cur == input.calls[Len(input.calls) - Len(calls)]

Init ==
  \E d \in Docs :
    /\ input = d
    /\ calls = d.calls
    /\ results = <<>>
    /\ status = "idle"

\* A public call begins (part_004:46, 55, 72).
Start ==
  /\ status # "running" /\ calls # <<>>
  /\ calls' = Tail(calls)
  /\ results' = <<>>
  /\ status' = "running"
  /\ UNCHANGED input

\* normalizeAt(schema, "") returns a map for the next schema
\* (part_004:47, 56, 60, 73, 77).
Produce ==
  /\ status = "running"
  /\ Len(results) < Len(Cur)
  /\ Len(results') = Len(results) + 1
  /\ results' = Append(results, results'[Len(results')])
  /\ IsMap(results'[Len(results')])
  /\ UNCHANGED <<input, calls, status>>

\* Every schema of the call is normalized (part_004:47, 64, 81).
Finish ==
  /\ status = "running"
  /\ Len(results) = Len(Cur)
  /\ status' = "ok"
  /\ UNCHANGED <<input, calls, results>>

\* A normalization failed and the call returns its error (part_004:57-58,
\* 61-62, 74-75, 78-79).
Abort ==
  /\ status = "running"
  /\ status' = "failed"
  /\ UNCHANGED <<input, calls, results>>

Next == Start \/ Produce \/ Finish \/ Abort

Spec == Init /\ [][Next]_avars

=============================================================================
