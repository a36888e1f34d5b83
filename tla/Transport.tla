----------------------------- MODULE Transport -----------------------------
(***************************************************************************)
(* src/gedit_lsp/rpc.py, class RpcClient: the writing half with the        *)
(* pending requests (RpcClient) and the reading half (FrameReader).  The   *)
(* two share the subprocess and nothing else: what is read calls a         *)
(* callback, and what is sent does not depend on what was read.  A         *)
(* behaviour of this module is therefore that of one of them, `half`; the  *)
(* other stays as start() made it.                                         *)
(***************************************************************************)
EXTENDS RpcClient, FrameReader

CONSTANT Halves

ASSUME HalvesAssumption == Halves \subseteq {"reading", "writing"}

VARIABLE half

transportVars == <<half, vars, readingVars>>

TransportInit ==
    /\ half \in Halves
    /\ IF half = "reading"
       THEN ReadingInit
       ELSE /\ script = <<>> /\ printed = <<>> /\ raising = 0 /\ short = FALSE
            /\ unsent = <<>> /\ pipe = <<>> /\ closed = FALSE
            /\ decoder = EmptyDecoder /\ loop = "line" /\ delivered = <<>>
            /\ refused = FALSE
    /\ Init
    /\ half = "reading" => stdin = FALSE /\ partial = FALSE

ReadingStep ==
    /\ half = "reading"
    /\ ReadingNext
    /\ UNCHANGED <<half, vars>>

WritingStep ==
    /\ half = "writing"
    /\ Next
    /\ UNCHANGED <<half, readingVars>>

TransportNext ==
    \/ ReadingStep
    \/ WritingStep

TransportSpec ==
    /\ TransportInit
    /\ [][TransportNext]_transportVars
    /\ ReadingFairness
    /\ WritingFairness
=============================================================================
