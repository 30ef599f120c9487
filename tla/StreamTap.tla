------------------------------ MODULE StreamTap ------------------------------
(***************************************************************************)
(* One streamed answer (scenario B of ModifyResponse in                    *)
(* internal/proxy/proxy.go, with internal/usage/parser.go): the reverse    *)
(* proxy copies the upstream's body to the client through a TeeReader,     *)
(* which first writes what it read to an io.Pipe; a goroutine scans the    *)
(* other end of the pipe for token counts and, when its input ends, emits  *)
(* one usage record and closes its end.  The pipe has no buffer: the copy  *)
(* waits until the scanner has taken the bytes into its own buffer, or has *)
(* closed the pipe.                                                        *)
(*                                                                         *)
(* The body is a sequence of pieces of lines, and how far each party has   *)
(* got is a position in it.  A piece is a record of what the parser would  *)
(* see of its line if that ended there: is it an SSE data line with a      *)
(* payload, the type of the event, the token counts at the configured      *)
(* paths (None: no such field); and does the line end there.  One read may *)
(* bring a part of a line or many lines.                                   *)
(***************************************************************************)
EXTENDS Naturals, Sequences, FiniteSetsExt

CONSTANTS
    Pieces,      \* the pieces an upstream may send
    MaxPieces,   \* bound: the length of a stream
    BufferSize,  \* bufio.MaxScanTokenSize, in pieces
    Configs,     \* streaming blocks of a provider: mode, chunk types
    None         \* a field that is not there

Piece  == [payload: BOOLEAN, type: STRING, input: Nat \cup {None},
           output: Nat \cup {None}, ends: BOOLEAN]
Config == [mode: {"split", "last"}, input: STRING, output: STRING]

ASSUME PiecesAssumption  == Pieces \subseteq Piece /\ None \notin Nat
ASSUME BoundAssumption   == MaxPieces \in Nat /\ BufferSize \in Nat \ {0}
ASSUME ConfigsAssumption == Configs \subseteq Config

VARIABLES
    cfg,       \* the provider's streaming block
    stream,    \* the body as the upstream would send it
    copier,    \* where the copy loop of the reverse proxy is
    arrived,   \* how much of the stream the copy loop has read
    taken,     \* how much of it the scanner has taken from the pipe
    scanned,   \* how much of it the scanner has returned as lines
    sent,      \* how much of it the client has received
    closed,    \* the ends of the pipe that are closed: "pw", "pr"
    parser,    \* where the parser goroutine is
    tokens,    \* inputTokens and outputTokens of the parser
    records    \* the usage records emitted

vars == <<cfg, stream, copier, arrived, taken, scanned, sent, closed, parser, tokens, records>>

Fields == {"input", "output"}
Counts == [Fields -> Nat]

(* More of a line shows what less of it showed; a number may get digits.   *)
Grows(p, q) ==
    /\ p.type # "" => q.type = p.type
    /\ \A f \in Fields : p[f] # None => q[f] # None /\ q[f] >= p[f]

Init ==
    /\ cfg \in Configs
    /\ stream \in UNION {[1 .. n -> Pieces] : n \in 0 .. MaxPieces}
    /\ \A i \in 1 .. Len(stream) - 1 : stream[i].ends \/ Grows(stream[i], stream[i + 1])
    /\ copier = "read"
    /\ arrived = 0 /\ taken = 0 /\ scanned = 0 /\ sent = 0
    /\ closed = {}
    /\ parser = "scan"
    /\ tokens = [f \in Fields |-> 0]
    /\ records = <<>>

-----------------------------------------------------------------------------
(* The copy loop of the reverse proxy: it reads what the upstream has sent *)
(* so far.                                                                 *)
CopierRead ==
    /\ copier = "read"
    /\ arrived' \in arrived + 1 .. Len(stream)
    /\ copier' = "tee"
    /\ UNCHANGED <<cfg, stream, taken, scanned, sent, closed, parser, tokens, records>>

(* The body ends, the upstream's connection breaks, or the client hangs up *)
(* and the request's context is cancelled.                                 *)
CopierEnds ==
    /\ copier = "read"
    /\ copier' = "close"
    /\ UNCHANGED <<cfg, stream, arrived, taken, scanned, sent, closed, parser, tokens, records>>

(* The tee's write to the pipe is over: all of it is in the scanner's      *)
(* buffer, scanned or not.                                                 *)
TeeReturns ==
    /\ copier = "tee"
    /\ taken = arrived
    /\ copier' = "write"
    /\ UNCHANGED <<cfg, stream, arrived, taken, scanned, sent, closed, parser, tokens, records>>

(* The pipe is closed on the parser's side before it has taken everything: *)
(* the tee returns what was taken, and the error, which ends the copy once *)
(* this much is written.                                                   *)
TeeFails ==
    /\ copier = "tee"
    /\ taken < arrived /\ "pr" \in closed
    /\ copier' = "last"
    /\ UNCHANGED <<cfg, stream, arrived, taken, scanned, sent, closed, parser, tokens, records>>

(* What the tee returned is written to the client, or the client has gone. *)
CopierWrites ==
    /\ copier \in {"write", "last"}
    /\ \/ /\ sent' = taken
          /\ copier' = IF copier = "write" THEN "read" ELSE "close"
       \/ /\ copier' = "close"
          /\ UNCHANGED sent
    /\ UNCHANGED <<cfg, stream, arrived, taken, scanned, closed, parser, tokens, records>>

(* Mutant: closing the body does not close the pipe. *)
CopierLeavesPipe ==
    /\ copier = "close"
    /\ copier' = "done"
    /\ UNCHANGED <<cfg, stream, arrived, taken, scanned, sent, closed, parser, tokens, records>>

(* The reverse proxy closes the body however the copy ended, and           *)
(* autoCloseWriter closes the pipe.                                        *)
CopierCloses ==
    /\ copier = "close"
    /\ closed' = closed \cup {"pw"}
    /\ copier' = "done"
    /\ UNCHANGED <<cfg, stream, arrived, taken, scanned, sent, parser, tokens, records>>

-----------------------------------------------------------------------------
(* Mutant: the count of a missing field is stored as it is. *)
Raw(v) == v

(* gjson's Int(): a missing field counts as 0. *)
IntOf(v) == IF v = None THEN 0 ELSE v

(* parseSplitStream: each count comes from the events of its type.         *)
SplitStep(f, line, count) == IF line.type = cfg[f] THEN IntOf(line[f]) ELSE count

(* Mutant: the field is overwritten although the event does not have it. *)
LastStepAlways(f, line, count) == IntOf(line[f])

(* parseLastStream: the last event that has the field wins. *)
LastStep(f, line, count) == IF line[f] # None THEN IntOf(line[f]) ELSE count

(* One turn of the scanner's loop; extractSSEData skips what has no data.  *)
ParseLine(line) ==
    [f \in Fields |->
        IF ~line.payload THEN tokens[f]
        ELSE IF cfg.mode = "split" THEN SplitStep(f, line, tokens[f])
                                   ELSE LastStep(f, line, tokens[f])]

(* What is in the scanner's buffer, and where lines end in it. *)
Buffered == taken - scanned
LineEnds == {i \in scanned + 1 .. taken : stream[i].ends}

(* The scanner has no line: it reads from the pipe what its buffer has     *)
(* room for, or less.                                                      *)
ScannerReads ==
    /\ parser = "scan" /\ LineEnds = {}
    /\ copier = "tee"
    /\ \E n \in 1 .. BufferSize - Buffered :
          /\ taken + n <= arrived
          /\ taken' = taken + n
    /\ UNCHANGED <<cfg, stream, copier, arrived, scanned, sent, closed, parser, tokens, records>>

(* Mutant: a line without data, such as [DONE], ends the loop. *)
ScanLineToDone ==
    /\ parser = "scan"
    /\ \E e \in LineEnds :
          /\ \A i \in LineEnds : e <= i
          /\ scanned' = e
          /\ tokens' = ParseLine(stream[e])
          /\ parser' = IF stream[e].payload THEN "scan" ELSE "emit"
    /\ UNCHANGED <<cfg, stream, copier, arrived, taken, sent, closed, records>>

(* The first line in the buffer is parsed. *)
ScanLine ==
    /\ parser = "scan"
    /\ \E e \in LineEnds :
          /\ \A i \in LineEnds : e <= i
          /\ scanned' = e
          /\ tokens' = ParseLine(stream[e])
    /\ UNCHANGED <<cfg, stream, copier, arrived, taken, sent, closed, parser, records>>

(* Mutant: what is left in the buffer at EOF is dropped. *)
RestDropped ==
    /\ parser = "scan" /\ LineEnds = {}
    /\ Buffered \in 1 .. BufferSize - 1 /\ "pw" \in closed
    /\ parser' = "emit"
    /\ UNCHANGED <<cfg, stream, copier, arrived, taken, scanned, sent, closed, tokens, records>>

(* The input has ended within a line: what there is of it is a line too.   *)
ScanRest ==
    /\ parser = "scan" /\ LineEnds = {}
    /\ Buffered \in 1 .. BufferSize - 1 /\ "pw" \in closed
    /\ scanned' = taken
    /\ tokens' = ParseLine(stream[taken])
    /\ UNCHANGED <<cfg, stream, copier, arrived, taken, sent, closed, parser, records>>

(* The scanner reads EOF and has nothing left. *)
ScanEnds ==
    /\ parser = "scan"
    /\ Buffered = 0 /\ "pw" \in closed
    /\ parser' = "emit"
    /\ UNCHANGED <<cfg, stream, copier, arrived, taken, scanned, sent, closed, tokens, records>>

(* The buffer is full of a line that goes on: Scan returns false as it     *)
(* does at EOF, whatever is to come.                                       *)
ScanChokes ==
    /\ parser = "scan" /\ LineEnds = {}
    /\ Buffered = BufferSize
    /\ parser' = "emit"
    /\ UNCHANGED <<cfg, stream, copier, arrived, taken, scanned, sent, closed, tokens, records>>

ParserEmits ==
    /\ parser = "emit"
    /\ records' = Append(records, tokens)
    /\ parser' = "close"
    /\ UNCHANGED <<cfg, stream, copier, arrived, taken, scanned, sent, closed, tokens>>

(* Mutant: the deferred pr.Close() is forgotten. *)
ParserForgetsClose ==
    /\ parser = "close"
    /\ parser' = "done"
    /\ UNCHANGED <<cfg, stream, copier, arrived, taken, scanned, sent, closed, tokens, records>>

(* The deferred pr.Close(). *)
ParserCloses ==
    /\ parser = "close"
    /\ closed' = closed \cup {"pr"}
    /\ parser' = "done"
    /\ UNCHANGED <<cfg, stream, copier, arrived, taken, scanned, sent, tokens, records>>

-----------------------------------------------------------------------------
Waiting == CopierRead \/ CopierEnds

Handler == TeeReturns \/ TeeFails \/ CopierWrites \/ CopierCloses

Parser == \/ ScannerReads \/ ScanLine \/ ScanRest \/ ScanEnds \/ ScanChokes
          \/ ParserEmits \/ ParserCloses

Next == Waiting \/ Handler \/ Parser

(* Both goroutines run when they can, except that nothing makes an         *)
(* upstream send more or end its stream.                                   *)
Fairness == WF_vars(Parser) /\ WF_vars(Handler)

Spec     == Init /\ [][Next]_vars
FairSpec == Spec /\ Fairness

-----------------------------------------------------------------------------
TypeOK ==
    /\ cfg \in Config
    /\ stream \in Seq(Piece)
    /\ copier \in {"read", "tee", "write", "last", "close", "done"}
    /\ arrived \in 0 .. Len(stream)
    /\ taken \in 0 .. arrived
    /\ scanned \in 0 .. taken
    /\ sent \in 0 .. arrived
    /\ closed \subseteq {"pw", "pr"}
    /\ parser \in {"scan", "emit", "close", "done"}
    /\ tokens \in Counts
    /\ records \in Seq(Counts)

(* The reference: the count of a field is what the last decisive line says *)
(* of it, 0 if there is none (docs/APML-Spec.md, modes split and last).    *)
(* What was scanned last may be a line that was cut off.                   *)
Decisive(f) ==
    {i \in 1 .. scanned :
        /\ stream[i].ends \/ i = scanned
        /\ stream[i].payload
        /\ IF cfg.mode = "split" THEN stream[i].type = cfg[f] ELSE stream[i][f] # None}

Reference ==
    [f \in Fields |-> IF Decisive(f) = {} THEN 0 ELSE IntOf(stream[Max(Decisive(f))][f])]

(* The parser's running counts are the reference over the lines it has     *)
(* scanned, however these came in and whatever ended the stream, and the   *)
(* one record carries exactly these counts (parseSplitStream,              *)
(* parseLastStream).                                                       *)
MeteredAsReference ==
    /\ tokens = Reference
    /\ records # <<>> => records = <<Reference>>

(* The scanner has met a line that does not fit its buffer. *)
Overlong ==
    /\ Buffered = BufferSize
    /\ \A i \in scanned + 1 .. taken : ~stream[i].ends

(* The client may hold bytes that are not metered yet, because the tee     *)
(* lets go when they are in the scanner's buffer, but no more than that    *)
(* buffer holds; and in the end, when the record has been emitted, nothing *)
(* the client holds or will ever get is unmetered but the beginning of one *)
(* overlong line (TeeReader, io.Pipe, bufio.Scanner).                      *)
DeliveredIsMetered ==
    /\ sent <= scanned + BufferSize
    /\ records # <<>> => sent <= scanned \/ Overlong

(* Metering cuts the client's stream short only at an overlong line: no    *)
(* other stream meets a pipe that its parser has closed (TeeFails).        *)
CutOnlyAtOverlongLine == copier = "last" => Overlong

(* Whatever ends a stream, a handler that has finished is followed by one  *)
(* record.                                                                 *)
EveryStreamCharged == copier = "done" ~> Len(records) = 1

(* The copy never stays stuck in the tee: the scanner takes the bytes or   *)
(* the parser closes the pipe.                                             *)
TeeNeverStuck == copier = "tee" ~> copier # "tee"

(* The comment on ParseStreamReader: "This function blocks until the       *)
(* stream ends (EOF)".  A line that does not fit the scanner's buffer ends *)
(* it too; the pipe is closed and the client's stream is cut.              *)
ParsesUntilEOF == parser # "scan" => "pw" \in closed
=============================================================================
