--------------------------- MODULE StreamTapProofs ---------------------------
(***************************************************************************)
(* Proofs about StreamTap, for every set of pieces, every length of stream *)
(* and of buffer, and every streaming block.                               *)
(***************************************************************************)
EXTENDS StreamTap, WellFoundedInduction, TLAPS

(* The client has at most what the scanner has taken, whose buffer is      *)
(* bounded; outside the tee all that was read has been taken.              *)
Positions ==
    /\ sent <= taken
    /\ taken - scanned <= BufferSize
    /\ copier \in {"read", "write"} => taken = arrived

(* Each goroutine closes its end of the pipe with its last step, and the   *)
(* tee fails on the parser's end only.                                     *)
PipeInv ==
    /\ "pr" \in closed <=> parser = "done"
    /\ "pw" \in closed <=> copier = "done"
    /\ copier = "last" => "pr" \in closed

(* Only the end of the input makes a line of a piece that is none, and the *)
(* parser stops only there or at an overlong line.                         *)
ScanInv ==
    /\ scanned > 0 /\ ~stream[scanned].ends => "pw" \in closed /\ taken = scanned
    /\ parser # "scan" => Overlong \/ ("pw" \in closed /\ taken = scanned)

(* The counts are the reference's, and a record is there once the parser   *)
(* has emitted it and never before.                                        *)
Metered ==
    /\ tokens = Reference
    /\ records = IF parser \in {"scan", "emit"} THEN <<>> ELSE <<tokens>>

TapInv == TypeOK /\ Positions /\ PipeInv /\ ScanInv /\ Metered

-----------------------------------------------------------------------------
(* A set of positions that is not empty has a last one: the positions      *)
(* counted from the end have a least element, because < on the naturals is *)
(* well-founded.                                                           *)
LEMMA LastPosition ==
    ASSUME NEW n \in Nat, NEW S \in SUBSET (1 .. n), S # {}
    PROVE  Max(S) \in S
<1> DEFINE T == {n - i : i \in S}
<1>1. T \subseteq Nat /\ T # {}
  <2>1. \A i \in S : i \in Nat /\ i <= n /\ n - i \in Nat
    OBVIOUS
  <2>2. \A y \in T : y \in Nat
    BY <2>1
  <2>3. PICK i \in S : TRUE
    OBVIOUS
  <2>4. n - i \in T
    BY <2>3
  <2> QED BY <2>2, <2>4
<1>2. PICK x \in T : \A y \in T : ~(<<y, x>> \in OpToRel(<, Nat))
  BY <1>1, NatLessThanWellFounded, WFMin, Zenon
<1>3. \A y \in T : ~(y < x)
  BY <1>1, <1>2 DEF OpToRel
<1>4. PICK i \in S : x = n - i
  BY <1>2
<1>5. \A j \in S : i >= j
  <2> SUFFICES ASSUME NEW j \in S
               PROVE  i >= j
    OBVIOUS
  <2>1. n - j \in T
    OBVIOUS
  <2> QED BY <1>3, <1>4, <2>1
<1> QED BY <1>4, <1>5 DEF Max

(* The counts a parsed line leaves are numbers (IntOf, SplitStep, LastStep). *)
LEMMA ParseLineType ==
    ASSUME TypeOK, NEW line \in Piece
    PROVE  ParseLine(line) \in Counts
BY PiecesAssumption DEF TypeOK, Piece, Config, Counts, Fields, ParseLine, SplitStep, LastStep, IntOf

(* The line at a position decides a count. *)
Decides(f, i) ==
    /\ stream[i].payload
    /\ IF cfg.mode = "split" THEN stream[i].type = cfg[f] ELSE stream[i][f] # None

(* A turn of the scanner's loop that ends at position e computes the       *)
(* reference of the lines up to e, if the lines before it were whole and   *)
(* the pieces between belong to this line.                                 *)
LEMMA ParseLineReference ==
    ASSUME TypeOK, tokens = Reference,
           NEW e \in scanned + 1 .. Len(stream),
           scanned = 0 \/ stream[scanned].ends,
           \A i \in scanned + 1 .. e - 1 : ~stream[i].ends,
           scanned' = e, UNCHANGED <<cfg, stream>>
    PROVE  ParseLine(stream[e]) = Reference'
<1>1. scanned \in Nat /\ e \in Nat /\ scanned < e
  BY DEF TypeOK
<1> SUFFICES ASSUME NEW f \in Fields
             PROVE  ParseLine(stream[e])[f] = Reference[f]'
  BY DEF ParseLine, Reference
<1> DEFINE Old == Decisive(f)
           New == Decisive(f)'
<1>2. /\ Old = {i \in 1 .. scanned : (stream[i].ends \/ i = scanned) /\ Decides(f, i)}
      /\ New = {i \in 1 .. e : (stream[i].ends \/ i = e) /\ Decides(f, i)}
  BY DEF Decisive, Decides
<1>3. New = Old \cup {i \in {e} : Decides(f, i)}
  <2>1. ASSUME NEW i \in New PROVE i \in Old \cup {j \in {e} : Decides(f, j)}
    BY <1>1, <1>2, <2>1
  <2>2. ASSUME NEW i \in Old PROVE i \in New
    BY <1>1, <1>2, <2>2
  <2>3. Decides(f, e) => e \in New
    BY <1>1, <1>2
  <2> QED BY <2>1, <2>2, <2>3
<1>4. /\ tokens[f] = IF Old = {} THEN 0 ELSE IntOf(stream[Max(Old)][f])
      /\ Reference[f]' = IF New = {} THEN 0 ELSE IntOf(stream[Max(New)][f])
  BY DEF Reference
<1>5. Old \subseteq 1 .. scanned
  BY <1>2
<1>6. CASE Decides(f, e)
  <2>1. ParseLine(stream[e])[f] = IntOf(stream[e][f])
    BY <1>6 DEF Decides, ParseLine, SplitStep, LastStep
  <2>2. e \in New /\ \A i \in New : i \in Nat /\ e >= i
    BY <1>1, <1>3, <1>5, <1>6
  <2> HIDE DEF New
  <2>3. Max(New) = e
    <3>1. \A x \in New : (\A y \in New : x >= y) <=> x = e
      BY <1>1, <2>2
    <3> QED BY <2>2, <3>1 DEF Max
  <2> QED BY <1>4, <2>1, <2>2, <2>3
<1>7. CASE ~Decides(f, e)
  <2>1. ParseLine(stream[e])[f] = tokens[f]
    BY <1>7 DEF Decides, ParseLine, SplitStep, LastStep
  <2>2. New = Old
    BY <1>3, <1>7
  <2> HIDE DEF New, Old
  <2> QED BY <1>4, <2>1, <2>2
<1> QED BY <1>6, <1>7

-----------------------------------------------------------------------------
(* A stream that has just been set up satisfies the invariant: nothing has *)
(* been read, and the reference of no line is 0.                           *)
LEMMA InitTap == Init => TapInv
<1> SUFFICES ASSUME Init PROVE TapInv
  OBVIOUS
<1>1. stream \in Seq(Piece)
  <2>1. PICK n \in 0 .. MaxPieces : stream \in [1 .. n -> Pieces]
    BY DEF Init
  <2> QED BY <2>1, PiecesAssumption, BoundAssumption
<1>2. TypeOK
  BY <1>1, ConfigsAssumption DEF Init, TypeOK, Counts
<1>3. Positions /\ PipeInv /\ ScanInv
  BY BoundAssumption DEF Init, Positions, PipeInv, ScanInv
<1>4. \A f \in Fields : Decisive(f) = {}
  BY DEF Init, Decisive
<1>5. Metered
  BY <1>4 DEF Init, Metered, Reference
<1> QED BY <1>2, <1>3, <1>5 DEF TapInv

(* Every step keeps the types (PiecesAssumption gives the pieces theirs).  *)
LEMMA TypeStep ==
    ASSUME TypeOK, Positions, [Next]_vars
    PROVE  TypeOK'
<1> USE BoundAssumption DEF TypeOK, Positions
<1>0. \A i \in 1 .. Len(stream) : stream[i] \in Piece
  OBVIOUS
<1>1. CASE CopierRead
  BY <1>1 DEF CopierRead
<1>2. CASE CopierEnds
  BY <1>2 DEF CopierEnds
<1>3. CASE TeeReturns
  BY <1>3 DEF TeeReturns
<1>4. CASE TeeFails
  BY <1>4 DEF TeeFails
<1>5. CASE CopierWrites
  BY <1>5 DEF CopierWrites
<1>6. CASE CopierCloses
  BY <1>6 DEF CopierCloses
<1>7. CASE ScannerReads
  BY <1>7 DEF ScannerReads, Buffered
<1>8. CASE ScanLine
  <2>1. PICK e \in LineEnds : scanned' = e /\ tokens' = ParseLine(stream[e])
    BY <1>8 DEF ScanLine
  <2>2. e \in scanned + 1 .. taken /\ e \in 1 .. Len(stream)
    BY <2>1 DEF LineEnds
  <2>3. tokens' \in Counts
    BY <1>0, <2>1, <2>2, ParseLineType
  <2> QED BY <1>8, <2>1, <2>2, <2>3 DEF ScanLine
<1>9. CASE ScanRest
  <2>1. taken \in 1 .. Len(stream)
    BY <1>9 DEF ScanRest, Buffered
  <2>2. tokens' \in Counts
    BY <1>0, <1>9, <2>1, ParseLineType DEF ScanRest
  <2> QED BY <1>9, <2>2 DEF ScanRest
<1>10. CASE ScanEnds
  BY <1>10 DEF ScanEnds
<1>11. CASE ScanChokes
  BY <1>11 DEF ScanChokes
<1>12. CASE ParserEmits
  BY <1>12 DEF ParserEmits
<1>13. CASE ParserCloses
  BY <1>13 DEF ParserCloses
<1>14. CASE UNCHANGED vars
  BY <1>14 DEF vars
<1> QED BY <1>1, <1>2, <1>3, <1>4, <1>5, <1>6, <1>7, <1>8, <1>9, <1>10, <1>11, <1>12, <1>13,
           <1>14 DEF Next, Waiting, Handler, Parser

(* A step of the scanner is one of its four, which alone move its          *)
(* position or fill its buffer; every other step leaves both alone.        *)
LEMMA ScannerOnly ==
    ASSUME [Next]_vars
    PROVE  ScannerReads \/ ScanLine \/ ScanRest \/ UNCHANGED <<taken, scanned, tokens>>
BY DEF Next, Waiting, Handler, Parser, CopierRead, CopierEnds, TeeReturns, TeeFails, CopierWrites,
       CopierCloses, ScanEnds, ScanChokes, ParserEmits, ParserCloses, vars

(* Every step keeps client, scanner and copy loop in their order.          *)
LEMMA PositionsStep ==
    ASSUME TypeOK, Positions, [Next]_vars
    PROVE  Positions'
<1> USE BoundAssumption DEF TypeOK, Positions
<1>1. CASE ScannerReads
  BY <1>1 DEF ScannerReads, Buffered
<1>2. CASE ScanLine
  BY <1>2 DEF ScanLine, LineEnds
<1>3. CASE ScanRest
  BY <1>3 DEF ScanRest
<1>4. CASE UNCHANGED <<taken, scanned, tokens>>
  BY <1>4 DEF Next, Waiting, Handler, Parser, CopierRead, CopierEnds, TeeReturns, TeeFails,
     CopierWrites, CopierCloses, ScannerReads, ScanLine, ScanRest, ScanEnds, ScanChokes,
     ParserEmits, ParserCloses, vars
<1> QED BY <1>1, <1>2, <1>3, <1>4, ScannerOnly

(* Every step keeps the ends of the pipe in line with the goroutines.      *)
LEMMA PipeStep ==
    ASSUME TypeOK, PipeInv, [Next]_vars
    PROVE  PipeInv'
BY DEF TypeOK, PipeInv, Next, Waiting, Handler, Parser, CopierRead, CopierEnds, TeeReturns,
       TeeFails, CopierWrites, CopierCloses, ScannerReads, ScanLine, ScanRest, ScanEnds,
       ScanChokes, ParserEmits, ParserCloses, vars

(* Every step keeps what the scanner may have met: it takes nothing once   *)
(* the pipe is closed, and stays where it is once it has stopped.          *)
LEMMA ScanStep ==
    ASSUME TypeOK, PipeInv, ScanInv, [Next]_vars
    PROVE  ScanInv'
<1> USE BoundAssumption DEF TypeOK, ScanInv, Overlong, Buffered
<1>1. CASE ScannerReads
  BY <1>1 DEF ScannerReads, PipeInv
<1>2. CASE ScanLine
  BY <1>2 DEF ScanLine, LineEnds
<1>3. CASE ScanRest
  BY <1>3 DEF ScanRest
<1>4. CASE UNCHANGED <<taken, scanned, tokens>>
  <2>1. UNCHANGED stream /\ closed \subseteq closed'
    BY DEF Next, Waiting, Handler, Parser, CopierRead, CopierEnds, TeeReturns, TeeFails,
       CopierWrites, CopierCloses, ScannerReads, ScanLine, ScanRest, ScanEnds, ScanChokes,
       ParserEmits, ParserCloses, vars
  <2>2. \/ parser' = "scan" \/ parser # "scan"
        \/ Overlong \/ ("pw" \in closed /\ taken = scanned)
    BY DEF Next, Waiting, Handler, Parser, CopierRead, CopierEnds, TeeReturns, TeeFails,
       CopierWrites, CopierCloses, ScannerReads, ScanLine, ScanRest, ScanEnds, ScanChokes,
       ParserEmits, ParserCloses, LineEnds, vars
  <2> QED BY <1>4, <2>1, <2>2
<1> QED BY <1>1, <1>2, <1>3, <1>4, ScannerOnly

(* Every step keeps the counts equal to the reference: lines are parsed in *)
(* ScanLine and ScanRest only, and nothing is parsed once the record is    *)
(* emitted.                                                                *)
LEMMA MeteredStep ==
    ASSUME TypeOK, ScanInv, Metered, [Next]_vars
    PROVE  Metered'
<1>1. CASE ScanLine
  <2>1. PICK e \in LineEnds : /\ \A i \in LineEnds : e <= i
                              /\ scanned' = e
                              /\ tokens' = ParseLine(stream[e])
    BY <1>1 DEF ScanLine
  <2>2. e \in scanned + 1 .. Len(stream) /\ taken # scanned
    BY <2>1 DEF LineEnds, TypeOK
  <2>3. \A i \in scanned + 1 .. e - 1 : ~stream[i].ends
    BY <2>1 DEF LineEnds, TypeOK
  <2>4. scanned = 0 \/ stream[scanned].ends
    BY <2>2 DEF ScanInv, TypeOK
  <2>5. UNCHANGED <<cfg, stream, records, parser>> /\ parser = "scan"
    BY <1>1 DEF ScanLine
  <2>6. tokens' = Reference'
    BY <2>1, <2>2, <2>3, <2>4, <2>5, ParseLineReference DEF Metered
  <2> QED BY <2>5, <2>6 DEF Metered
<1>2. CASE ScanRest
  <2>1. taken \in scanned + 1 .. Len(stream) /\ taken # scanned
    BY <1>2, BoundAssumption DEF ScanRest, Buffered, TypeOK
  <2>2. \A i \in scanned + 1 .. taken - 1 : ~stream[i].ends
    BY <1>2 DEF ScanRest, LineEnds, TypeOK
  <2>3. scanned = 0 \/ stream[scanned].ends
    BY <2>1 DEF ScanInv, TypeOK
  <2>4. /\ UNCHANGED <<cfg, stream, records, parser>> /\ parser = "scan"
        /\ scanned' = taken /\ tokens' = ParseLine(stream[taken])
    BY <1>2 DEF ScanRest
  <2>5. tokens' = Reference'
    BY <2>1, <2>2, <2>3, <2>4, ParseLineReference DEF Metered
  <2> QED BY <2>4, <2>5 DEF Metered
<1>3. CASE UNCHANGED <<cfg, stream, tokens, scanned>>
  <2>1. Reference' = Reference
    BY <1>3 DEF Reference, Decisive
  <2>2. (records = IF parser \in {"scan", "emit"} THEN <<>> ELSE <<tokens>>)'
    <3>1. CASE ParserEmits
      BY <1>3, <3>1 DEF ParserEmits, Metered
    <3>2. CASE ~ParserEmits
      <4>1. records' = records /\ (parser' \in {"scan", "emit"} <=> parser \in {"scan", "emit"})
        BY <3>2 DEF Next, Waiting, Handler, Parser, CopierRead, CopierEnds, TeeReturns, TeeFails,
           CopierWrites, CopierCloses, ScannerReads, ScanLine, ScanRest, ScanEnds, ScanChokes,
           ParserCloses, vars
      <4> QED BY <1>3, <4>1 DEF Metered
    <3> QED BY <3>1, <3>2
  <2> QED BY <1>3, <2>1, <2>2 DEF Metered
<1>4. ScanLine \/ ScanRest \/ UNCHANGED <<cfg, stream, tokens, scanned>>
  BY DEF Next, Waiting, Handler, Parser, CopierRead, CopierEnds, TeeReturns, TeeFails,
     CopierWrites, CopierCloses, ScannerReads, ScanEnds, ScanChokes, ParserEmits, ParserCloses, vars
<1> QED BY <1>1, <1>2, <1>3, <1>4

(* The inductive invariant holds of every stream. *)
LEMMA TapInvariant == Spec => []TapInv
<1>1. TapInv /\ [Next]_vars => TapInv'
  BY TypeStep, PositionsStep, PipeStep, ScanStep, MeteredStep DEF TapInv
<1> QED BY InitTap, <1>1, PTL DEF Spec

-----------------------------------------------------------------------------
(* The state of a stream is well typed.                                    *)
THEOREM TypeCorrect == Spec => []TypeOK
<1>1. TapInv => TypeOK
  BY DEF TapInv
<1> QED BY TapInvariant, <1>1, PTL

(* Whatever ends the stream and however it comes in, the counts of         *)
(* parseSplitStream and parseLastStream are the reference's over the lines *)
(* scanned, and the record carries them.                                   *)
THEOREM CountsAreReference == Spec => []MeteredAsReference
<1>1. TapInv => MeteredAsReference
  BY DEF TapInv, Metered, MeteredAsReference
<1> QED BY TapInvariant, <1>1, PTL

(* What the client holds beyond the metered lines fits the scanner's       *)
(* buffer, and once the record is emitted there is nothing of it but the   *)
(* beginning of an overlong line.                                          *)
THEOREM DeliveriesAreMetered == Spec => []DeliveredIsMetered
<1>1. TapInv => DeliveredIsMetered
  <2> SUFFICES ASSUME TapInv PROVE DeliveredIsMetered
    OBVIOUS
  <2>1. sent <= scanned + BufferSize
    BY BoundAssumption DEF TapInv, TypeOK, Positions
  <2>2. records # <<>> => parser # "scan"
    BY DEF TapInv, Metered
  <2>3. records # <<>> => Overlong \/ sent <= scanned
    BY <2>2 DEF TapInv, TypeOK, Positions, ScanInv
  <2> QED BY <2>1, <2>3 DEF DeliveredIsMetered
<1> QED BY TapInvariant, <1>1, PTL

(* The copy of a stream fails in the tee only when its parser has met an   *)
(* overlong line: a parser that stops at the end of its input has waited   *)
(* for the copy to end.                                                    *)
THEOREM OnlyOverlongLinesCut == Spec => []CutOnlyAtOverlongLine
<1>1. TapInv => CutOnlyAtOverlongLine
  BY DEF TapInv, PipeInv, ScanInv, CutOnlyAtOverlongLine
<1> QED BY TapInvariant, <1>1, PTL

-----------------------------------------------------------------------------
(* Neither goroutine waits for one that will not act: a copy in the tee is *)
(* through, finds the pipe closed, or has a parser that scans or has yet   *)
(* to close it; a parser that still scans when the copy has ended finds    *)
(* the end of its input; and a parser that has ended has left its record.  *)
NoneStranded ==
    /\ copier = "tee" => parser \in {"scan", "emit", "close"} \/ "pr" \in closed
    /\ copier = "done" /\ parser = "scan" => "pw" \in closed
    /\ parser = "done" => Len(records) = 1

(* The steps that the parser has left once it has stopped scanning, and    *)
(* the pieces that have yet to be taken and scanned.                       *)
ParserLeft == CASE parser = "scan"  -> 3
                [] parser = "emit"  -> 2
                [] parser = "close" -> 1
                [] OTHER            -> 0

TeeLeft == (arrived - taken) + (arrived - scanned) + ParserLeft

(* Less is left when one of the three gets less and none gets more.        *)
LEMMA LessLeft ==
    ASSUME NEW a \in Nat, NEW t \in 0 .. a, NEW s \in 0 .. t, NEW p \in Nat,
           NEW u \in 0 .. a, NEW v \in 0 .. u, NEW q \in Nat,
           \/ u > t /\ v = s /\ q <= p
           \/ v > s /\ u = t /\ q <= p
           \/ q < p /\ u = t /\ v = s
    PROVE  (a - u) + (a - v) + q \in Nat /\ (a - u) + (a - v) + q < (a - t) + (a - s) + p
OBVIOUS

(* The copy loop and the parser goroutine never wait for each other: what  *)
(* TeeNeverStuck and EveryStreamCharged rest on, with fairness.            *)
THEOREM NoDeadlock == Spec => []NoneStranded
<1>1. TapInv => NoneStranded
  BY DEF TapInv, TypeOK, Metered, PipeInv, NoneStranded
<1> QED BY TapInvariant, <1>1, PTL

(* A copy that waits in the tee waits for a bounded number of steps of the *)
(* parser: each one takes a piece, scans one, or brings its end nearer.    *)
THEOREM TeeIsBounded ==
    Spec => [][copier = "tee" /\ copier' = "tee" => TeeLeft' \in Nat /\ TeeLeft' < TeeLeft]_vars
<1>1. TapInv /\ TapInv' /\ [Next]_vars =>
         [copier = "tee" /\ copier' = "tee" => TeeLeft' \in Nat /\ TeeLeft' < TeeLeft]_vars
  <2> SUFFICES ASSUME TapInv, TapInv', Next, copier = "tee", copier' = "tee"
               PROVE  TeeLeft' \in Nat /\ TeeLeft' < TeeLeft
    BY DEF vars
  <2>1. /\ arrived \in Nat /\ taken \in Nat /\ scanned \in Nat
        /\ taken <= arrived /\ scanned <= taken
    BY DEF TapInv, TypeOK
  <2>2. /\ arrived' \in Nat /\ taken' \in Nat /\ scanned' \in Nat
        /\ taken' <= arrived' /\ scanned' <= taken'
    BY DEF TapInv, TypeOK
  <2>3. ParserLeft \in 0 .. 3 /\ ParserLeft' \in 0 .. 3
    BY DEF ParserLeft
  <2>4. Parser /\ UNCHANGED arrived
    BY DEF Next, Waiting, Handler, Parser, CopierRead, CopierEnds, TeeReturns, TeeFails,
       CopierWrites, CopierCloses, ScannerReads, ScanLine, ScanRest, ScanEnds, ScanChokes,
       ParserEmits, ParserCloses
  <2>5. \/ taken' > taken /\ scanned' = scanned /\ ParserLeft' <= ParserLeft
        \/ scanned' > scanned /\ taken' = taken /\ ParserLeft' <= ParserLeft
        \/ ParserLeft' < ParserLeft /\ taken' = taken /\ scanned' = scanned
    <3>1. CASE ScannerReads
      BY <2>1, <3>1 DEF ScannerReads, ParserLeft
    <3>2. CASE ScanLine
      BY <2>1, <3>2 DEF ScanLine, LineEnds, ParserLeft
    <3>3. CASE ScanRest
      BY <2>1, <3>3 DEF ScanRest, Buffered, ParserLeft
    <3>4. CASE ScanEnds
      BY <3>4 DEF ScanEnds, ParserLeft
    <3>5. CASE ScanChokes
      BY <3>5 DEF ScanChokes, ParserLeft
    <3>6. CASE ParserEmits
      BY <3>6 DEF ParserEmits, ParserLeft
    <3>7. CASE ParserCloses
      BY <3>7 DEF ParserCloses, ParserLeft
    <3> QED BY <2>4, <3>1, <3>2, <3>3, <3>4, <3>5, <3>6, <3>7 DEF Parser
  <2>6. /\ TeeLeft = (arrived - taken) + (arrived - scanned) + ParserLeft
        /\ TeeLeft' = (arrived - taken') + (arrived - scanned') + ParserLeft'
    BY <2>4 DEF TeeLeft
  <2>7. /\ taken \in 0 .. arrived /\ scanned \in 0 .. taken /\ ParserLeft \in Nat
        /\ taken' \in 0 .. arrived /\ scanned' \in 0 .. taken' /\ ParserLeft' \in Nat
    BY <2>1, <2>2, <2>3, <2>4
  <2>8. (arrived - taken') + (arrived - scanned') + ParserLeft' \in Nat
    BY <2>1, <2>5, <2>7, LessLeft
  <2>9. (arrived - taken') + (arrived - scanned') + ParserLeft'
          < (arrived - taken) + (arrived - scanned) + ParserLeft
    BY <2>1, <2>5, <2>7, LessLeft
  <2> QED BY <2>6, <2>8, <2>9, Zenon
<1> QED BY TapInvariant, <1>1, PTL DEF Spec
=============================================================================
