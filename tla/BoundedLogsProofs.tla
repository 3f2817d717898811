-------------------------- MODULE BoundedLogsProofs --------------------------
(***************************************************************************)
(* Proofs about BoundedLogs, for any limits and payloads of any size: the  *)
(* files and the preview stay within their limits, and the logging state   *)
(* of the result says whether they have everything.                        *)
(***************************************************************************)
EXTENDS BoundedLogs, TLAPS

Shown == received["stdout"] + received["stderr"]

(* What the counters say of the bytes handed over so far.                  *)
Due(l) == IF step = "stream" /\ l = stream THEN left ELSE 0

FilesAccounted ==
  \A l \in Log : /\ written[l] + Due(l) <= received[l]
                 /\ truncated[l] => written[l] + Due(l) < received[l]
                 /\ ~failed /\ ~truncated[l] => written[l] + Due(l) = received[l]

PreviewAccounted ==
  /\ preview + left <= Shown
  /\ previewTruncated => preview + left < Shown
  /\ ~failed /\ ~previewTruncated => preview + left = Shown

LeftToWrite ==
  /\ step \in {"idle", "combined"} => left = 0
  /\ step = "stream" => left > 0

LogInv ==
  LogTypeOK /\ LogsAreBounded /\ FilesAccounted /\ PreviewAccounted /\ LeftToWrite

-----------------------------------------------------------------------------
LEMMA InvInit == LimitsAreNat /\ LogInit => LogInv
<1> SUFFICES ASSUME LimitsAreNat, LogInit PROVE LogInv
  OBVIOUS
<1>1. \A l \in Log : written[l] = 0 /\ received[l] = 0 /\ ~truncated[l] /\ Due(l) = 0
  BY DEF LogInit, Due
<1>2. LogTypeOK
  BY DEF LogInit, LogTypeOK, Stream
<1>3. LogsAreBounded
  BY <1>1 DEF LogInit, LogsAreBounded, LimitsAreNat
<1>4. FilesAccounted
  BY <1>1 DEF FilesAccounted
<1>5. Shown = 0
  BY <1>1 DEF Shown, Log, Stream
<1>6. PreviewAccounted
  BY <1>5 DEF LogInit, PreviewAccounted
<1>7. LeftToWrite
  BY DEF LogInit, LeftToWrite
<1> QED
  BY <1>2, <1>3, <1>4, <1>6, <1>7 DEF LogInv

LEMMA TotalIsNat == LogTypeOK => Shown \in Nat
BY DEF LogTypeOK, Shown, Log, Stream

(* A bounded write of n bytes.                                             *)
LEMMA BoundedWrite ==
  ASSUME LimitsAreNat, LogTypeOK, LogsAreBounded, NEW l \in Log, NEW n \in Nat, WriteBounded(l, n)
  PROVE  /\ written' \in [Log -> Nat] /\ truncated' \in [Log -> BOOLEAN]
         /\ \A k \in Log \ {l} : written'[k] = written[k] /\ truncated'[k] = truncated[k]
         /\ written'[l] <= MaxLogBytes
         /\ written'[l] <= written[l] + n
         /\ truncated'[l] = (truncated[l] \/ written'[l] # written[l] + n)
<1> DEFINE chunk == Smaller(n, MaxLogBytes - written[l])
<1>1. written[l] \in Nat /\ written[l] <= MaxLogBytes /\ MaxLogBytes \in Nat
  BY DEF LimitsAreNat, LogTypeOK, LogsAreBounded
<1>2. chunk \in Nat /\ chunk <= n /\ chunk <= MaxLogBytes - written[l]
  BY <1>1 DEF Smaller
<1>3. /\ written' = [written EXCEPT ![l] = @ + chunk]
      /\ truncated' = [truncated EXCEPT ![l] = @ \/ chunk # n]
  BY DEF WriteBounded
<1>4. written \in [Log -> Nat] /\ truncated \in [Log -> BOOLEAN]
  BY DEF LogTypeOK
<1> HIDE DEF chunk
<1>5. written'[l] = written[l] + chunk
  BY <1>3, <1>4
<1>6. truncated'[l] = (truncated[l] \/ chunk # n)
  BY <1>3, <1>4
<1>7. written' \in [Log -> Nat]
  BY <1>1, <1>2, <1>3, <1>4
<1>8. truncated' \in [Log -> BOOLEAN]
  BY <1>3, <1>4
<1>9. \A k \in Log \ {l} : written'[k] = written[k] /\ truncated'[k] = truncated[k]
  BY <1>3, <1>4
<1>10. (chunk # n) <=> (written'[l] # written[l] + n)
  BY <1>1, <1>2, <1>5
<1> QED
  BY <1>1, <1>2, <1>5, <1>6, <1>7, <1>8, <1>9, <1>10

-----------------------------------------------------------------------------
(* Every step preserves the invariant.                                     *)

LEMMA WriteKeeps ==
  ASSUME LogInv, NEW s \in Stream, NEW n \in Positive, Write(s, n)
  PROVE  LogInv'
<1> USE DEF LogInv
<1>1. n \in Nat /\ n > 0 /\ s \in Log /\ s # "combined"
  BY DEF Positive, Log, Stream
<1>2. received' \in [Log -> Nat] /\ received'[s] = received[s] + n
      /\ \A k \in Log \ {s} : received'[k] = received[k]
  BY <1>1 DEF Write, LogTypeOK
<1>3. LogTypeOK'
  BY <1>1, <1>2 DEF Write, LogTypeOK
<1>4. LogsAreBounded'
  BY DEF Write, LogsAreBounded
<1>5. FilesAccounted'
  <2> SUFFICES ASSUME NEW l \in Log
      PROVE (/\ written[l] + Due(l) <= received[l]
             /\ truncated[l] => written[l] + Due(l) < received[l]
             /\ ~failed /\ ~truncated[l] => written[l] + Due(l) = received[l])'
    BY DEF FilesAccounted
  <2>1. Due(l) = 0 /\ Due(l)' = IF l = s THEN n ELSE 0
    BY DEF Write, Due
  <2>2. written[l] \in Nat /\ received[l] \in Nat
    BY DEF LogTypeOK
  <2>3. received'[l] = received[l] + IF l = s THEN n ELSE 0
    BY <1>1, <1>2, <2>2
  <2>4. written' = written /\ truncated' = truncated /\ failed' = failed
    BY DEF Write
  <2> QED
    BY <1>1, <2>1, <2>2, <2>3, <2>4 DEF FilesAccounted
<1>6. Shown' = Shown + n
  BY <1>1, <1>2 DEF Shown, Stream, Log, LogTypeOK
<1>7. PreviewAccounted'
  <2>1. left = 0 /\ left' = n /\ preview' = preview /\ previewTruncated' = previewTruncated
        /\ failed' = failed
    BY DEF Write, LeftToWrite
  <2>2. preview \in Nat /\ Shown \in Nat
    BY TotalIsNat DEF LogTypeOK
  <2> QED
    BY <1>1, <1>6, <2>1, <2>2 DEF PreviewAccounted
<1>8. LeftToWrite'
  BY <1>1 DEF Write, LeftToWrite
<1> QED
  BY <1>3, <1>4, <1>5, <1>7, <1>8

LEMMA WriteStreamKeeps ==
  ASSUME LimitsAreNat, LogInv, WriteStream
  PROVE  LogInv'
<1> USE DEF LogInv
<1>1. stream \in Log /\ left \in Nat /\ left > 0
  BY DEF WriteStream, LogTypeOK, LeftToWrite, Log
<1>2. WriteBounded(stream, left)
  BY DEF WriteStream
<1>3. /\ written' \in [Log -> Nat] /\ truncated' \in [Log -> BOOLEAN]
      /\ \A k \in Log \ {stream} : written'[k] = written[k] /\ truncated'[k] = truncated[k]
      /\ written'[stream] <= MaxLogBytes
      /\ written'[stream] <= written[stream] + left
      /\ truncated'[stream] = (truncated[stream] \/ written'[stream] # written[stream] + left)
  BY <1>1, <1>2, BoundedWrite
<1>4. /\ step = "stream" /\ step' = "preview" /\ preview' = preview /\ lines' = lines
      /\ lineBytes' = lineBytes /\ previewTruncated' = previewTruncated
      /\ stream' = stream /\ left' = left /\ failed' = failed /\ received' = received
  BY DEF WriteStream
<1>5. LogTypeOK'
  BY <1>3, <1>4 DEF LogTypeOK
<1>6. LogsAreBounded'
  BY <1>3, <1>4 DEF LogsAreBounded
<1>7. FilesAccounted'
  <2> SUFFICES ASSUME NEW l \in Log
      PROVE (/\ written[l] + Due(l) <= received[l]
             /\ truncated[l] => written[l] + Due(l) < received[l]
             /\ ~failed /\ ~truncated[l] => written[l] + Due(l) = received[l])'
    BY DEF FilesAccounted
  <2>1. Due(l)' = 0 /\ Due(l) = IF l = stream THEN left ELSE 0
    BY <1>4 DEF Due
  <2>2. written[l] \in Nat /\ received[l] \in Nat /\ written'[l] \in Nat
    BY <1>3 DEF LogTypeOK
  <2>3. CASE l = stream
    BY <1>1, <1>3, <1>4, <2>1, <2>2, <2>3 DEF FilesAccounted
  <2>4. CASE l # stream
    BY <1>3, <1>4, <2>1, <2>2, <2>4 DEF FilesAccounted
  <2> QED
    BY <2>3, <2>4
<1>8. PreviewAccounted'
  BY <1>4 DEF PreviewAccounted, Shown
<1>9. LeftToWrite'
  BY <1>4 DEF LeftToWrite
<1> QED
  BY <1>5, <1>6, <1>7, <1>8, <1>9

LEMMA WriteCombinedKeeps ==
  ASSUME LimitsAreNat, LogInv, NEW n \in Positive, WriteCombined(n)
  PROVE  LogInv'
<1> USE DEF LogInv
<1>1. n \in Nat /\ n > 0 /\ "combined" \in Log /\ "combined" \notin Stream
  BY DEF Positive, Log, Stream
<1>2. WriteBounded("combined", n)
  BY DEF WriteCombined
<1>3. /\ written' \in [Log -> Nat] /\ truncated' \in [Log -> BOOLEAN]
      /\ \A k \in Log \ {"combined"} : written'[k] = written[k] /\ truncated'[k] = truncated[k]
      /\ written'["combined"] <= MaxLogBytes
      /\ written'["combined"] <= written["combined"] + n
      /\ truncated'["combined"] = (truncated["combined"] \/ written'["combined"] # written["combined"] + n)
  BY <1>1, <1>2, BoundedWrite
<1>4. /\ step = "combined" /\ step' = "idle" /\ preview' = preview /\ lines' = lines
      /\ lineBytes' = lineBytes /\ previewTruncated' = previewTruncated
      /\ stream' = stream /\ left' = left /\ failed' = failed
  BY DEF WriteCombined
<1>5. received' \in [Log -> Nat] /\ received'["combined"] = received["combined"] + n
      /\ \A k \in Log \ {"combined"} : received'[k] = received[k]
  BY <1>1 DEF WriteCombined, LogTypeOK
<1>6. LogTypeOK'
  BY <1>3, <1>4, <1>5 DEF LogTypeOK
<1>7. LogsAreBounded'
  BY <1>3, <1>4 DEF LogsAreBounded
<1>8. FilesAccounted'
  <2> SUFFICES ASSUME NEW l \in Log
      PROVE (/\ written[l] + Due(l) <= received[l]
             /\ truncated[l] => written[l] + Due(l) < received[l]
             /\ ~failed /\ ~truncated[l] => written[l] + Due(l) = received[l])'
    BY DEF FilesAccounted
  <2>1. Due(l)' = 0 /\ Due(l) = 0
    BY <1>4 DEF Due
  <2>2. written[l] \in Nat /\ received[l] \in Nat /\ written'[l] \in Nat
    BY <1>3 DEF LogTypeOK
  <2>3. CASE l = "combined"
    BY <1>1, <1>3, <1>4, <1>5, <2>1, <2>2, <2>3 DEF FilesAccounted
  <2>4. CASE l # "combined"
    BY <1>3, <1>4, <1>5, <2>1, <2>2, <2>4 DEF FilesAccounted
  <2> QED
    BY <2>3, <2>4
<1>9. Shown' = Shown
  BY <1>5 DEF Shown, Log, Stream
<1>10. PreviewAccounted'
  BY <1>4, <1>9 DEF PreviewAccounted
<1>11. LeftToWrite'
  BY <1>4 DEF LeftToWrite
<1> QED
  BY <1>6, <1>7, <1>8, <1>10, <1>11

(* A line shown in part takes more from the payload than it adds to the    *)
(* preview, a line shown whole as much.                                    *)
LEMMA LineShown ==
  ASSUME LimitsAreNat, LogInv, NEW n \in Positive, NEW complete \in BOOLEAN, n <= left,
         lines < MaxPreviewLines, preview < MaxPreviewBytes, ShowLine(n, complete)
  PROVE  /\ preview' \in Nat /\ lines' \in Nat /\ lineBytes' \in Nat /\ left' \in Nat
         /\ previewTruncated' \in BOOLEAN
         /\ preview' <= MaxPreviewBytes /\ lines' <= MaxPreviewLines
         /\ lineBytes' <= MaxSingleLineBytes
         /\ preview' + left' <= preview + left
         /\ previewTruncated' =
              (previewTruncated \/ preview' + left' # preview + left)
<1> DEFINE clipped   == Smaller(n, MaxSingleLineBytes - lineBytes)
           remaining == MaxPreviewBytes - preview
           full      == clipped > remaining
           ended     == ~full /\ complete
<1>1. /\ preview \in Nat /\ lines \in Nat /\ lineBytes \in Nat /\ left \in Nat
      /\ previewTruncated \in BOOLEAN
      /\ MaxPreviewBytes \in Nat /\ MaxPreviewLines \in Nat /\ MaxSingleLineBytes \in Nat
      /\ lineBytes <= MaxSingleLineBytes /\ n \in Nat /\ n > 0
  BY DEF LogInv, LogTypeOK, LogsAreBounded, LimitsAreNat, Positive
<1>2. clipped \in Nat /\ clipped <= n /\ clipped <= MaxSingleLineBytes - lineBytes
  BY <1>1 DEF Smaller
<1>3. remaining \in Nat /\ remaining > 0
  BY <1>1
<1>4. /\ preview' = preview + Smaller(clipped, remaining)
      /\ previewTruncated' = (previewTruncated \/ clipped # n \/ full)
      /\ left'  = IF full THEN 0 ELSE left - n
      /\ lines' = IF ended THEN lines + 1 ELSE lines
      /\ lineBytes' = IF ended THEN 0 ELSE lineBytes + clipped
  BY DEF ShowLine
<1>5. remaining = MaxPreviewBytes - preview
  OBVIOUS
<1> HIDE DEF clipped, remaining
<1>6. CASE full
  <2>1. preview' = preview + remaining
    BY <1>2, <1>3, <1>4, <1>6 DEF Smaller
  <2>2. left' = 0 /\ lines' = lines /\ lineBytes' = lineBytes + clipped /\ previewTruncated' = TRUE
    BY <1>4, <1>6
  <2>3. preview' + left' # preview + left /\ preview' + left' <= preview + left
    BY <1>1, <1>2, <1>3, <1>6, <2>1, <2>2
  <2>4. /\ preview' \in Nat /\ preview' <= MaxPreviewBytes
        /\ lineBytes' \in Nat /\ lineBytes' <= MaxSingleLineBytes
    BY <1>1, <1>2, <1>3, <1>5, <2>1, <2>2
  <2>5. lines' \in Nat /\ lines' <= MaxPreviewLines
    BY <1>1, <2>2
  <2>6. left' \in Nat
    BY <2>2
  <2> QED
    BY <2>2, <2>3, <2>4, <2>5, <2>6
<1>7. CASE ~full
  <2>1. preview' = preview + clipped
    BY <1>2, <1>3, <1>4, <1>7 DEF Smaller
  <2>2. left' = left - n /\ previewTruncated' = (previewTruncated \/ clipped # n)
    BY <1>4, <1>7
  <2>3. /\ lines' \in Nat /\ lines' <= MaxPreviewLines
        /\ lineBytes' \in Nat /\ lineBytes' <= MaxSingleLineBytes
    BY <1>1, <1>2, <1>4
  <2>4. (clipped # n) <=> (preview' + left' # preview + left)
    BY <1>1, <1>2, <2>1, <2>2
  <2>5. preview' + left' <= preview + left
    BY <1>1, <1>2, <2>1, <2>2
  <2>6. /\ preview' \in Nat /\ left' \in Nat /\ preview' <= MaxPreviewBytes
        /\ previewTruncated' \in BOOLEAN
    BY <1>1, <1>2, <1>3, <1>5, <1>7, <2>1, <2>2
  <2> QED
    BY <2>2, <2>3, <2>4, <2>5, <2>6
<1> QED
  BY <1>6, <1>7

(* The preview and what is left to show, before and after a line.         *)
LEMMA SumShrinks ==
  ASSUME NEW p \in Nat, NEW q \in Nat, NEW p2 \in Nat, NEW q2 \in Nat, NEW total \in Nat,
         p2 + q2 <= p + q, p + q <= total
  PROVE  /\ p2 + q2 <= total
         /\ p + q < total => p2 + q2 < total
         /\ p2 + q2 # p + q => p2 + q2 < total
OBVIOUS

LEMMA AddLineKeeps ==
  ASSUME LimitsAreNat, LogInv, NEW n \in Positive, NEW complete \in BOOLEAN, AddLine(n, complete)
  PROVE  LogInv'
<1>1. /\ step = "preview" /\ n <= left /\ written' = written /\ truncated' = truncated
      /\ step' = step /\ stream' = stream /\ failed' = failed /\ received' = received
  BY DEF AddLine
<1>2. n \in Nat /\ n > 0 /\ left \in Nat /\ preview \in Nat /\ Shown \in Nat
  BY TotalIsNat DEF Positive, LogInv, LogTypeOK
<1>3. /\ preview' \in Nat /\ lines' \in Nat /\ lineBytes' \in Nat /\ left' \in Nat
      /\ previewTruncated' \in BOOLEAN
      /\ preview' <= MaxPreviewBytes /\ lines' <= MaxPreviewLines
      /\ lineBytes' <= MaxSingleLineBytes
      /\ preview' + left' <= preview + left
      /\ previewTruncated' = (previewTruncated \/ preview' + left' # preview + left)
  <2>1. CASE lines < MaxPreviewLines /\ preview < MaxPreviewBytes
    <3>1. ShowLine(n, complete)
      BY <2>1 DEF AddLine
    <3> QED
      BY <1>1, <2>1, <3>1, LineShown
  <2>2. CASE ~(lines < MaxPreviewLines /\ preview < MaxPreviewBytes)
    <3>1. LeaveOut
      BY <2>2 DEF AddLine
    <3>2. /\ preview' = preview /\ lines' = lines /\ lineBytes' = lineBytes /\ left' = 0
          /\ previewTruncated' = TRUE
      BY <3>1 DEF LeaveOut
    <3>3. preview' + left' # preview + left /\ preview' + left' <= preview + left
      BY <1>1, <1>2, <3>2
    <3>4. /\ preview' \in Nat /\ lines' \in Nat /\ lineBytes' \in Nat /\ left' \in Nat
          /\ preview' <= MaxPreviewBytes /\ lines' <= MaxPreviewLines
          /\ lineBytes' <= MaxSingleLineBytes
      BY <3>2 DEF LogInv, LogTypeOK, LogsAreBounded
    <3> QED
      BY <3>2, <3>3, <3>4
  <2> QED
    BY <2>1, <2>2
<1>4. LogTypeOK'
  BY <1>1, <1>3 DEF LogInv, LogTypeOK
<1>5. LogsAreBounded'
  BY <1>1, <1>3 DEF LogInv, LogsAreBounded
<1>6. FilesAccounted'
  BY <1>1 DEF LogInv, FilesAccounted, Due
<1>7. Shown' = Shown
  BY <1>1 DEF Shown
<1>8. PreviewAccounted'
  <2>1. preview + left <= Shown /\ (previewTruncated => preview + left < Shown)
    BY DEF LogInv, PreviewAccounted
  <2>2. preview \in Nat /\ left \in Nat /\ Shown \in Nat
    BY <1>2
  <2>3. preview' \in Nat /\ left' \in Nat /\ preview' + left' <= preview + left
    BY <1>3
  <2>4. /\ preview' + left' <= Shown
        /\ preview + left < Shown => preview' + left' < Shown
        /\ preview' + left' # preview + left => preview' + left' < Shown
    BY <2>1, <2>2, <2>3, SumShrinks, Zenon
  <2>5. CASE previewTruncated
    <3>1. previewTruncated'
      BY <1>3, <2>5
    <3>2. preview' + left' < Shown
      BY <2>1, <2>5, <2>4, Zenon
    <3> QED
      BY <1>7, <2>4, <3>1, <3>2 DEF PreviewAccounted
  <2>6. CASE ~previewTruncated /\ preview' + left' # preview + left
    <3>1. previewTruncated' = TRUE
      BY <1>3, <2>6
    <3>2. preview' + left' < Shown
      BY <2>6, <2>4, Zenon
    <3> QED
      BY <1>7, <2>4, <3>1, <3>2 DEF PreviewAccounted
  <2>7. CASE ~previewTruncated /\ preview' + left' = preview + left
    <3>1. previewTruncated' = FALSE
      BY <1>3, <2>7
    <3>2. ~failed => preview' + left' = Shown
      BY <2>7 DEF LogInv, PreviewAccounted
    <3> QED
      BY <1>1, <1>7, <2>4, <3>1, <3>2 DEF PreviewAccounted
  <2> QED
    BY <2>5, <2>6, <2>7
<1>9. LeftToWrite'
  BY <1>1 DEF LeftToWrite
<1> QED
  BY <1>4, <1>5, <1>6, <1>8, <1>9 DEF LogInv

LEMMA PreviewAddedKeeps ==
  ASSUME LogInv, PreviewAdded
  PROVE  LogInv'
BY DEF LogInv, PreviewAdded, LogTypeOK, LogsAreBounded, FilesAccounted, Due, PreviewAccounted,
       Shown, LeftToWrite

LEMMA WriteRaisesKeeps ==
  ASSUME LogInv, WriteRaises
  PROVE  LogInv'
<1> USE DEF LogInv
<1>1. /\ step' = "idle" /\ left' = 0 /\ failed' = TRUE /\ written' = written
      /\ truncated' = truncated /\ preview' = preview /\ lines' = lines
      /\ lineBytes' = lineBytes /\ previewTruncated' = previewTruncated
      /\ stream' = stream /\ received' = received
  BY DEF WriteRaises
<1>2. LogTypeOK'
  BY <1>1 DEF LogTypeOK
<1>3. LogsAreBounded'
  BY <1>1 DEF LogsAreBounded
<1>4. FilesAccounted'
  <2> SUFFICES ASSUME NEW l \in Log
      PROVE (/\ written[l] + Due(l) <= received[l]
             /\ truncated[l] => written[l] + Due(l) < received[l]
             /\ ~failed /\ ~truncated[l] => written[l] + Due(l) = received[l])'
    BY DEF FilesAccounted
  <2>1. Due(l)' = 0 /\ Due(l) \in Nat
    BY <1>1 DEF Due, LogTypeOK
  <2>2. written[l] \in Nat /\ received[l] \in Nat
    BY DEF LogTypeOK
  <2> QED
    BY <1>1, <2>1, <2>2 DEF FilesAccounted
<1>5. PreviewAccounted'
  <2>1. Shown \in Nat /\ Shown' = Shown /\ left \in Nat /\ preview \in Nat
    BY <1>1, TotalIsNat DEF LogTypeOK, Shown
  <2> QED
    BY <1>1, <2>1 DEF PreviewAccounted
<1>6. LeftToWrite'
  BY <1>1 DEF LeftToWrite
<1> QED
  BY <1>2, <1>3, <1>4, <1>5, <1>6

LEMMA NextKeeps ==
  ASSUME LimitsAreNat, LogInv, [LogNext]_logVars
  PROVE  LogInv'
<1>1. ASSUME NEW n \in Positive, NEW s \in Stream, Write(s, n) PROVE LogInv'
  BY <1>1, WriteKeeps
<1>2. ASSUME NEW n \in Positive, NEW complete \in BOOLEAN, AddLine(n, complete) PROVE LogInv'
  BY <1>2, AddLineKeeps
<1>3. ASSUME NEW n \in Positive, WriteCombined(n) PROVE LogInv'
  BY <1>3, WriteCombinedKeeps
<1>4. CASE WriteStream
  BY <1>4, WriteStreamKeeps
<1>5. CASE PreviewAdded
  BY <1>5, PreviewAddedKeeps
<1>6. CASE WriteRaises
  BY <1>6, WriteRaisesKeeps
<1>7. CASE UNCHANGED logVars
  BY <1>7 DEF logVars, LogInv, LogTypeOK, LogsAreBounded, FilesAccounted, Due,
              PreviewAccounted, Shown, LeftToWrite
<1> QED
  BY <1>1, <1>2, <1>3, <1>4, <1>5, <1>6, <1>7 DEF LogNext

LEMMA InvHolds == LimitsAreNat => (LogSpec => []LogInv)
<1>1. SUFFICES ASSUME LimitsAreNat PROVE LogSpec => []LogInv
  OBVIOUS
<1>2. LogInit => LogInv
  BY <1>1, InvInit
<1>3. LogInv /\ [LogNext]_logVars => LogInv'
  BY <1>1, NextKeeps
<1> QED
  BY <1>2, <1>3, PTL DEF LogSpec

LEMMA InvIsHonest == LogInv => StateIsHonest
<1> SUFFICES ASSUME LogInv, step = "idle"
    PROVE  /\ LoggingState = "OK" => written = received /\ preview = Shown
           /\ LoggingState = "TRUNCATED" =>
                preview < Shown \/ \E l \in Log : written[l] < received[l]
  BY DEF StateIsHonest, Shown
<1>1. /\ written \in [Log -> Nat] /\ received \in [Log -> Nat] /\ preview \in Nat
      /\ failed \in BOOLEAN /\ left = 0 /\ Shown \in Nat
  BY TotalIsNat DEF LogInv, LogTypeOK, LeftToWrite
<1>2. \A l \in Log : Due(l) = 0
  BY DEF Due
<1>3. ASSUME LoggingState = "OK" PROVE written = received /\ preview = Shown
  <2>1. ~failed /\ ~previewTruncated /\ \A l \in Log : ~truncated[l]
    BY <1>3 DEF LoggingState
  <2>2. \A l \in Log : written[l] = received[l]
    BY <1>1, <1>2, <2>1 DEF LogInv, FilesAccounted
  <2>3. preview = Shown
    BY <1>1, <2>1 DEF LogInv, PreviewAccounted
  <2> QED
    BY <1>1, <2>2, <2>3
<1>4. ASSUME LoggingState = "TRUNCATED"
      PROVE  preview < Shown \/ \E l \in Log : written[l] < received[l]
  <2>1. previewTruncated \/ \E l \in Log : truncated[l]
    BY <1>4 DEF LoggingState
  <2>2. CASE previewTruncated
    BY <1>1, <2>2 DEF LogInv, PreviewAccounted
  <2>3. ASSUME NEW l \in Log, truncated[l] PROVE written[l] < received[l]
    BY <1>1, <1>2, <2>3 DEF LogInv, FilesAccounted
  <2> QED
    BY <2>1, <2>2, <2>3
<1> QED
  BY <1>3, <1>4

-----------------------------------------------------------------------------
(* The counters of the logs keep their types.                              *)
THEOREM LogTypes == LimitsAreNat => (LogSpec => []LogTypeOK)
<1>1. LogInv => LogTypeOK
  BY DEF LogInv
<1> QED
  BY <1>1, InvHolds, PTL

(* No file and no preview of a run grows past its limit.                   *)
THEOREM BoundsHold == LimitsAreNat => (LogSpec => []LogsAreBounded)
<1>1. LogInv => LogsAreBounded
  BY DEF LogInv
<1> QED
  BY <1>1, InvHolds, PTL

(* Once a payload is finished, OK means that nothing is missing and        *)
(* TRUNCATED that something is.                                            *)
THEOREM HonestyHolds == LimitsAreNat => (LogSpec => []StateIsHonest)
BY InvIsHonest, InvHolds, PTL
=============================================================================
