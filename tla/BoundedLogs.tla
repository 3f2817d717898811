----------------------------- MODULE BoundedLogs -----------------------------
(***************************************************************************)
(* snooze_core/logging.py: the three log files and the preview of one run  *)
(* of a supervisor.  Two reader threads hand over what they read; a lock   *)
(* is held from the first write of a payload to the last.  Payloads are    *)
(* counted, not kept: a payload is a number of bytes, which splitlines     *)
(* cuts into lines anywhere.                                               *)
(***************************************************************************)
EXTENDS Integers

CONSTANTS MaxLogBytes, MaxPreviewBytes, MaxPreviewLines, MaxSingleLineBytes

(* LogLimits refuses negative limits.                                      *)
LimitsAreNat ==
  /\ MaxLogBytes \in Nat /\ MaxPreviewBytes \in Nat
  /\ MaxPreviewLines \in Nat /\ MaxSingleLineBytes \in Nat

Stream == {"stdout", "stderr"}
Log    == Stream \cup {"combined"}

VARIABLES written,           \* written[l]: bytes written to the file of l
          truncated,         \* truncated[l]: bytes of l were left out
          preview,           \* bytes in the preview
          lines,             \* complete lines in the preview
          lineBytes,         \* bytes in its last line, which is not complete
          previewTruncated,
          step,              \* what follows under the lock, "idle" if it is free
          stream, left,      \* the payload under way: its stream, the bytes to preview
          failed,            \* a write raised: reader_errors is not empty
          received           \* history: received[l]: bytes meant for l

logVars == <<written, truncated, preview, lines, lineBytes, previewTruncated, step, stream,
             left, failed, received>>

LogTypeOK ==
  /\ written   \in [Log -> Nat] /\ received \in [Log -> Nat]
  /\ truncated \in [Log -> BOOLEAN]
  /\ preview \in Nat /\ lines \in Nat /\ lineBytes \in Nat /\ left \in Nat
  /\ previewTruncated \in BOOLEAN /\ failed \in BOOLEAN
  /\ step   \in {"idle", "stream", "preview", "combined"}
  /\ stream \in Stream

LogInit ==
  /\ written   = [l \in Log |-> 0] /\ received = [l \in Log |-> 0]
  /\ truncated = [l \in Log |-> FALSE]
  /\ preview = 0 /\ lines = 0 /\ lineBytes = 0 /\ left = 0
  /\ previewTruncated = FALSE /\ failed = FALSE
  /\ step = "idle" /\ stream = "stdout"

Smaller(m, n) == IF m < n THEN m ELSE n

-----------------------------------------------------------------------------
(* A reader hands over a payload of n bytes of its stream s.               *)
Write(s, n) ==
  /\ step = "idle"
  /\ step' = "stream" /\ stream' = s /\ left' = n
  /\ received' = [received EXCEPT ![s] = @ + n]
  /\ UNCHANGED <<written, truncated, preview, lines, lineBytes, previewTruncated, failed>>

(* As many bytes as the limit leaves room for.                             *)
WriteBounded(l, n) ==
  LET chunk == Smaller(n, MaxLogBytes - written[l])
  IN  /\ written'   = [written EXCEPT ![l] = @ + chunk]
      /\ truncated' = [truncated EXCEPT ![l] = @ \/ chunk # n]

WriteStream ==
  /\ step = "stream"
  /\ WriteBounded(stream, left)
  /\ step' = "preview"
  /\ UNCHANGED <<preview, lines, lineBytes, previewTruncated, stream, left, failed, received>>

(* The rest of the payload is not shown.                                   *)
LeaveOut ==
  /\ previewTruncated' = TRUE
  /\ left' = 0
  /\ UNCHANGED <<preview, lines, lineBytes>>

(* A line of n bytes: cut to the limit of a line, then to that of the      *)
(* preview, which ends the payload.                                        *)
ShowLine(n, complete) ==
  LET clipped   == Smaller(n, MaxSingleLineBytes - lineBytes)
      remaining == MaxPreviewBytes - preview
      full      == clipped > remaining
      ended     == ~full /\ complete
  IN  /\ preview' = preview + Smaller(clipped, remaining)
      /\ previewTruncated' = (previewTruncated \/ clipped # n \/ full)
      /\ left'  = IF full THEN 0 ELSE left - n
      /\ lines' = IF ended THEN lines + 1 ELSE lines
      /\ lineBytes' = IF ended THEN 0 ELSE lineBytes + clipped

(* Of the lines of a payload only the last may be incomplete.              *)
AddLine(n, complete) ==
  /\ step = "preview"
  /\ n <= left
  /\ n < left => complete
  /\ IF lines < MaxPreviewLines /\ preview < MaxPreviewBytes
       THEN ShowLine(n, complete)
       ELSE LeaveOut
  /\ UNCHANGED <<written, truncated, step, stream, failed, received>>

PreviewAdded ==
  /\ step = "preview"
  /\ left = 0
  /\ step' = "combined"
  /\ UNCHANGED <<written, truncated, preview, lines, lineBytes, previewTruncated, stream,
                 left, failed, received>>

(* The envelope of the payload, of n bytes.                                *)
WriteCombined(n) ==
  /\ step = "combined"
  /\ WriteBounded("combined", n)
  /\ received' = [received EXCEPT !["combined"] = @ + n]
  /\ step' = "idle"
  /\ UNCHANGED <<preview, lines, lineBytes, previewTruncated, stream, left, failed>>

(* The write to a file raises: the reader goes on with its next payload.   *)
WriteRaises ==
  /\ step \in {"stream", "combined"}
  /\ step' = "idle" /\ left' = 0
  /\ failed' = TRUE
  /\ UNCHANGED <<written, truncated, preview, lines, lineBytes, previewTruncated, stream,
                 received>>

Positive == Nat \ {0}

LogNext ==
  \/ \E n \in Positive : \/ \E s \in Stream : Write(s, n)
                         \/ \E complete \in BOOLEAN : AddLine(n, complete)
                         \/ WriteCombined(n)
  \/ WriteStream \/ PreviewAdded \/ WriteRaises

LogSpec == LogInit /\ [][LogNext]_logVars

(* The logging state of the result.                                        *)
LoggingState ==
  CASE failed -> "FAILED"
    [] ~failed /\ (previewTruncated \/ \E l \in Log : truncated[l]) -> "TRUNCATED"
    [] OTHER -> "OK"

-----------------------------------------------------------------------------
(* Properties.                                                             *)

(* README.md: "Log files and previews are bounded by max_log_bytes,        *)
(* max_preview_bytes, max_preview_lines and max_single_line_bytes", as far *)
(* as one run of a supervisor is concerned.                                *)
LogsAreBounded ==
  /\ \A l \in Log : written[l] <= MaxLogBytes
  /\ preview <= MaxPreviewBytes /\ lines <= MaxPreviewLines /\ lineBytes <= MaxSingleLineBytes

(* What is not in the files or the preview of a finished payload was not   *)
(* left out silently: a result that says OK has everything, and one that   *)
(* says TRUNCATED lacks something (logging.py, 51-88 and 108-111).         *)
StateIsHonest ==
  step = "idle" =>
    LET total == received["stdout"] + received["stderr"]
    IN  /\ LoggingState = "OK" => written = received /\ preview = total
        /\ LoggingState = "TRUNCATED" =>
             preview < total \/ \E l \in Log : written[l] < received[l]
=============================================================================
