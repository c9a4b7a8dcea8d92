--------------------------- MODULE HttpConnection ---------------------------
(***************************************************************************)
(* The life of one http_conn object: the parser of HttpParser, the answer  *)
(* that process_write prepares and write() sends, and what init() leaves   *)
(* for the next request of a kept connection or for the next client. An    *)
(* answer is a header of HEADER units in m_write_buf and, for a file, FILE *)
(* units of a mapping; writev takes any number of units. What the client   *)
(* gets is not modelled: after a short writev the same m_iv is given to    *)
(* writev again from its start, and the loop may end before all was sent.  *)
(***************************************************************************)
EXTENDS HttpParser

CONSTANTS
  HEADER, FILE,       \* lengths of the two parts of an answer
  Later,              \* what may be sent after the first stream
  MaxLater            \* how often that happens

ASSUME ConnectionAssumption ==
  /\ HEADER \in Nat \ {0} /\ FILE \in Nat \ {0} /\ MaxLater \in Nat
  /\ Later \subseteq Seq(Eol \union Text \union Body)

VARIABLES
  wpc,                \* "none"; "armed", waiting for EPOLLOUT; "writing", in write()
  m_write_idx, iv2,   \* the lengths of m_iv[0] and m_iv[1]
  m_file_address,     \* "null"; what mmap returned: "mapped", or "failed" for MAP_FAILED
  bytes_to_send, bytes_have_send,
  later,              \* how often more was sent
  hungUp,             \* history: a client left before a file was written
  lost                \*   a mapping was overwritten by another one

writeVars == <<wpc, m_write_idx, iv2, bytes_to_send, bytes_have_send>>
historyVars == <<hungUp, lost>>
connVars == <<vars, writeVars, m_file_address, later, historyVars>>

(* Neither the constructor nor init() sets m_file_address: the array of objects is *)
(* so large that its memory comes zeroed from the kernel (main.cpp:17, 66).        *)
ConnInit ==
  /\ Init
  /\ wpc = "none" /\ m_write_idx = 0 /\ iv2 = 0 /\ m_file_address = "null"
  /\ bytes_to_send = 0 /\ bytes_have_send = 0 /\ later = 0
  /\ hungUp = FALSE /\ lost = FALSE

(* init(): the buffers are emptied, so what was read behind the request is lost. *)
ResetRequest(rest) ==
  /\ stream' = rest
  /\ m_read_idx' = 0 /\ m_checked_idx' = 0 /\ m_start_line' = 0
  /\ m_check_state' = "REQUESTLINE" /\ m_linger' = FALSE /\ m_content_length' = 0
  /\ line_status' = "LINE_OK" /\ ret' = "NO_REQUEST" /\ cut' = FALSE

(* Mutant: m_write_idx keeps the length of the last answer. *)
ResetKeepsAnswer(rest) == ResetRequest(rest) /\ UNCHANGED m_write_idx

Reset(rest) == ResetRequest(rest) /\ m_write_idx' = 0

Unread == SubSeq(stream, m_read_idx + 1, Len(stream))

-----------------------------------------------------------------------------
(* process(), after process_read: do_request maps the file; process_write fills    *)
(* m_iv, with one part for an error, and waits for EPOLLOUT.                       *)

Answer(file) ==
  /\ pc = "answered" /\ wpc = "none"
  /\ m_write_idx' = HEADER /\ iv2' = file /\ wpc' = "armed"
  /\ UNCHANGED <<vars, bytes_to_send, bytes_have_send, later, hungUp>>

AnswerError == Answer(0) /\ UNCHANGED <<m_file_address, lost>>

(* The end of do_request, which does not look whether open and mmap succeed. *)
MapFile(address) ==
  /\ ret = "GET_REQUEST"
  /\ m_file_address' = address /\ lost' = (lost \/ m_file_address = "mapped")

AnswerFile == Answer(FILE) /\ \E address \in {"mapped", "failed"} : MapFile(address)

(* An empty file: mmap fails, process_write falls through to its default and the   *)
(* connection is closed.                                                           *)
AnswerEmpty ==
  /\ pc = "answered" /\ wpc = "none"
  /\ MapFile("failed") /\ pc' = "closed" /\ m_write_idx' = HEADER
  /\ UNCHANGED <<stream, indexVars, requestVars, line_status, ret, cut, wpc, iv2,
                 bytes_to_send, bytes_have_send, later, hungUp>>

-----------------------------------------------------------------------------
(* write(), called by the main thread: it counts the header only and always gives  *)
(* m_iv as it is to writev.                                                        *)

StartWrite ==
  /\ wpc = "armed" /\ wpc' = "writing"
  /\ bytes_to_send' = m_write_idx /\ bytes_have_send' = 0
  /\ UNCHANGED <<vars, m_write_idx, iv2, m_file_address, later, historyVars>>

(* What writev can take: MAP_FAILED is no address it can read from. *)
Given == m_write_idx + IF m_file_address = "failed" THEN 0 ELSE iv2

(* Mutant: an exact half of the header does not end the loop. *)
EndedBelow == bytes_to_send' < bytes_have_send'

(* The test that ends the loop: more than half of the header is enough. *)
Ended == bytes_to_send' <= bytes_have_send'

Writev(temp) ==
  /\ wpc = "writing" /\ temp <= Given
  /\ bytes_to_send' = bytes_to_send - temp /\ bytes_have_send' = bytes_have_send + temp

WritevGoesOn(temp) ==
  /\ Writev(temp) /\ ~Ended
  /\ UNCHANGED <<vars, wpc, m_write_idx, iv2, m_file_address, later, historyVars>>

(* unmap(). munmap is given the length of the last file that was looked at, which   *)
(* is that of the mapping unless a client hung up before (hungUp); of MAP_FAILED    *)
(* it undoes nothing.                                                               *)
Unmap == m_file_address' = "null"

WritevEnds(temp) ==
  /\ Writev(temp) /\ Ended
  /\ Unmap /\ wpc' = "none"
  /\ IF m_linger THEN pc' = "read" /\ Reset(Unread)
     ELSE pc' = "closed" /\ UNCHANGED <<stream, indexVars, requestVars, line_status, ret, cut, m_write_idx>>
  /\ UNCHANGED <<iv2, later, historyVars>>

(* Mutant: the file is unmapped before errno is looked at. *)
EagainUnmaps ==
  /\ wpc = "writing" /\ wpc' = "armed" /\ Unmap
  /\ UNCHANGED <<vars, m_write_idx, iv2, bytes_to_send, bytes_have_send, later, historyVars>>

(* Mutant: EAGAIN makes write() begin again instead of return. *)
EagainRestarts ==
  /\ wpc = "writing" /\ bytes_to_send' = m_write_idx /\ bytes_have_send' = 0
  /\ UNCHANGED <<vars, wpc, m_write_idx, iv2, m_file_address, later, historyVars>>

Eagain ==
  /\ wpc = "writing" /\ wpc' = "armed"
  /\ UNCHANGED <<vars, m_write_idx, iv2, bytes_to_send, bytes_have_send, m_file_address, later,
                 historyVars>>

Close ==
  /\ pc' = "closed" /\ wpc' = "none"
  /\ UNCHANGED <<stream, indexVars, requestVars, line_status, ret, cut, m_write_idx, iv2,
                 bytes_to_send, bytes_have_send, later, lost>>

(* Mutant: the file stays mapped. *)
WriteFailsMapped ==
  /\ wpc = "writing" /\ Close /\ UNCHANGED <<m_file_address, hungUp>>

WriteFails ==
  /\ wpc = "writing" /\ Close /\ Unmap /\ UNCHANGED hungUp

-----------------------------------------------------------------------------
(* The client hangs up: main closes the connection, and a file that waits to be    *)
(* written stays mapped. The client, or the next one with the same descriptor and  *)
(* so the same object, sends more.                                                 *)

HangUp ==
  /\ pc = "read" \/ wpc = "armed"
  /\ Close /\ hungUp' = (hungUp \/ m_file_address = "mapped") /\ UNCHANGED m_file_address

MoreArrives(s) ==
  /\ later < MaxLater /\ later' = later + 1
  /\ \/ /\ pc \notin {"closed", "process", "crashed"} /\ stream' = stream \o s
        /\ UNCHANGED <<indexVars, requestVars, line_status, pc, ret, cut, m_write_idx>>
     \/ pc = "closed" /\ Reset(s) /\ pc' = "read"
  /\ UNCHANGED <<wpc, iv2, bytes_to_send, bytes_have_send, m_file_address, historyVars>>

Parse == process_read /\ UNCHANGED <<writeVars, m_file_address, later, historyVars>>

write == StartWrite \/ Eagain \/ WriteFails
           \/ \E temp \in 1..(HEADER + FILE) : WritevGoesOn(temp) \/ WritevEnds(temp)

ConnNext ==
  \/ \E n \in 1..Len(stream) : ReadMore(n) /\ UNCHANGED <<writeVars, m_file_address, later, historyVars>>
  \/ Parse \/ AnswerError \/ AnswerFile \/ AnswerEmpty \/ write
  \/ HangUp \/ \E s \in Later : MoreArrives(s)

ConnSpec == ConnInit /\ [][ConnNext]_connVars

(* The worker goes on with process_read, the main thread with write(). *)
ConnFairSpec == ConnSpec /\ WF_connVars(Parse) /\ WF_connVars(wpc = "writing" /\ write)

-----------------------------------------------------------------------------
(* Properties                                                                      *)

(* Every variable has its type; no loop of write() counts more than one answer and *)
(* less than half a header before it.                                              *)
ConnTypeOK ==
  /\ wpc \in {"none", "armed", "writing"} /\ (wpc # "none" => pc = "answered")
  /\ m_write_idx \in {0, HEADER} /\ iv2 \in {0, FILE}
  /\ m_file_address \in {"null", "mapped", "failed"}
  /\ bytes_to_send \in (0 - HEADER - FILE)..HEADER
  /\ bytes_have_send \in 0..(HEADER + FILE + (HEADER - 1) \div 2)
  /\ later \in 0..MaxLater /\ hungUp \in BOOLEAN /\ lost \in BOOLEAN

(* The mapping that m_iv still points to is never undone while writev may be given *)
(* it again, after any number of short writes, EAGAINs and further requests        *)
(* (http_conn.cpp:350-402). That mmap succeeded nobody knows: if it did not, the    *)
(* address is MAP_FAILED, and the client gets no file (344-347).                    *)
FileKept == wpc # "none" /\ iv2 > 0 => m_file_address # "null"

(* A call of write() returns: every writev that does not end the loop brings its   *)
(* two counts nearer to each other, whatever it takes (http_conn.cpp:369-402).      *)
WriteReturns == wpc = "writing" ~> wpc # "writing"

(* Every mapping is undone, unless the client hung up before its file was written: *)
(* main then closes without unmap (main.cpp:124-127, http_conn.cpp:52-61, 345).    *)
MappingReleased ==
  /\ lost => hungUp
  /\ m_file_address = "mapped" /\ wpc = "none" => hungUp

-----------------------------------------------------------------------------
(* The object as the one connection of ConnectionProtocol.                         *)

Phase == IF pc = "closed" THEN "closed" ELSE IF wpc # "none" THEN "answering"
         ELSE IF pc = "read" THEN "reading" ELSE "processing"

Protocol == INSTANCE ConnectionProtocol WITH
  Conns <- {"object"}, phase <- [c \in {"object"} |-> Phase],
  prepared <- [c \in {"object"} |-> pc # "closed" /\ m_write_idx # 0]

(* From the parser to write() and back, the object goes through the same phases as *)
(* its connection in the server, and m_write_idx is not 0 exactly while an answer  *)
(* waits for write() (http_conn.cpp:52-104, 341-402, 534-550).                     *)
ProtocolSpec == Protocol!Spec
=============================================================================
