----------------------- MODULE HttpConnection_proofs -----------------------
(***************************************************************************)
(* Theorems about one connection of the web server: the indices of the     *)
(* parser stay in order and in the buffer, write() keeps within its counts *)
(* and keeps what it maps, and requests are recognised when they are       *)
(* complete and, with a length that the parser can count, not before.      *)
(***************************************************************************)
EXTENDS HttpConnection, WellFoundedInduction, TLAPS

(* A set of natural numbers has a least element. *)
LEMMA MinFacts ==
  ASSUME NEW S \in SUBSET Nat, S # {}
  PROVE  Min(S) \in S /\ \A y \in S : Min(S) <= y
<1>1. PICK x \in S : \A y \in S : ~ (<<y, x>> \in OpToRel(<, Nat))
  BY NatLessThanWellFounded, WFMin
<1>2. \A y \in S : x <= y
  <2> SUFFICES ASSUME NEW y \in S PROVE x <= y
    OBVIOUS
  <2>1. ~(y < x)
    BY <1>1 DEF OpToRel
  <2>. QED
    BY <2>1
<1>. QED
  BY <1>2 DEF Min

-----------------------------------------------------------------------------
(* TypeOK of HttpParser in two parts.                                        *)

Tokens == Eol \union Text \union Body

IndexOK ==
  /\ stream \in Seq(Tokens)
  /\ m_start_line \in Nat /\ m_checked_idx \in Nat /\ m_read_idx \in Nat
  /\ m_start_line <= m_checked_idx /\ m_checked_idx <= m_read_idx
  /\ m_read_idx <= Len(stream) /\ m_read_idx <= READ_BUFFER_SIZE

RequestOK ==
  /\ m_check_state \in {"REQUESTLINE", "HEADER", "CONTENT"}
  /\ m_linger \in BOOLEAN /\ m_content_length \in (0 - INT_MAX - 1)..INT_MAX
  /\ line_status \in {"LINE_OK", "LINE_OPEN", "LINE_BAD"}
  /\ pc \in {"read", "process", "answered", "closed", "crashed"}
  /\ ret \in {"NO_REQUEST", "BAD_REQUEST", "GET_REQUEST"} /\ cut \in BOOLEAN

(* An int holds what it is given, and keeps a value that it can hold. *)
LEMMA ToIntFacts ==
  ASSUME NEW v \in Int
  PROVE  /\ ToInt(v) \in (0 - INT_MAX - 1)..INT_MAX
         /\ v \in 0..INT_MAX => ToInt(v) = v
<1>1. INT_MAX \in Nat
  BY ParserAssumption
<1>2. CASE v \in (0 - INT_MAX - 1)..INT_MAX
  BY <1>1, <1>2 DEF ToInt
<1>3. CASE v \notin (0 - INT_MAX - 1)..INT_MAX
  <2> DEFINE w == 2 * (INT_MAX + 1)
             r == (v + INT_MAX + 1) % w
  <2>1. w \in Nat \ {0} /\ v + INT_MAX + 1 \in Int
    BY <1>1
  <2>2. r \in 0..(w - 1)
    <3> HIDE DEF w
    <3>. QED
      BY <2>1
  <2>3. ToInt(v) = r - (INT_MAX + 1)
    BY <1>3 DEF ToInt
  <2> HIDE DEF r
  <2>. QED
    BY <1>1, <1>3, <2>2, <2>3
<1>. QED
  BY <1>2, <1>3

LEMMA RoomFacts ==
  ASSUME NEW s \in Seq(Tokens), NEW n \in Nat
  PROVE  n <= Min({Len(s), READ_BUFFER_SIZE}) <=> n <= Len(s) /\ n <= READ_BUFFER_SIZE
<1>1. {Len(s), READ_BUFFER_SIZE} \in SUBSET Nat
  BY ParserAssumption
<1>2. /\ Min({Len(s), READ_BUFFER_SIZE}) \in {Len(s), READ_BUFFER_SIZE}
      /\ \A y \in {Len(s), READ_BUFFER_SIZE} : Min({Len(s), READ_BUFFER_SIZE}) <= y
  BY <1>1, MinFacts
<1>. QED
  BY <1>1, <1>2

LEMMA TypeParts == TypeOK <=> IndexOK /\ RequestOK
<1>1. ASSUME TypeOK PROVE IndexOK /\ RequestOK
  <2>1. stream \in Seq(Tokens) /\ Len(stream) \in Nat
    BY <1>1 DEF TypeOK, Tokens
  <2>2. Min({Len(stream), READ_BUFFER_SIZE}) \in {Len(stream), READ_BUFFER_SIZE}
    BY <2>1, ParserAssumption, MinFacts
  <2>3. m_read_idx \in Nat /\ m_read_idx <= Min({Len(stream), READ_BUFFER_SIZE})
    BY <1>1, <2>1, <2>2, ParserAssumption DEF TypeOK
  <2>4. m_read_idx <= Len(stream) /\ m_read_idx <= READ_BUFFER_SIZE
    BY <2>1, <2>3, RoomFacts
  <2>5. IndexOK
    BY <1>1, <2>1, <2>3, <2>4 DEF TypeOK, IndexOK
  <2>. QED
    BY <1>1, <2>5 DEF TypeOK, RequestOK
<1>2. ASSUME IndexOK, RequestOK PROVE TypeOK
  <2>1. stream \in Seq(Tokens) /\ Len(stream) \in Nat
    BY <1>2 DEF IndexOK
  <2>2. Min({Len(stream), READ_BUFFER_SIZE}) \in {Len(stream), READ_BUFFER_SIZE}
    BY <2>1, ParserAssumption, MinFacts
  <2>3. m_read_idx \in Nat /\ m_read_idx <= Min({Len(stream), READ_BUFFER_SIZE})
    BY <1>2, <2>1, RoomFacts DEF IndexOK
  <2>4. m_read_idx \in 0..Min({Len(stream), READ_BUFFER_SIZE})
    BY <2>1, <2>2, <2>3, ParserAssumption
  <2>5. m_start_line \in 0..m_checked_idx /\ m_checked_idx \in 0..m_read_idx
    BY <1>2 DEF IndexOK
  <2>. QED
    BY <1>2, <2>4, <2>5 DEF TypeOK, IndexOK, RequestOK, Tokens
<1>. QED
  BY <1>1, <1>2

LEMMA TypePartsNext == IndexOK' /\ RequestOK' => TypeOK'
BY TypeParts, PTL

-----------------------------------------------------------------------------
(* The parser.                                                               *)

(* parse_line stops where it was or further on, and not behind what has been   *)
(* read, also when it skips a line end of two bytes.                           *)
LEMMA FetchedFacts ==
  ASSUME IndexOK
  PROVE  /\ Fetched.checked \in Nat
         /\ m_checked_idx <= Fetched.checked /\ Fetched.checked <= m_read_idx
         /\ Fetched.status \in {"LINE_OK", "LINE_OPEN", "LINE_BAD"}
<1>1. \A status, checked : Line(status, checked).status = status /\ Line(status, checked).checked = checked
  BY DEF Line
<1>2. m_checked_idx \in Nat /\ m_read_idx \in Nat /\ m_checked_idx <= m_read_idx
  BY DEF IndexOK
<1>3. CASE m_check_state = "CONTENT" /\ line_status = "LINE_OK"
  BY <1>1, <1>2, <1>3 DEF Fetched
<1>4. CASE ~(m_check_state = "CONTENT" /\ line_status = "LINE_OK")
  <2>1. Fetched = parse_line
    BY <1>4 DEF Fetched
  <2>2. CASE Ends = {}
    BY <1>1, <1>2, <2>1, <2>2 DEF parse_line
  <2>3. CASE Ends # {}
    <3> DEFINE i == Min(Ends)
    <3>1. Ends \in SUBSET Nat
      BY <1>2 DEF Ends
    <3>2. i \in Ends
      BY <2>3, <3>1, MinFacts
    <3>3. i \in Nat /\ m_checked_idx <= i /\ i < m_read_idx
      BY <1>2, <3>2 DEF Ends
    <3>4. parse_line \in {Line("LINE_OPEN", i), Line("LINE_BAD", i), Line("LINE_OK", i + 1)}
          \/ (i + 1 # m_read_idx /\ parse_line = Line("LINE_OK", i + 2))
      BY <2>3 DEF parse_line
    <3> HIDE DEF i
    <3>. QED
      BY <1>1, <1>2, <2>1, <3>3, <3>4
  <2>. QED
    BY <2>2, <2>3
<1>. QED
  BY <1>3, <1>4

LEMMA ReadTypes ==
  ASSUME TypeOK, NEW n \in Nat, ReadMore(n)
  PROVE  TypeOK'
<1>1. IndexOK /\ RequestOK
  BY TypeParts
<1>2. /\ m_read_idx' = m_read_idx + n
      /\ m_read_idx + n <= Min({Len(stream), READ_BUFFER_SIZE})
      /\ UNCHANGED <<stream, m_checked_idx, m_start_line, m_check_state, m_linger, m_content_length,
                     ret, cut>>
      /\ \/ pc' = "closed" /\ UNCHANGED line_status
         \/ pc' = "process" /\ line_status' = "LINE_OK"
  BY DEF ReadMore, requestVars
<1>3. m_read_idx' \in Nat /\ m_read_idx' <= Len(stream) /\ m_read_idx' <= READ_BUFFER_SIZE
  BY <1>1, <1>2, RoomFacts DEF IndexOK
<1>4. IndexOK'
  BY <1>1, <1>2, <1>3 DEF IndexOK
<1>5. RequestOK'
  BY <1>1, <1>2 DEF RequestOK
<1>. QED
  BY <1>4, <1>5, TypePartsNext

LEMMA ParseTypes ==
  ASSUME TypeOK, process_read
  PROVE  TypeOK' /\ pc' \in {"read", "process", "answered", "crashed"} /\ pc = "process"
<1>1. IndexOK /\ RequestOK
  BY TypeParts
<1>2. /\ UNCHANGED <<stream, m_read_idx>> /\ m_checked_idx' = Fetched.checked
      /\ m_start_line' = m_start_line \/ m_start_line' = Fetched.checked
  BY DEF process_read, NoRequest, ParseRequestLine, ParseHeader, EndHeaders, ParseContent, Turn
<1>3. IndexOK'
  BY <1>1, <1>2, FetchedFacts DEF IndexOK
<1>4. CASE NoRequest
  <2>1. RequestOK'
    BY <1>1, <1>4, FetchedFacts DEF NoRequest, RequestOK, requestVars
  <2>. QED
    BY <1>3, <1>4, <2>1, TypePartsNext DEF NoRequest
<1>5. CASE ParseRequestLine \/ ParseHeader \/ EndHeaders \/ ParseContent
  <2>1. pc = "process" /\ pc' \in {"process", "answered", "crashed"}
        /\ ret' \in {"NO_REQUEST", "BAD_REQUEST", "GET_REQUEST"} /\ cut' = cut
    BY <1>1, <1>5 DEF ParseRequestLine, ParseHeader, EndHeaders, ParseContent, ContentComplete,
                      ContentMissing,
                      Turn, Continue, Return, RequestOK
  <2>2. m_content_length' \in (0 - INT_MAX - 1)..INT_MAX
    <3>1. CASE UNCHANGED m_content_length
      BY <1>1, <3>1 DEF RequestOK
    <3>2. ASSUME NEW h \in DOMAIN Announces, LineText = <<h>>,
    m_content_length' = ToInt(Announces[LineText[1]])
          PROVE  m_content_length' \in (0 - INT_MAX - 1)..INT_MAX
      <4>1. LineText[1] = h /\ Announces[h] \in Int
        BY <3>2, ParserAssumption
      <4>. QED
        BY <3>2, <4>1, ToIntFacts
    <3>. QED
      BY <1>5, <3>1, <3>2 DEF ParseRequestLine, ParseHeader, LengthHeader, EndHeaders, ParseContent,
                              requestVars
  <2>5. m_check_state' \in {"REQUESTLINE", "HEADER", "CONTENT"} /\ line_status' \in {"LINE_OK",
  "LINE_OPEN", "LINE_BAD"}
    BY <1>1, <1>5 DEF ParseRequestLine, ParseHeader, EndHeaders, ParseContent, ContentComplete,
                      ContentMissing,
                      Turn, RequestOK, requestVars
  <2>3. m_linger' \in BOOLEAN
    <3>1. m_linger' = m_linger \/ m_linger' = (m_linger \/ LineText = <<"keep">>)
      BY <1>5 DEF ParseRequestLine, ParseHeader, EndHeaders, ParseContent, requestVars
    <3>. QED
      BY <1>1, <3>1 DEF RequestOK
  <2>4. RequestOK'
    BY <1>1, <2>1, <2>2, <2>3, <2>5 DEF RequestOK
  <2>. QED
    BY <1>3, <2>1, <2>4, TypePartsNext
<1>. QED
  BY <1>4, <1>5 DEF process_read

(* init() of a kept connection or of the next client. *)
LEMMA ResetTypes ==
  ASSUME NEW rest \in Seq(Tokens), Reset(rest), pc' \in {"read", "process", "answered", "closed", "crashed"}
  PROVE  TypeOK'
<1>1. IndexOK'
  BY ParserAssumption DEF Reset, ResetRequest, IndexOK
<1>2. RequestOK'
  <2>1. m_linger' \in BOOLEAN /\ cut' \in BOOLEAN
    BY Zenon DEF Reset, ResetRequest
  <2>2. /\ m_check_state' = "REQUESTLINE" /\ m_content_length' = 0
        /\ line_status' = "LINE_OK" /\ ret' = "NO_REQUEST"
    BY DEF Reset, ResetRequest
  <2>. QED
    BY <2>1, <2>2, ParserAssumption DEF RequestOK
<1>. QED
  BY <1>1, <1>2, TypePartsNext

(* A step that the parser does not see, or that closes the connection. *)
LEMMA OtherTypes ==
  ASSUME TypeOK, UNCHANGED <<stream, indexVars, requestVars, line_status, ret, cut>>,
         pc' \in {"read", "process", "answered", "closed", "crashed"}
  PROVE  TypeOK'
BY DEF TypeOK, indexVars, requestVars

-----------------------------------------------------------------------------
(* The writer. While writev is being called, what was sent is less than what is *)
(* left of the header; so the loop is left with the first answer taken whole.   *)

WriteOK ==
  /\ wpc \in {"none", "armed", "writing"}
  /\ wpc # "none" => pc = "answered" /\ m_write_idx = HEADER
  /\ m_write_idx \in {0, HEADER} /\ iv2 \in {0, FILE}
  /\ bytes_to_send \in (0 - HEADER - FILE)..HEADER
  /\ bytes_have_send \in 0..(HEADER + FILE + (HEADER - 1) \div 2)
  /\ wpc = "writing" => /\ bytes_to_send + bytes_have_send = HEADER
                        /\ bytes_have_send < bytes_to_send
  /\ later \in 0..MaxLater

HistoryOK ==
  /\ m_file_address \in {"null", "mapped", "failed"} /\ hungUp \in BOOLEAN /\ lost \in BOOLEAN

ConnInv == TypeOK /\ WriteOK /\ HistoryOK

LEMMA InitConn == ConnInit => ConnInv
<1> SUFFICES ASSUME ConnInit PROVE ConnInv
  OBVIOUS
<1>1. IndexOK
  BY ParserAssumption DEF ConnInit, Init, IndexOK, Tokens
<1>2. RequestOK
  <2>1. m_linger \in BOOLEAN /\ cut \in BOOLEAN
    BY Zenon DEF ConnInit, Init
  <2>2. /\ m_check_state = "REQUESTLINE" /\ m_content_length = 0
        /\ line_status = "LINE_OK" /\ ret = "NO_REQUEST" /\ pc = "read"
    BY DEF ConnInit, Init
  <2>. QED
    BY <2>1, <2>2, ParserAssumption DEF RequestOK
<1>3. WriteOK
  BY ConnectionAssumption DEF ConnInit, WriteOK
<1>4. HistoryOK
  BY Zenon DEF ConnInit, HistoryOK
<1>. QED
  BY <1>1, <1>2, <1>3, <1>4, TypeParts DEF ConnInv

(* Steps of the parser. *)
LEMMA ParserConn ==
  ASSUME ConnInv, UNCHANGED <<writeVars, m_file_address, later, historyVars>>,
         process_read \/ \E n \in 1..Len(stream) : ReadMore(n)
  PROVE  ConnInv'
<1>1. TypeOK' /\ pc # "answered" /\ m_write_idx' = m_write_idx
  <2>1. CASE process_read
    BY <2>1, ParseTypes DEF ConnInv, writeVars
  <2>2. CASE \E n \in 1..Len(stream) : ReadMore(n)
    <3>1. PICK n \in 1..Len(stream) : ReadMore(n)
      BY <2>2
    <3>2. n \in Nat
      BY <3>1 DEF ConnInv, TypeOK
    <3>. QED
      BY <3>1, <3>2, ReadTypes DEF ConnInv, ReadMore, writeVars
  <2>. QED
    BY <2>1, <2>2
<1>2. UNCHANGED <<wpc, m_write_idx, iv2, bytes_to_send, bytes_have_send, m_file_address, later,
                  hungUp, lost>>
  BY DEF writeVars, historyVars
<1>3. WriteOK' /\ wpc = "none"
  BY <1>1, <1>2 DEF ConnInv, WriteOK
<1>4. HistoryOK'
  BY <1>2 DEF ConnInv, HistoryOK
<1>. QED
  BY <1>1, <1>3, <1>4 DEF ConnInv

(* process_write, and write() where it does not reset the object. *)
LEMMA AnswerConn ==
  ASSUME ConnInv, AnswerError \/ AnswerFile \/ AnswerEmpty
  PROVE  ConnInv'
<1>1. /\ pc = "answered" /\ UNCHANGED <<stream, indexVars, requestVars, line_status, ret, cut>>
      /\ pc' \in {"answered", "closed"} /\ m_write_idx' = HEADER
      /\ UNCHANGED <<bytes_to_send, bytes_have_send, later, hungUp>>
  BY DEF AnswerError, AnswerFile, AnswerEmpty, Answer, vars
<1>2. /\ \/ wpc' = "armed" /\ pc' = "answered" /\ iv2' \in {0, FILE}
         \/ wpc' = "none" /\ UNCHANGED iv2
      /\ wpc = "none"
  BY DEF AnswerError, AnswerFile, AnswerEmpty, Answer, vars
<1>3. TypeOK'
  BY <1>1, OtherTypes DEF ConnInv
<1>4. WriteOK'
  BY <1>1, <1>2 DEF ConnInv, WriteOK
<1>5. HistoryOK'
  <2>1. /\ m_file_address' = m_file_address \/ m_file_address' \in {"mapped", "failed"}
        /\ lost' = lost \/ lost' = (lost \/ m_file_address = "mapped")
    BY DEF AnswerError, AnswerFile, AnswerEmpty, MapFile
  <2>2. lost' \in BOOLEAN
    BY <2>1, Zenon DEF ConnInv, HistoryOK
  <2>3. m_file_address' \in {"null", "mapped", "failed"} /\ hungUp' \in BOOLEAN
    BY <1>1, <2>1 DEF ConnInv, HistoryOK
  <2>. QED
    BY <2>2, <2>3 DEF HistoryOK
<1>. QED
  BY <1>3, <1>4, <1>5 DEF ConnInv

(* What one writev does to the counts. *)
LEMMA WritevFacts ==
  ASSUME ConnInv, NEW temp \in 1..(HEADER + FILE), Writev(temp)
  PROVE  /\ bytes_to_send' \in (0 - HEADER - FILE)..HEADER
         /\ bytes_have_send' \in 0..(HEADER + FILE + (HEADER - 1) \div 2)
         /\ bytes_to_send' + bytes_have_send' = HEADER
<1>1. /\ wpc = "writing" /\ bytes_to_send' = bytes_to_send - temp
      /\ bytes_have_send' = bytes_have_send + temp
  BY DEF Writev
<1>2. /\ HEADER \in Nat \ {0} /\ FILE \in Nat \ {0}
      /\ bytes_to_send \in Int /\ bytes_have_send \in Nat
      /\ bytes_to_send + bytes_have_send = HEADER /\ bytes_have_send < bytes_to_send
      /\ m_write_idx = HEADER /\ iv2 \in {0, FILE}
  BY <1>1, ConnectionAssumption DEF ConnInv, WriteOK
<1>3. bytes_have_send <= (HEADER - 1) \div 2
  BY <1>2
<1>4. (HEADER - 1) \div 2 \in Int
  BY <1>2
<1>5. bytes_have_send' \in 0..(HEADER + FILE + (HEADER - 1) \div 2)
  BY <1>1, <1>2, <1>3, <1>4
<1>6. /\ bytes_to_send' \in (0 - HEADER - FILE)..HEADER
      /\ bytes_to_send' + bytes_have_send' = HEADER
  BY <1>1, <1>2
<1>. QED
  BY <1>5, <1>6

LEMMA WritevConn ==
  ASSUME ConnInv, NEW temp \in 1..(HEADER + FILE), WritevGoesOn(temp) \/ WritevEnds(temp)
  PROVE  ConnInv'
<1>1. /\ Writev(temp) /\ wpc = "writing" /\ pc = "answered"
      /\ iv2' = iv2 /\ later' = later /\ hungUp' = hungUp /\ lost' = lost
  BY DEF WritevGoesOn, WritevEnds, Writev, ConnInv, WriteOK, historyVars
<1>2. /\ bytes_to_send' \in (0 - HEADER - FILE)..HEADER
      /\ bytes_have_send' \in 0..(HEADER + FILE + (HEADER - 1) \div 2)
      /\ bytes_to_send' + bytes_have_send' = HEADER
  BY <1>1, WritevFacts
<1>4. CASE WritevGoesOn(temp)
  <2>1. UNCHANGED <<vars, wpc, m_write_idx, m_file_address>> /\ ~Ended
    BY <1>4 DEF WritevGoesOn
  <2>2. bytes_have_send' < bytes_to_send'
    BY <1>2, <2>1, ConnectionAssumption DEF Ended
  <2>3. TypeOK'
    BY <2>1, OtherTypes DEF vars, ConnInv, TypeOK
  <2>4. WriteOK'
    BY <1>1, <1>2, <2>1, <2>2 DEF vars, ConnInv, WriteOK
  <2>5. HistoryOK'
    BY <1>1, <2>1 DEF ConnInv, HistoryOK
  <2>. QED
    BY <2>3, <2>4, <2>5 DEF ConnInv
<1>5. CASE WritevEnds(temp)
  <2>1. /\ m_file_address' = "null" /\ wpc' = "none"
        /\ \/ pc' = "read" /\ Reset(Unread)
           \/ /\ pc' = "closed"
              /\ UNCHANGED <<stream, indexVars, requestVars, line_status, ret, cut, m_write_idx>>
    BY <1>5 DEF WritevEnds, Unmap
  <2>2. TypeOK'
    <3>1. Unread \in Seq(Tokens)
      <4>1. IndexOK
        BY TypeParts DEF ConnInv
      <4>. QED
        BY <4>1 DEF Unread, IndexOK
    <3>. QED
      BY <2>1, <3>1, ResetTypes, OtherTypes DEF ConnInv
  <2>3. m_write_idx' \in {0, HEADER}
    BY <2>1 DEF Reset, ResetRequest, ConnInv, WriteOK
  <2>4. WriteOK'
    BY <1>1, <1>2, <2>1, <2>3 DEF ConnInv, WriteOK
  <2>5. HistoryOK'
    BY <1>1, <2>1 DEF ConnInv, HistoryOK
  <2>. QED
    BY <2>2, <2>4, <2>5 DEF ConnInv
<1>. QED
  BY <1>4, <1>5

(* The beginning of write(), and its ends without an answer. *)
LEMMA WriteConn ==
  ASSUME ConnInv, StartWrite \/ Eagain \/ WriteFails \/ HangUp
  PROVE  ConnInv'
<1>1. /\ UNCHANGED <<stream, indexVars, requestVars, line_status, ret, cut, m_write_idx, iv2,
                     later, lost>>
      /\ \/ pc' = "closed" /\ wpc' = "none"
         \/ pc' = pc /\ wpc # "none" /\ wpc' \in {"armed", "writing"}
      /\ \/ UNCHANGED <<bytes_to_send, bytes_have_send>> /\ wpc' # "writing"
         \/ bytes_to_send' = m_write_idx /\ bytes_have_send' = 0 /\ wpc # "none"
  BY DEF StartWrite, Eagain, WriteFails, HangUp, Close, vars, historyVars
<1>2. TypeOK'
  BY <1>1, OtherTypes DEF ConnInv, TypeOK
<1>3. WriteOK'
  <2>1. CASE UNCHANGED <<bytes_to_send, bytes_have_send>> /\ wpc' # "writing"
    BY <1>1, <2>1 DEF ConnInv, WriteOK
  <2>2. CASE bytes_to_send' = m_write_idx /\ bytes_have_send' = 0 /\ wpc # "none"
    <3>1. bytes_to_send' = HEADER
      BY <2>2 DEF ConnInv, WriteOK
    <3>2. /\ bytes_to_send' \in (0 - HEADER - FILE)..HEADER
          /\ bytes_have_send' \in 0..(HEADER + FILE + (HEADER - 1) \div 2)
          /\ bytes_to_send' + bytes_have_send' = HEADER /\ bytes_have_send' < bytes_to_send'
      <4>1. (HEADER - 1) \div 2 \in Nat
        BY ConnectionAssumption
      <4>. QED
        BY <2>2, <3>1, <4>1, ConnectionAssumption
    <3>. QED
      BY <1>1, <3>2 DEF ConnInv, WriteOK
  <2>. QED
    BY <1>1, <2>1, <2>2
<1>4. HistoryOK'
  <2>1. /\ m_file_address' = m_file_address \/ m_file_address' = "null"
        /\ hungUp' = hungUp \/ hungUp' = (hungUp \/ m_file_address = "mapped")
    BY DEF StartWrite, Eagain, WriteFails, HangUp, Close, Unmap, historyVars
  <2>2. hungUp' \in BOOLEAN
    BY <2>1, Zenon DEF ConnInv, HistoryOK
  <2>. QED
    BY <1>1, <2>1, <2>2 DEF ConnInv, HistoryOK
<1>. QED
  BY <1>2, <1>3, <1>4 DEF ConnInv

LEMMA MoreConn ==
  ASSUME ConnInv, NEW s \in Later, MoreArrives(s)
  PROVE  ConnInv'
<1>1. /\ later < MaxLater /\ later' = later + 1
      /\ UNCHANGED <<wpc, iv2, bytes_to_send, bytes_have_send, m_file_address, hungUp, lost>>
      /\ \/ /\ stream' = stream \o s /\ pc' = pc
            /\ UNCHANGED <<indexVars, requestVars, line_status, ret, cut, m_write_idx>>
         \/ pc = "closed" /\ Reset(s) /\ pc' = "read"
  BY DEF MoreArrives, historyVars
<1>2. s \in Seq(Tokens) /\ IndexOK /\ RequestOK
  BY ConnectionAssumption, TypeParts DEF Tokens, ConnInv
<1>3. TypeOK'
  <2>1. CASE /\ stream' = stream \o s /\ pc' = pc
             /\ UNCHANGED <<indexVars, requestVars, line_status, ret, cut, m_write_idx>>
    <3>1. stream' \in Seq(Tokens) /\ Len(stream') >= Len(stream) /\ Len(stream) \in Nat /\ Len(stream') \in Nat
      BY <1>2, <2>1 DEF IndexOK
    <3>2. IndexOK'
      BY <1>2, <2>1, <3>1, ParserAssumption DEF IndexOK, indexVars
    <3>3. RequestOK'
      BY <1>2, <2>1 DEF RequestOK, requestVars
    <3>. QED
      BY <3>2, <3>3, TypePartsNext
  <2>2. CASE Reset(s) /\ pc' = "read"
    BY <1>2, <2>2, ResetTypes
  <2>. QED
    BY <1>1, <2>1, <2>2
<1>4. WriteOK'
  <2>1. later' \in 0..MaxLater
    BY <1>1, ConnectionAssumption DEF ConnInv, WriteOK
  <2>2. m_write_idx' \in {0, HEADER} /\ (wpc # "none" => pc' = "answered" /\ m_write_idx' = HEADER)
    BY <1>1 DEF ConnInv, WriteOK, Reset, ResetRequest
  <2>. QED
    BY <1>1, <2>1, <2>2 DEF ConnInv, WriteOK
<1>5. HistoryOK'
  BY <1>1 DEF ConnInv, HistoryOK
<1>. QED
  BY <1>3, <1>4, <1>5 DEF ConnInv

LEMMA StepConn == ConnInv /\ [ConnNext]_connVars => ConnInv'
<1> SUFFICES ASSUME ConnInv, [ConnNext]_connVars PROVE ConnInv'
  OBVIOUS
<1>1. CASE ConnNext
  BY <1>1, ParserConn, AnswerConn, WritevConn, WriteConn, MoreConn DEF ConnNext, Parse, write
<1>2. CASE UNCHANGED connVars
  <2>1. UNCHANGED <<vars, writeVars, m_file_address, later, historyVars>>
    BY <1>2 DEF connVars
  <2>2. TypeOK'
    BY <2>1, OtherTypes DEF ConnInv, vars, TypeOK
  <2>3. WriteOK' /\ HistoryOK'
    BY <2>1 DEF ConnInv, WriteOK, HistoryOK, vars, writeVars, historyVars
  <2>. QED
    BY <2>2, <2>3 DEF ConnInv
<1>. QED
  BY <1>1, <1>2

LEMMA ConnInvariant == ConnSpec => []ConnInv
<1>1. ConnInit => ConnInv
  BY InitConn
<1>2. ConnInv /\ [ConnNext]_connVars => ConnInv'
  BY StepConn
<1>. QED
  BY <1>1, <1>2, PTL DEF ConnSpec

(* The indices of the parser stay in order and within the buffer, whatever the  *)
(* stream and the pieces in which it comes, and over all requests of the object *)
(* (http_conn.cpp:78-160, 267-322).                                             *)
THEOREM IndicesCorrect == ConnSpec => []TypeOK
<1>1. ConnInv => TypeOK
  BY DEF ConnInv
<1>. QED
  BY <1>1, ConnInvariant, PTL

(* The loop of write() never counts more than one answer and less than half a   *)
(* header (http_conn.cpp:355-402).                                              *)
THEOREM WriteCounts == ConnSpec => []ConnTypeOK
<1>1. ConnInv => ConnTypeOK
  BY DEF ConnInv, WriteOK, HistoryOK, ConnTypeOK
<1>. QED
  BY <1>1, ConnInvariant, PTL

MapInv == FileKept /\ MappingReleased /\ HistoryOK

(* For every length of header and file, and whatever writev takes: no mapping is  *)
(* undone while m_iv points to it, and only a client that hangs up while its file *)
(* waits leaves one behind (http_conn.cpp:324-402; main.cpp:124-127).             *)
THEOREM MappingsCorrect == ConnSpec => [](FileKept /\ MappingReleased)
<1>1. ConnInit => MapInv
  BY InitConn DEF ConnInit, ConnInv, MapInv, FileKept, MappingReleased
<1>2. ConnInv /\ MapInv /\ ConnInv' /\ [ConnNext]_connVars => MapInv'
  <2> SUFFICES ASSUME ConnInv, MapInv, ConnInv', [ConnNext]_connVars PROVE MapInv'
    OBVIOUS
  <2>1. CASE UNCHANGED <<wpc, iv2, m_file_address, hungUp, lost>>
    BY <2>1 DEF MapInv, FileKept, MappingReleased, ConnInv
  <2>2. CASE AnswerError
    BY <2>2 DEF AnswerError, Answer, MapInv, FileKept, MappingReleased, ConnInv
  <2>3. CASE AnswerFile
    BY <2>3 DEF AnswerFile, Answer, MapFile, MapInv, FileKept, MappingReleased, ConnInv
  <2>4. CASE AnswerEmpty
    BY <2>4 DEF AnswerEmpty, MapFile, MapInv, FileKept, MappingReleased, ConnInv
  <2>5. CASE StartWrite \/ Eagain
    BY <2>5 DEF StartWrite, Eagain, historyVars, MapInv, FileKept, MappingReleased, ConnInv
  <2>6. CASE WriteFails
    BY <2>6 DEF WriteFails, Close, Unmap, MapInv, FileKept, MappingReleased, ConnInv
  <2>7. ASSUME NEW temp, WritevGoesOn(temp) PROVE MapInv'
    BY <2>7, <2>1 DEF WritevGoesOn, historyVars
  <2>8. ASSUME NEW temp, WritevEnds(temp) PROVE MapInv'
    BY <2>8 DEF WritevEnds, Unmap, historyVars, MapInv, FileKept, MappingReleased, ConnInv
  <2>9. CASE HangUp
    BY <2>9 DEF HangUp, Close, MapInv, FileKept, MappingReleased, ConnInv
  <2>10. ASSUME NEW s, MoreArrives(s) PROVE UNCHANGED <<wpc, iv2, m_file_address, hungUp, lost>>
    BY <2>10 DEF MoreArrives, historyVars
  <2>11. CASE UNCHANGED <<writeVars, m_file_address, later, historyVars>>
    BY <2>1, <2>11 DEF writeVars, historyVars
  <2>12. CASE UNCHANGED connVars
    BY <2>11, <2>12 DEF connVars
  <2>. QED
    BY <2>1, <2>2, <2>3, <2>4, <2>5, <2>6, <2>7, <2>8, <2>9, <2>10, <2>11, <2>12 DEF ConnNext, Parse, write
<1>3. MapInv => FileKept /\ MappingReleased
  BY DEF MapInv
<1>. QED
  BY <1>1, <1>2, <1>3, ConnInvariant, PTL DEF ConnSpec

-----------------------------------------------------------------------------
(* Requests as positions of a stream. HeadTo: s[1..p] are the request line and    *)
(* headers, each complete; HeadAt: and e is the end of the head; FieldsTo: c and   *)
(* l are what an int and m_linger keep of these headers; Stuck: no line can be     *)
(* completed from i, with the first m tokens.                                      *)

NoEol(s, a, b) == \A n \in (a + 1)..b : s[n] \notin Eol

GetFirst(s, e) == s[1] = "get" /\ s[2] = "cr" /\ Clean(s, e)

HeadTo(s, p) ==
  /\ p \in Nat /\ p >= 3 /\ GetFirst(s, p) /\ s[p - 1] = "cr" /\ s[p] = "lf"
  /\ \A n \in 1..p : ~EndsHead(s, n)

HeadAt(s, e) ==
  /\ e \in Nat /\ GetFirst(s, e) /\ EndsHead(s, e)
  /\ \A n \in 1..(e - 1) : ~EndsHead(s, n)

LengthIs(s, e, c) ==
  \/ Lengths(s, e) = {} /\ c = 0
  \/ \E m \in Lengths(s, e) : /\ \A n \in Lengths(s, e) : n <= m
                              /\ c = ToInt(Announces[s[m]])

FieldsTo(s, e, c, l) == LengthIs(s, e, c) /\ (l <=> HeaderLines(s, e, {"keep"}) # {})

Stuck(s, i, m) ==
  \/ i = m
  \/ s[i + 1] = "cr" /\ (i + 1 = m \/ s[i + 2] # "lf")
  \/ s[i + 1] = "lf" /\ (i = 0 \/ s[i] # "cr")

LEMMA MaxIs ==
  ASSUME NEW S \in SUBSET Int, NEW m \in S, \A n \in S : n <= m
  PROVE  Max(S) = m
<1>1. \A y \in S : m >= y
  OBVIOUS
<1>2. Max(S) \in S /\ \A y \in S : Max(S) >= y
  BY <1>1 DEF Max
<1>3. Max(S) \in Int /\ m \in Int /\ Max(S) >= m /\ Max(S) <= m
  BY <1>2
<1>. QED
  BY <1>3

LEMMA MinIs ==
  ASSUME NEW S \in SUBSET Int, NEW m \in S, \A n \in S : m <= n
  PROVE  Min(S) = m
<1>1. Min(S) \in S /\ \A y \in S : Min(S) <= y
  BY DEF Min
<1>2. Min(S) \in Int /\ m \in Int /\ Min(S) >= m /\ Min(S) <= m
  BY <1>1
<1>. QED
  BY <1>2

(* An int keeps every length that the parser can count. *)
LEMMA LengthFound ==
  ASSUME NEW s, NEW c, LengthIs(s, HeadEnd(s), c), ContentLength(s) \in Countable
  PROVE  ContentLength(s) = c
<1> DEFINE L == Lengths(s, HeadEnd(s))
<1>1. L \in SUBSET Int /\ \A n \in L : s[n] \in DOMAIN Announces
  BY DEF Lengths, HeaderLines
<1>2. CASE L = {}
  BY <1>2 DEF LengthIs, ContentLength
<1>3. ASSUME NEW m \in L, \A n \in L : n <= m, c = ToInt(Announces[s[m]])
      PROVE  ContentLength(s) = c
  <2>1. Max(L) = m
    BY <1>1, <1>3, MaxIs
  <2>2. ContentLength(s) = Announces[s[m]] /\ Announces[s[m]] \in Int
    BY <1>1, <2>1, ParserAssumption DEF ContentLength
  <2>3. Announces[s[m]] \in 0..INT_MAX
    BY <2>2, ParserAssumption DEF Countable
  <2>. QED
    BY <1>3, <2>2, <2>3, ToIntFacts
<1>. QED
  BY <1>2, <1>3 DEF LengthIs

(* The head ends where its first empty line does. *)
LEMMA HeadFound ==
  ASSUME NEW s \in Seq(Tokens), NEW e, HeadAt(s, e), e <= Len(s)
  PROVE  e \in HeadEnds(s) /\ HeadEnd(s) = e
<1>1. e \in HeadEnds(s) /\ HeadEnds(s) \in SUBSET Int
  BY DEF HeadAt, EndsHead, HeadEnds
<1>2. \A n \in HeadEnds(s) : e <= n
  BY DEF HeadAt, HeadEnds
<1>. QED
  BY <1>1, <1>2, MinIs DEF HeadEnd

(* All of this is about the tokens up to e only. *)
LEMMA SameTokens ==
  ASSUME NEW s, NEW t, NEW e \in Nat, \A n \in 1..e : s[n] = t[n]
  PROVE  /\ \A T : HeaderLines(s, e, T) = HeaderLines(t, e, T)
         /\ \A c, l : FieldsTo(s, e, c, l) => FieldsTo(t, e, c, l)
         /\ HeadTo(s, e) => HeadTo(t, e)
         /\ HeadAt(s, e) => HeadAt(t, e)
         /\ \A a \in Nat : NoEol(s, a, e) => NoEol(t, a, e)
<1>1. \A T : HeaderLines(s, e, T) = HeaderLines(t, e, T)
  BY DEF HeaderLines
<1>2. \A c, l : FieldsTo(s, e, c, l) => FieldsTo(t, e, c, l)
  <2>1. Lengths(s, e) = Lengths(t, e) /\ \A m \in Lengths(s, e) : m \in 1..e
    BY <1>1 DEF Lengths, HeaderLines
  <2>. QED
    BY <1>1, <2>1 DEF FieldsTo, LengthIs
<1>3. Clean(s, e) => Clean(t, e)
  BY DEF Clean
<1>4. \A n \in 1..e : EndsHead(s, n) <=> EndsHead(t, n)
  <2> SUFFICES ASSUME NEW n \in 1..e PROVE EndsHead(s, n) <=> EndsHead(t, n)
    OBVIOUS
  <2>1. CASE n >= 4
    <3>1. n - 3 \in 1..e /\ n - 2 \in 1..e /\ n - 1 \in 1..e
      BY <2>1
    <3>. QED
      BY <3>1 DEF EndsHead
  <2>2. CASE ~(n >= 4)
    BY <2>2 DEF EndsHead
  <2>. QED
    BY <2>1, <2>2
<1>5. HeadTo(s, e) => HeadTo(t, e)
  BY <1>3, <1>4 DEF HeadTo, GetFirst
<1>6. HeadAt(s, e) => HeadAt(t, e)
  <2>1. EndsHead(s, e) => e \in 1..e /\ 1 \in 1..e /\ 2 \in 1..e
    BY DEF EndsHead
  <2>. QED
    BY <1>3, <1>4, <2>1 DEF HeadAt, GetFirst
<1>7. \A a \in Nat : NoEol(s, a, e) => NoEol(t, a, e)
  BY DEF NoEol
<1>. QED
  BY <1>1, <1>2, <1>5, <1>6, <1>7

(* One more line, that ends at q. *)
LEMMA NextLine ==
  ASSUME NEW s, NEW p, HeadTo(s, p), NEW q \in Nat, q >= p + 2,
         NoEol(s, p, q - 2), s[q - 1] = "cr", s[q] = "lf"
  PROVE  /\ q = p + 2 => HeadAt(s, q)
         /\ q # p + 2 => HeadTo(s, q)
         /\ \A T \in SUBSET Text :
              HeaderLines(s, q, T)
                = HeaderLines(s, p, T) \union (IF q = p + 3 /\ s[p + 1] \in T THEN {p + 1} ELSE {})
<1>1. p \in Nat /\ p >= 3 /\ s[p - 1] = "cr" /\ s[p] = "lf"
  BY DEF HeadTo
<1>2. \A n \in (p + 1)..(q - 2) : s[n] # "cr" /\ s[n] # "lf"
  BY DEF NoEol, Eol
<1>3. GetFirst(s, q)
  <2>1. \A n \in 1..q : n \in 1..p \/ n \in (p + 1)..(q - 2) \/ n = q - 1 \/ n = q
    BY <1>1
  <2>2. Clean(s, p) /\ s[1] = "get" /\ s[2] = "cr"
    BY DEF HeadTo, GetFirst
  <2>3. \A n \in 1..p : /\ s[n] = "cr" => n < q /\ s[n + 1] = "lf"
                        /\ s[n] = "lf" => n > 1 /\ s[n - 1] = "cr"
    BY <1>1, <2>2 DEF Clean
  <2>4. (q - 1) + 1 = q /\ q - 1 < q /\ q > 1
    BY <1>1
  <2>5. Clean(s, q)
    BY <1>2, <2>1, <2>3, <2>4 DEF Clean
  <2>. QED
    BY <2>2, <2>5 DEF GetFirst
<1>4. \A n \in 1..(q - 1) : ~EndsHead(s, n)
  <2> SUFFICES ASSUME NEW n \in 1..(q - 1), EndsHead(s, n) PROVE FALSE
    OBVIOUS
  <2>1. n \notin 1..p
    BY DEF HeadTo
  <2>2. s[n] = "lf"
    BY DEF EndsHead
  <2>3. n = q - 1 \/ n \in (p + 1)..(q - 2)
    BY <1>1, <2>1
  <2>. QED
    BY <1>2, <2>2, <2>3
<1>5. ASSUME q = p + 2 PROVE HeadAt(s, q)
  <2>1. q - 3 = p - 1 /\ q - 2 = p /\ q >= 4
    BY <1>1, <1>5
  <2>2. EndsHead(s, q)
    BY <1>1, <2>1 DEF EndsHead
  <2>. QED
    BY <1>3, <1>4, <2>2 DEF HeadAt
<1>6. ASSUME q # p + 2 PROVE HeadTo(s, q)
  <2>1. ~EndsHead(s, q)
    <3>1. q - 2 \in (p + 1)..(q - 2)
      BY <1>1, <1>6
    <3>. QED
      BY <1>2, <3>1 DEF EndsHead
  <2>. QED
    BY <1>1, <1>3, <1>4, <2>1 DEF HeadTo
<1>7. ASSUME NEW T \in SUBSET Text
      PROVE  HeaderLines(s, q, T)
               = HeaderLines(s, p, T) \union (IF q = p + 3 /\ s[p + 1] \in T THEN {p + 1} ELSE {})
  <2>1. "lf" \notin T /\ "cr" \notin T
    BY ParserAssumption DEF Text, Eol
  <2>2. \A n \in 2..(p - 1) : n \in 2..(q - 1)
    BY <1>1
  <2>3. \A n \in 2..(q - 1) : n \in 2..(p - 1) \/ n = p \/ n \in (p + 1)..(q - 2) \/ n = q - 1
    BY <1>1
  <2>4. ASSUME NEW n \in (p + 1)..(q - 2)
        PROVE  s[n - 1] = "lf" /\ s[n + 1] = "cr" <=> n = p + 1 /\ q = p + 3
    <3>1. CASE n = p + 1 /\ q = p + 3
      <4>1. n - 1 = p /\ n + 1 = q - 1
        BY <1>1, <3>1
      <4>. QED
        BY <1>1, <3>1, <4>1
    <3>2. CASE n # p + 1
      <4>1. n - 1 \in (p + 1)..(q - 2)
        BY <1>1, <3>2
      <4>. QED
        BY <1>2, <3>2, <4>1
    <3>3. CASE n = p + 1 /\ q # p + 3
      <4>1. n + 1 \in (p + 1)..(q - 2)
        BY <1>1, <3>3
      <4>. QED
        BY <1>2, <3>3, <4>1
    <3>. QED
      BY <3>1, <3>2, <3>3
  <2>5. q = p + 3 => p + 1 \in (p + 1)..(q - 2) /\ p + 1 \in 2..(q - 1)
    BY <1>1
  <2>. QED
    BY <1>1, <2>1, <2>2, <2>3, <2>4, <2>5 DEF HeaderLines
<1>. QED
  BY <1>5, <1>6, <1>7

(* parse_line goes from the start of a line without line ends to its end, or to  *)
(* where it cannot go on.                                                        *)
LEMMA LineFound ==
  ASSUME IndexOK, m_check_state # "CONTENT", NoEol(stream, m_start_line, m_checked_idx),
         m_start_line = 0 \/ stream[m_start_line] = "lf",
         NEW q, q = Fetched.checked
  PROVE  /\ q \in Nat /\ m_checked_idx <= q /\ q <= m_read_idx
         /\ Fetched.status = "LINE_OK"
              => /\ q >= m_start_line + 2 /\ NoEol(stream, m_start_line, q - 2)
                 /\ stream[q - 1] = "cr" /\ stream[q] = "lf"
         /\ Fetched.status # "LINE_OK"
              => NoEol(stream, m_start_line, q) /\ Stuck(stream, q, m_read_idx)
<1>1. /\ m_checked_idx \in Nat /\ m_read_idx \in Nat /\ m_start_line \in Nat
      /\ m_start_line <= m_checked_idx /\ m_checked_idx <= m_read_idx
  BY DEF IndexOK
<1>2. \A status, checked : Line(status, checked).status = status /\ Line(status, checked).checked = checked
  BY DEF Line
<1>3. Fetched = parse_line
  BY DEF Fetched
<1>4. \A n \in (m_start_line + 1)..m_checked_idx : stream[n] \notin Eol
  BY DEF NoEol
<1>5. CASE Ends = {}
  <2>1. q = m_read_idx /\ Fetched.status = "LINE_OPEN"
    BY <1>2, <1>3, <1>5 DEF parse_line
  <2>2. \A n \in (m_checked_idx + 1)..m_read_idx :
          n - 1 \in m_checked_idx..(m_read_idx - 1) /\ (n - 1) + 1 = n
    BY <1>1
  <2>3. \A n \in (m_checked_idx + 1)..m_read_idx : stream[n] \notin Eol
    BY <1>5, <2>2 DEF Ends, m_read_buf
  <2>4. NoEol(stream, m_start_line, q)
    BY <1>1, <1>4, <2>1, <2>3 DEF NoEol
  <2>. QED
    BY <1>1, <2>1, <2>4 DEF Stuck
<1>6. CASE Ends # {}
  <2> DEFINE i == Min(Ends)
  <2>1. Ends \in SUBSET Nat
    BY <1>1 DEF Ends
  <2>2. i \in Ends /\ \A y \in Ends : i <= y
    BY <1>6, <2>1, MinFacts
  <2>3. /\ parse_line = IF m_read_buf(i) = "cr"
                        THEN IF i + 1 = m_read_idx THEN Line("LINE_OPEN", i)
                             ELSE IF m_read_buf(i + 1) = "lf" THEN Line("LINE_OK", i + 2)
                             ELSE Line("LINE_BAD", i)
                        ELSE IF i > 1 /\ m_read_buf(i - 1) = "cr" THEN Line("LINE_OK", i + 1)
                             ELSE Line("LINE_BAD", i)
    BY <1>6 DEF parse_line
  <2> HIDE DEF i
  <2>4. /\ i \in Nat /\ m_checked_idx <= i /\ i < m_read_idx /\ stream[i + 1] \in Eol
        /\ \A n \in m_checked_idx..(i - 1) : stream[n + 1] \notin Eol
    <3>1. i \in Nat /\ m_checked_idx <= i /\ i < m_read_idx /\ stream[i + 1] \in Eol
      BY <1>1, <2>2 DEF Ends, m_read_buf
    <3>2. \A n \in m_checked_idx..(i - 1) : n \notin Ends /\ n \in m_checked_idx..(m_read_idx - 1)
      BY <1>1, <2>2, <3>1
    <3>. QED
      BY <3>1, <3>2 DEF Ends, m_read_buf
  <2>5. NoEol(stream, m_start_line, i)
    <3>1. \A n \in (m_checked_idx + 1)..i : n - 1 \in m_checked_idx..(i - 1) /\ (n - 1) + 1 = n
      BY <1>1, <2>4
    <3>2. \A n \in (m_checked_idx + 1)..i : stream[n] \notin Eol
      BY <2>4, <3>1
    <3>. QED
      BY <1>1, <1>4, <2>4, <3>2 DEF NoEol
  <2>6. i # 0 => stream[i] # "cr"
    <3>1. CASE i = m_start_line
      BY <3>1
    <3>2. CASE i # m_start_line
      <4>1. i \in (m_start_line + 1)..i
        BY <1>1, <2>4, <3>2
      <4>. QED
        BY <2>5, <4>1 DEF NoEol, Eol
    <3>. QED
      BY <3>1, <3>2
  <2>7. (i - 1) + 1 = i /\ (i + 1) + 1 = i + 2
    BY <2>4
  <2>8. CASE m_read_buf(i) = "cr"
    <3>1. stream[i + 1] = "cr"
      BY <2>8 DEF m_read_buf
    <3>2. CASE i + 1 # m_read_idx /\ m_read_buf(i + 1) = "lf"
      <4>1. q = i + 2 /\ Fetched.status = "LINE_OK" /\ stream[i + 2] = "lf"
        BY <1>2, <1>3, <2>3, <2>7, <2>8, <3>2 DEF m_read_buf
      <4>2. q - 2 = i /\ q - 1 = i + 1 /\ q \in Nat /\ q >= m_start_line + 2 /\ m_checked_idx <= q
            /\ q <= m_read_idx
        BY <1>1, <2>4, <3>2, <4>1
      <4>. QED
        BY <2>5, <3>1, <4>1, <4>2
    <3>3. CASE ~(i + 1 # m_read_idx /\ m_read_buf(i + 1) = "lf")
      <4>1. q = i /\ Fetched.status # "LINE_OK"
        BY <1>2, <1>3, <2>3, <2>8, <3>3
      <4>2. i + 1 = m_read_idx \/ stream[i + 2] # "lf"
        BY <2>7, <3>3 DEF m_read_buf
      <4>. QED
        BY <1>1, <2>4, <2>5, <3>1, <4>1, <4>2 DEF Stuck
    <3>. QED
      BY <3>2, <3>3
  <2>9. CASE m_read_buf(i) # "cr"
    <3>1. stream[i + 1] = "lf"
      BY <2>4, <2>9 DEF m_read_buf, Eol
    <3>2. i > 1 => m_read_buf(i - 1) # "cr"
      BY <2>4, <2>6, <2>7 DEF m_read_buf
    <3>3. q = i /\ Fetched.status # "LINE_OK"
      BY <1>2, <1>3, <2>3, <2>9, <3>2
    <3>. QED
      BY <1>1, <2>4, <2>5, <2>6, <3>1, <3>3 DEF Stuck
  <2>. QED
    BY <2>8, <2>9
<1>. QED
  BY <1>5, <1>6

(* The text of the line from p that ends at q. *)
LEMMA TextOfLine ==
  ASSUME NEW s \in Seq(Tokens), NEW p \in Nat, NEW q \in Nat, q >= p + 2, q <= Len(s)
  PROVE  /\ SubSeq(s, p + 1, q - 2) = <<>> <=> q = p + 2
         /\ \A t : SubSeq(s, p + 1, q - 2) = <<t>> <=> q = p + 3 /\ s[p + 1] = t
<1> DEFINE l == SubSeq(s, p + 1, q - 2)
<1>1. l \in Seq(Tokens) /\ Len(l) = q - 2 - p /\ Len(l) \in Nat
  OBVIOUS
<1>2. q # p + 2 => l[1] = s[p + 1]
  OBVIOUS
<1> HIDE DEF l
<1>3. l = <<>> <=> q = p + 2
  BY <1>1
<1>4. ASSUME NEW t PROVE l = <<t>> <=> q = p + 3 /\ s[p + 1] = t
  <2>1. ASSUME l = <<t>> PROVE q = p + 3 /\ s[p + 1] = t
    <3>1. Len(<<t>>) = 1 /\ <<t>>[1] = t
      OBVIOUS
    <3>. QED
      BY <1>1, <1>2, <2>1, <3>1
  <2>2. ASSUME q = p + 3, s[p + 1] = t PROVE l = <<t>>
    <3>1. Len(l) = 1 /\ l[1] = t
      BY <1>1, <1>2, <2>2
    <3>2. t \in Tokens
      BY <2>2
    <3>. QED
      BY <1>1, <3>1, <3>2
  <2>. QED
    BY <2>1, <2>2
<1>. QED
  BY <1>3, <1>4 DEF l

(* The request line. *)
LEMMA FirstLine ==
  ASSUME NEW s, s[1] = "get", s[2] = "cr", s[3] = "lf"
  PROVE  HeadTo(s, 3) /\ \A l : ~l => FieldsTo(s, 3, 0, l)
<1>1. Clean(s, 3)
  <2>1. 1..3 = {1, 2, 3} /\ 1 + 1 = 2 /\ 2 + 1 = 3 /\ 3 - 1 = 2
    OBVIOUS
  <2>. QED
    BY <2>1 DEF Clean
<1>2. \A n \in 1..3 : ~EndsHead(s, n)
  BY DEF EndsHead
<1>3. HeadTo(s, 3)
  BY <1>1, <1>2 DEF HeadTo, GetFirst
<1>4. \A T : HeaderLines(s, 3, T) = {}
  BY DEF HeaderLines
<1>. QED
  BY <1>3, <1>4 DEF FieldsTo, LengthIs, Lengths

(* What a further line adds to the headers. *)
LEMMA NextFields ==
  ASSUME NEW s, NEW p, HeadTo(s, p), NEW q \in Nat, q >= p + 2,
         NoEol(s, p, q - 2), s[q - 1] = "cr", s[q] = "lf",
         NEW c, NEW l, FieldsTo(s, p, c, l),
         NEW d, d = IF q = p + 3 /\ s[p + 1] \in DOMAIN Announces THEN ToInt(Announces[s[p + 1]]) ELSE c,
         NEW k, k <=> l \/ (q = p + 3 /\ s[p + 1] = "keep")
  PROVE  FieldsTo(s, q, d, k)
<1>1. \A T \in SUBSET Text :
        HeaderLines(s, q, T)
          = HeaderLines(s, p, T) \union (IF q = p + 3 /\ s[p + 1] \in T THEN {p + 1} ELSE {})
  BY NextLine
<1>2. {"keep"} \in SUBSET Text /\ DOMAIN Announces \in SUBSET Text
  BY DEF Text
<1>3. k <=> HeaderLines(s, q, {"keep"}) # {}
  <2>1. HeaderLines(s, q, {"keep"})
          = HeaderLines(s, p, {"keep"}) \union (IF q = p + 3 /\ s[p + 1] \in {"keep"} THEN {p + 1} ELSE {})
    BY <1>1, <1>2
  <2>2. l <=> HeaderLines(s, p, {"keep"}) # {}
    BY DEF FieldsTo
  <2>. QED
    BY <2>1, <2>2
<1>4. LengthIs(s, q, d)
  <2>1. Lengths(s, q)
          = Lengths(s, p) \union (IF q = p + 3 /\ s[p + 1] \in DOMAIN Announces THEN {p + 1} ELSE {})
    BY <1>1, <1>2 DEF Lengths
  <2>2. LengthIs(s, p, c) /\ p \in Nat /\ \A n \in Lengths(s, p) : n \in Int /\ n <= p
    BY DEF FieldsTo, HeadTo, Lengths, HeaderLines
  <2>3. CASE q = p + 3 /\ s[p + 1] \in DOMAIN Announces
    <3>1. p + 1 \in Lengths(s, q) /\ \A n \in Lengths(s, q) : n <= p + 1
      BY <2>1, <2>2, <2>3
    <3>2. d = ToInt(Announces[s[p + 1]])
      BY <2>3
    <3>. QED
      BY <3>1, <3>2 DEF LengthIs
  <2>4. CASE ~(q = p + 3 /\ s[p + 1] \in DOMAIN Announces)
    <3>1. Lengths(s, q) = Lengths(s, p) /\ d = c
      BY <2>1, <2>4
    <3>. QED
      BY <2>2, <3>1 DEF LengthIs
  <2>. QED
    BY <2>3, <2>4
<1>. QED
  BY <1>3, <1>4 DEF FieldsTo

(* No request is complete where no line can be completed. *)
LEMMA StuckFacts ==
  ASSUME NEW s, NEW p \in Nat, NEW i \in Nat, NEW m \in Nat, p <= i, i <= m,
         \A n \in 1..p : ~EndsHead(s, n), NoEol(s, p, i), Stuck(s, i, m),
         NEW e \in Nat, e <= m, EndsHead(s, e), Clean(s, e)
  PROVE  FALSE
<1>1. e > p /\ s[e] = "lf"
  BY DEF EndsHead
<1>2. e > i
  <2> SUFFICES ASSUME e <= i PROVE FALSE
    OBVIOUS
  <2>1. e \in (p + 1)..i
    BY <1>1
  <2>. QED
    BY <1>1, <2>1 DEF NoEol, Eol
<1>3. i + 1 \in 1..e /\ (i + 1) + 1 = i + 2 /\ (i + 1) - 1 = i
  BY <1>2
<1>4. CASE s[i + 1] = "cr" /\ (i + 1 = m \/ s[i + 2] # "lf")
  <2>1. i + 1 < e /\ s[i + 2] = "lf"
    BY <1>3, <1>4 DEF Clean
  <2>. QED
    BY <1>2, <1>4, <2>1
<1>5. CASE s[i + 1] = "lf" /\ (i = 0 \/ s[i] # "cr")
  <2>1. i + 1 > 1 /\ s[i] = "cr"
    BY <1>3, <1>5 DEF Clean
  <2>. QED
    BY <1>5, <2>1
<1>. QED
  BY <1>2, <1>4, <1>5 DEF Stuck

-----------------------------------------------------------------------------
(* What the parser knows of its request.                                       *)

Collected ==
  pc \in {"read", "process"} =>
    /\ ret = "NO_REQUEST"
    /\ m_check_state = "REQUESTLINE" =>
         m_start_line = 0 /\ m_content_length = 0 /\ ~m_linger /\ NoEol(stream, 0, m_checked_idx)
    /\ m_check_state = "HEADER" =>
         /\ HeadTo(stream, m_start_line) /\ NoEol(stream, m_start_line, m_checked_idx)
         /\ FieldsTo(stream, m_start_line, m_content_length, m_linger)
    /\ m_check_state = "CONTENT" =>
         \E e : /\ HeadAt(stream, e) /\ FieldsTo(stream, e, m_content_length, m_linger)
                /\ e <= m_checked_idx

Complete ==
  ret = "GET_REQUEST" =>
    /\ pc \in {"answered", "closed"}
    /\ \E e : /\ HeadAt(stream, e) /\ FieldsTo(stream, e, m_content_length, m_linger)
              /\ e <= m_read_idx
              /\ m_content_length \in Countable => e + m_content_length <= m_read_idx

Waiting ==
  pc = "read" /\ ~cut =>
    m_check_state # "CONTENT" /\ Stuck(stream, m_checked_idx, m_read_idx)

ParseInv == Collected /\ Complete /\ Waiting

LEMMA ParseInvMeans == TypeOK /\ ParseInv => NothingEarly /\ CompleteIsAnswered /\ LingerAsAsked
<1> SUFFICES ASSUME TypeOK, ParseInv PROVE NothingEarly /\ CompleteIsAnswered /\ LingerAsAsked
  OBVIOUS
<1>1. IndexOK /\ RequestOK
  BY TypeParts
<1>2. /\ stream \in Seq(Tokens) /\ Arrived \in Seq(Tokens)
      /\ Len(Arrived) = m_read_idx /\ m_read_idx \in Nat /\ m_read_idx <= Len(stream)
      /\ \A n \in 1..m_read_idx : stream[n] = Arrived[n]
  BY <1>1 DEF IndexOK, Arrived
<1>3. ASSUME ret = "GET_REQUEST"
      PROVE  /\ HasHead(Arrived)
             /\ ContentLength(Arrived) \in Countable => HasContent(Arrived)
             /\ m_linger <=> HeaderLines(stream, HeadEnd(stream), {"keep"}) # {}
  <2>1. PICK e : /\ HeadAt(stream, e) /\ FieldsTo(stream, e, m_content_length, m_linger)
                 /\ e <= m_read_idx
                 /\ m_content_length \in Countable => e + m_content_length <= m_read_idx
    BY <1>3 DEF ParseInv, Complete
  <2>2. e \in Nat /\ m_content_length \in Int /\ e <= m_read_idx /\ e <= Len(stream)
    BY <1>1, <1>2, <2>1, ParserAssumption DEF HeadAt, RequestOK
  <2>3. \A n \in 1..e : stream[n] = Arrived[n]
    BY <1>2, <2>2
  <2>4. HeadAt(Arrived, e) /\ FieldsTo(Arrived, e, m_content_length, m_linger)
    BY <2>1, <2>2, <2>3, SameTokens
  <2>5. e \in HeadEnds(Arrived) /\ HeadEnd(Arrived) = e /\ HeadEnd(stream) = e
    BY <1>2, <2>1, <2>2, <2>4, HeadFound
  <2>6. HasHead(Arrived)
    BY <2>4, <2>5 DEF HasHead, HeadAt, GetFirst
  <2>7. ASSUME ContentLength(Arrived) \in Countable PROVE HasContent(Arrived)
    <3>1. ContentLength(Arrived) = m_content_length
      BY <2>4, <2>5, <2>7, LengthFound DEF FieldsTo
    <3>2. m_content_length \in Nat
      BY <2>2, <2>7, <3>1, ParserAssumption DEF Countable
    <3>. QED
      BY <1>2, <2>1, <2>2, <2>5, <2>7, <3>1, <3>2 DEF HasContent
  <2>. QED
    BY <2>1, <2>5, <2>6, <2>7 DEF FieldsTo
<1>4. ASSUME pc = "read", ~cut, IsRequest(Arrived) PROVE FALSE
  <2> DEFINE e == HeadEnd(Arrived)
  <2>1. HeadEnds(Arrived) \in SUBSET Nat /\ HeadEnds(Arrived) # {} /\ Clean(Arrived, e)
    BY <1>4 DEF IsRequest, HasHead, HeadEnds
  <2>2. e \in HeadEnds(Arrived)
    BY <2>1, MinFacts DEF HeadEnd
  <2> HIDE DEF e
  <2>3. e \in 1..m_read_idx /\ EndsHead(Arrived, e)
    BY <1>2, <2>2 DEF HeadEnds
  <2>4. e \in Nat /\ e >= 4 /\ e <= m_read_idx /\ \A n \in 1..e : Arrived[n] = stream[n]
    BY <1>2, <2>3 DEF EndsHead
  <2>5. Clean(stream, e)
    BY <2>1, <2>4 DEF Clean
  <2>6. EndsHead(stream, e)
    <3>1. e - 3 \in 1..e /\ e - 2 \in 1..e /\ e - 1 \in 1..e /\ e \in 1..e
      BY <2>4
    <3>. QED
      BY <2>3, <2>4, <3>1 DEF EndsHead
  <2>7. /\ m_check_state \in {"REQUESTLINE", "HEADER"}
        /\ Stuck(stream, m_checked_idx, m_read_idx)
        /\ NoEol(stream, m_start_line, m_checked_idx)
        /\ m_check_state = "REQUESTLINE" => m_start_line = 0
        /\ m_check_state = "HEADER" => HeadTo(stream, m_start_line)
    BY <1>1, <1>4 DEF ParseInv, Collected, Waiting, RequestOK
  <2>8. \A n \in 1..m_start_line : ~EndsHead(stream, n)
    BY <2>7 DEF HeadTo
  <2>. QED
    BY <1>1, <2>4, <2>5, <2>6, <2>7, <2>8, StuckFacts DEF IndexOK
<1>. QED
  BY <1>3, <1>4 DEF NothingEarly, CompleteIsAnswered, LingerAsAsked

(* Steps of process_read. *)
LEMMA ProcessParse ==
  ASSUME TypeOK, ParseInv, process_read
  PROVE  ParseInv'
<1>1. IndexOK /\ RequestOK /\ pc = "process"
  BY TypeParts, ParseTypes
<1>2. stream' = stream /\ m_read_idx' = m_read_idx /\ ret = "NO_REQUEST"
      /\ m_checked_idx' = Fetched.checked
  BY <1>1 DEF ParseInv, Collected, process_read, NoRequest, ParseRequestLine, ParseHeader,
              EndHeaders, ParseContent, Turn
<1> DEFINE s == stream
           p == m_start_line
           q == Fetched.checked
<1>3. /\ s \in Seq(Tokens) /\ p \in Nat /\ q \in Nat /\ m_checked_idx \in Nat
      /\ m_read_idx \in Nat /\ m_checked_idx <= q /\ q <= m_read_idx /\ q <= Len(s)
  BY <1>1, FetchedFacts DEF IndexOK
<1>4. ASSUME m_check_state # "CONTENT"
      PROVE  /\ NoEol(s, p, m_checked_idx)
             /\ Fetched.status = "LINE_OK"
                  => /\ q >= p + 2 /\ NoEol(s, p, q - 2)
                     /\ s[q - 1] = "cr" /\ s[q] = "lf"
             /\ Fetched.status # "LINE_OK" => NoEol(s, p, q) /\ Stuck(s, q, m_read_idx)
  <2>1. NoEol(s, p, m_checked_idx) /\ (p = 0 \/ s[p] = "lf")
    BY <1>1, <1>4 DEF ParseInv, Collected, HeadTo, RequestOK
  <2>. QED
    BY <1>1, <1>4, <2>1, LineFound
<1>5. NoEol(s, q, q)
  BY <1>3 DEF NoEol
<1>6. CASE NoRequest
  <2>1. /\ m_start_line' = p /\ UNCHANGED <<m_check_state, m_linger, m_content_length>>
        /\ ret' = "NO_REQUEST" /\ pc' = "read" /\ Fetched.status # "LINE_OK"
        /\ m_check_state = "CONTENT" => cut'
    BY <1>6 DEF NoRequest, requestVars
  <2>2. Collected'
    <3>1. CASE m_check_state # "CONTENT"
      BY <1>1, <1>2, <1>4, <2>1, <3>1 DEF ParseInv, Collected
    <3>2. CASE m_check_state = "CONTENT"
      <4>1. PICK e : HeadAt(s, e) /\ FieldsTo(s, e, m_content_length, m_linger) /\ e <= m_checked_idx
        BY <1>1, <3>2 DEF ParseInv, Collected
      <4>2. e <= q
        BY <1>3, <4>1 DEF HeadAt
      <4>. QED
        BY <1>2, <2>1, <3>2, <4>1, <4>2 DEF Collected
    <3>. QED
      BY <3>1, <3>2
  <2>3. Complete'
    BY <2>1 DEF Complete
  <2>4. Waiting'
    BY <1>2, <1>4, <2>1 DEF Waiting
  <2>. QED
    BY <2>2, <2>3, <2>4 DEF ParseInv
<1>7. ASSUME Fetched.status = "LINE_OK", m_check_state # "CONTENT", m_start_line' = q
      PROVE  /\ LineText = <<>> <=> q = p + 2
             /\ \A t : LineText = <<t>> <=> q = p + 3 /\ s[p + 1] = t
             /\ q >= p + 2 /\ NoEol(s, p, q - 2) /\ s[q - 1] = "cr" /\ s[q] = "lf"
  BY <1>3, <1>4, <1>7, TextOfLine DEF LineText
<1>8. CASE ParseRequestLine
  <2>1. /\ m_check_state = "REQUESTLINE" /\ Fetched.status = "LINE_OK" /\ m_start_line' = q
        /\ UNCHANGED <<m_linger, m_content_length>>
        /\ p = 0 /\ m_content_length = 0 /\ ~m_linger
    BY <1>1, <1>8 DEF ParseRequestLine, Turn, ParseInv, Collected
  <2>2. CASE LineText = <<"get">> /\ m_check_state' = "HEADER" /\ UNCHANGED <<pc, ret, cut>>
    <3>1. q = 3 /\ s[1] = "get" /\ s[2] = "cr" /\ s[3] = "lf"
      BY <1>7, <2>1, <2>2
    <3>2. HeadTo(s, 3) /\ FieldsTo(s, 3, 0, m_linger)
      BY <2>1, <3>1, FirstLine
    <3>. QED
      BY <1>1, <1>2, <1>5, <2>1, <2>2, <3>1, <3>2 DEF ParseInv, Collected, Complete, Waiting
  <2>3. CASE ret' = "BAD_REQUEST" /\ pc' = "answered"
    BY <2>3 DEF ParseInv, Collected, Complete, Waiting
  <2>. QED
    BY <1>8, <2>2, <2>3 DEF ParseRequestLine, Continue, Return
<1>9. CASE ParseHeader
  <2>1. /\ m_check_state = "HEADER" /\ Fetched.status = "LINE_OK" /\ m_start_line' = q
        /\ UNCHANGED <<pc, ret, cut, m_check_state>> /\ LineText # <<>>
        /\ m_linger' = (m_linger \/ LineText = <<"keep">>)
        /\ m_content_length' = IF \E h \in DOMAIN Announces : LineText = <<h>>
                               THEN ToInt(Announces[LineText[1]]) ELSE m_content_length
    BY <1>9 DEF ParseHeader, LengthHeader, Turn, Continue
  <2>2. HeadTo(s, p) /\ FieldsTo(s, p, m_content_length, m_linger)
    BY <1>1, <2>1 DEF ParseInv, Collected
  <2>3. HeadTo(s, q)
    BY <1>3, <1>7, <2>1, <2>2, NextLine
  <2>4. m_content_length'
          = IF q = p + 3 /\ s[p + 1] \in DOMAIN Announces THEN ToInt(Announces[s[p + 1]])
            ELSE m_content_length
    <3>1. CASE q = p + 3 /\ s[p + 1] \in DOMAIN Announces
      <4>1. LineText = <<s[p + 1]>>
        BY <1>7, <2>1, <3>1
      <4>2. LineText[1] = s[p + 1]
        BY <4>1
      <4>. QED
        BY <2>1, <3>1, <4>1, <4>2
    <3>2. CASE ~(q = p + 3 /\ s[p + 1] \in DOMAIN Announces)
      <4>1. \A h \in DOMAIN Announces : LineText # <<h>>
        BY <1>7, <2>1, <3>2
      <4>. QED
        BY <2>1, <3>2, <4>1
    <3>. QED
      BY <3>1, <3>2
  <2>5. m_linger' <=> m_linger \/ (q = p + 3 /\ s[p + 1] = "keep")
    BY <1>7, <2>1
  <2>6. FieldsTo(s, q, m_content_length', m_linger')
    <3> DEFINE c == m_content_length
               l == m_linger
               d == m_content_length'
               k == m_linger'
    <3>1. /\ d = IF q = p + 3 /\ s[p + 1] \in DOMAIN Announces THEN ToInt(Announces[s[p + 1]]) ELSE c
          /\ k <=> l \/ (q = p + 3 /\ s[p + 1] = "keep")
          /\ HeadTo(s, p) /\ FieldsTo(s, p, c, l)
          /\ q \in Nat /\ q >= p + 2 /\ NoEol(s, p, q - 2) /\ s[q - 1] = "cr" /\ s[q] = "lf"
      BY <1>3, <1>7, <2>1, <2>2, <2>4, <2>5
    <3> HIDE DEF s, p, q, c, l, d, k
    <3>2. FieldsTo(s, q, d, k)
      BY ONLY <3>1, NextFields
    <3>. QED
      BY <3>2 DEF s, q, d, k
  <2>. QED
    BY <1>1, <1>2, <1>5, <2>1, <2>3, <2>6 DEF ParseInv, Collected, Complete, Waiting
<1>10. CASE EndHeaders
  <2>1. /\ m_check_state = "HEADER" /\ Fetched.status = "LINE_OK" /\ m_start_line' = q
        /\ UNCHANGED <<m_linger, m_content_length>> /\ LineText = <<>>
    BY <1>10 DEF EndHeaders, Turn
  <2>2. HeadTo(s, p) /\ FieldsTo(s, p, m_content_length, m_linger)
    BY <1>1, <2>1 DEF ParseInv, Collected
  <2>3. HeadAt(s, q)
    BY <1>3, <1>7, <2>1, <2>2, NextLine
  <2>4. FieldsTo(s, q, m_content_length, m_linger)
    <3> DEFINE c == m_content_length
               l == m_linger
    <3>1. /\ HeadTo(s, p) /\ FieldsTo(s, p, c, l) /\ q # p + 3
          /\ q \in Nat /\ q >= p + 2 /\ NoEol(s, p, q - 2) /\ s[q - 1] = "cr" /\ s[q] = "lf"
      BY <1>3, <1>7, <2>1, <2>2
    <3> HIDE DEF s, p, q, c, l
    <3>2. FieldsTo(s, q, c, l)
      BY ONLY <3>1, NextFields
    <3>. QED
      BY <3>2 DEF s, q, c, l
  <2>5. CASE m_check_state' = "CONTENT" /\ UNCHANGED <<pc, ret, cut>>
    BY <1>1, <1>2, <1>3, <2>1, <2>3, <2>4, <2>5 DEF ParseInv, Collected, Complete, Waiting
  <2>6. CASE m_content_length = 0 /\ ret' = "GET_REQUEST" /\ pc' = "answered"
    <3>1. q <= m_read_idx /\ q + m_content_length <= m_read_idx
      BY <1>3, <2>6
    <3>. QED
      BY <1>2, <2>1, <2>3, <2>4, <2>6, <3>1 DEF ParseInv, Collected, Complete, Waiting
  <2>. QED
    BY <1>10, <2>5, <2>6 DEF EndHeaders, Continue, Return
<1>11. CASE ParseContent
  <2>1. m_check_state = "CONTENT" /\ UNCHANGED <<m_check_state, m_linger, m_content_length>>
    BY <1>11 DEF ParseContent, Turn, requestVars
  <2>2. PICK e : HeadAt(s, e) /\ FieldsTo(s, e, m_content_length, m_linger) /\ e <= m_checked_idx
    BY <1>1, <2>1 DEF ParseInv, Collected
  <2>3. e \in Nat /\ m_content_length \in Int /\ e <= q /\ e <= m_read_idx
    BY <1>1, <1>3, <2>2, ParserAssumption DEF HeadAt, RequestOK
  <2>4. CASE /\ m_read_idx >= m_content_length + q \/ m_content_length + q > INT_MAX
             /\ ret' = "GET_REQUEST" /\ pc' = "answered"
    <3>1. m_content_length \in Countable => e + m_content_length <= m_read_idx
      <4> SUFFICES ASSUME m_content_length \in Countable PROVE e + m_content_length <= m_read_idx
        OBVIOUS
      <4>1. m_content_length <= INT_MAX - READ_BUFFER_SIZE /\ q <= READ_BUFFER_SIZE
            /\ INT_MAX \in Int /\ READ_BUFFER_SIZE \in Int
        BY <1>1, <1>3, ParserAssumption DEF Countable, IndexOK
      <4> HIDE DEF q
      <4>. QED
        BY <1>3, <2>3, <2>4, <4>1
    <3>. QED
      BY <1>2, <2>1, <2>2, <2>3, <2>4, <3>1 DEF ParseInv, Collected, Complete, Waiting
  <2>6. CASE pc' = "crashed" /\ UNCHANGED <<ret, cut>>
    BY <1>2, <2>6 DEF ParseInv, Collected, Complete, Waiting
  <2>5. CASE UNCHANGED <<pc, ret, cut>>
    BY <1>1, <1>2, <2>1, <2>2, <2>3, <2>5 DEF ParseInv, Collected, Complete, Waiting
  <2>. QED
    BY <1>2, <1>11, <2>4, <2>5, <2>6 DEF ParseContent, ContentComplete, ContentMissing, Continue, Return
<1>. QED
  BY <1>6, <1>8, <1>9, <1>10, <1>11 DEF process_read

LEMMA ReadParse ==
  ASSUME ParseInv, NEW n \in Nat, ReadMore(n)
  PROVE  ParseInv'
<1>1. /\ pc = "read" /\ pc' \in {"process", "closed"}
      /\ UNCHANGED <<stream, m_checked_idx, m_start_line, m_check_state, m_linger, m_content_length, ret>>
  BY DEF ReadMore, requestVars
<1>2. ret = "NO_REQUEST"
  BY <1>1 DEF ParseInv, Collected
<1>. QED
  BY <1>1, <1>2 DEF ParseInv, Collected, Complete, Waiting

LEMMA ResetParse ==
  ASSUME NEW rest, Reset(rest)
  PROVE  ParseInv'
<1>1. NoEol(rest, 0, 0) /\ Stuck(rest, 0, 0)
  BY DEF NoEol, Stuck
<1>. QED
  BY <1>1 DEF Reset, ResetRequest, ParseInv, Collected, Complete, Waiting

(* More tokens behind those that have been read. *)
LEMMA MoreParse ==
  ASSUME TypeOK, ParseInv, NEW more \in Seq(Tokens), stream' = stream \o more,
         UNCHANGED <<indexVars, requestVars, ret, cut, pc>>
  PROVE  ParseInv'
<1>1. IndexOK /\ RequestOK
  BY TypeParts
<1>2. /\ m_start_line \in Nat /\ m_checked_idx \in Nat /\ m_read_idx \in Nat
      /\ m_start_line <= m_checked_idx /\ m_checked_idx <= m_read_idx
      /\ \A n \in 1..m_read_idx : stream[n] = stream'[n]
  BY <1>1 DEF IndexOK
<1>3. ASSUME NEW e \in Nat, e <= m_read_idx, NEW n \in 1..e PROVE stream[n] = stream'[n]
  <2>1. n \in 1..m_read_idx
    BY <1>2, <1>3
  <2>. QED
    BY <1>2, <2>1
<1>4. ASSUME NEW e \in Nat, e <= m_read_idx
      PROVE  /\ \A c, l : FieldsTo(stream, e, c, l) => FieldsTo(stream', e, c, l)
             /\ HeadTo(stream, e) => HeadTo(stream', e)
             /\ HeadAt(stream, e) => HeadAt(stream', e)
             /\ \A a \in Nat : NoEol(stream, a, e) => NoEol(stream', a, e)
  <2> DEFINE s == stream
             t == stream'
  <2>1. \A n \in 1..e : s[n] = t[n]
    BY <1>3, <1>4
  <2> HIDE DEF s, t
  <2>. QED
    BY <2>1, SameTokens DEF s, t
<1>5. Stuck(stream, m_checked_idx, m_read_idx) => Stuck(stream', m_checked_idx, m_read_idx)
  <2>1. m_checked_idx # m_read_idx => m_checked_idx + 1 \in 1..m_read_idx
    BY <1>2
  <2>2. m_checked_idx # m_read_idx /\ m_checked_idx + 1 # m_read_idx
          => m_checked_idx + 2 \in 1..m_read_idx
    BY <1>2
  <2>3. m_checked_idx # 0 => m_checked_idx \in 1..m_read_idx
    BY <1>2
  <2>. QED
    BY <1>2, <2>1, <2>2, <2>3 DEF Stuck
<1>6. m_start_line <= m_read_idx /\ \A e : HeadAt(stream,
e) /\ e <= m_checked_idx => e \in Nat /\ e <= m_read_idx
  BY <1>2 DEF HeadAt
<1>7. Collected'
  BY <1>2, <1>4, <1>6 DEF ParseInv, Collected, indexVars, requestVars
<1>8. Complete'
  <2>1. ASSUME ret = "GET_REQUEST"
        PROVE  /\ pc \in {"answered", "closed"}
               /\ \E e : /\ HeadAt(stream', e) /\ FieldsTo(stream', e, m_content_length, m_linger)
                         /\ e <= m_read_idx
                         /\ m_content_length \in Countable => e + m_content_length <= m_read_idx
    <3>1. PICK e : /\ HeadAt(stream, e) /\ FieldsTo(stream, e, m_content_length, m_linger)
                   /\ e <= m_read_idx
                   /\ m_content_length \in Countable => e + m_content_length <= m_read_idx
      BY <2>1 DEF ParseInv, Complete
    <3>2. e \in Nat /\ e <= m_read_idx
      BY <3>1 DEF HeadAt
    <3>. QED
      BY <1>4, <2>1, <3>1, <3>2 DEF ParseInv, Complete
  <2>. QED
    BY <2>1 DEF Complete, indexVars, requestVars
<1>9. Waiting'
  BY <1>5 DEF ParseInv, Waiting, indexVars, requestVars
<1>. QED
  BY <1>7, <1>8, <1>9 DEF ParseInv

(* A step that the parser does not see, or that closes the connection. *)
LEMMA OtherParse ==
  ASSUME ParseInv, UNCHANGED <<stream, indexVars, requestVars, ret, cut>>, pc' \in {pc, "closed"}
  PROVE  ParseInv'
<1>1. UNCHANGED <<m_checked_idx, m_start_line, m_read_idx, m_check_state, m_linger, m_content_length>>
  BY DEF indexVars, requestVars
<1>2. Collected'
  BY <1>1 DEF ParseInv, Collected
<1>3. Complete'
  BY <1>1 DEF ParseInv, Complete
<1>4. Waiting'
  BY <1>1 DEF ParseInv, Waiting
<1>. QED
  BY <1>2, <1>3, <1>4 DEF ParseInv

LEMMA StepParse == ConnInv /\ ParseInv /\ [ConnNext]_connVars => ParseInv'
<1> SUFFICES ASSUME ConnInv, ParseInv, [ConnNext]_connVars PROVE ParseInv'
  OBVIOUS
<1>1. TypeOK
  BY DEF ConnInv
<1>2. CASE \E n \in 1..Len(stream) : ReadMore(n)
  <2>1. \A n \in 1..Len(stream) : n \in Nat
    BY <1>1 DEF TypeOK
  <2>. QED
    BY <1>2, <2>1, ReadParse
<1>3. CASE Parse
  BY <1>1, <1>3, ProcessParse DEF Parse
<1>4. CASE AnswerError \/ AnswerFile \/ AnswerEmpty \/ StartWrite \/ Eagain \/ WriteFails \/ HangUp
  <2>1. UNCHANGED <<stream, indexVars, requestVars, ret, cut>> /\ pc' \in {pc, "closed"}
    BY <1>4 DEF AnswerError, AnswerFile, AnswerEmpty, Answer, MapFile, StartWrite, Eagain, WriteFails,
                HangUp,
                Close, vars
  <2>. QED
    BY <2>1, OtherParse
<1>5. ASSUME NEW temp, WritevGoesOn(temp) \/ WritevEnds(temp) PROVE ParseInv'
  <2>1. Reset(Unread) \/ (UNCHANGED <<stream, indexVars, requestVars, ret, cut>> /\ pc' \in {pc, "closed"})
    BY <1>5 DEF WritevGoesOn, WritevEnds, vars
  <2>. QED
    BY <2>1, OtherParse, ResetParse
<1>6. ASSUME NEW s \in Later, MoreArrives(s) PROVE ParseInv'
  <2>1. s \in Seq(Tokens)
    BY ConnectionAssumption DEF Tokens
  <2>2. Reset(s) \/ (stream' = stream \o s /\ UNCHANGED <<indexVars, requestVars, ret, cut, pc>>)
    BY <1>6 DEF MoreArrives
  <2>. QED
    BY <1>1, <2>1, <2>2, MoreParse, ResetParse
<1>7. CASE UNCHANGED connVars
  <2>1. UNCHANGED <<stream, indexVars, requestVars, ret, cut>> /\ pc' \in {pc, "closed"}
    BY <1>7 DEF connVars, vars
  <2>. QED
    BY <2>1, OtherParse
<1>. QED
  BY <1>2, <1>3, <1>4, <1>5, <1>6, <1>7 DEF ConnNext, write

(* For every stream and every way of cutting it, over all requests of the object:  *)
(* no request is acted on before its head has arrived, nor before its content if    *)
(* the parser can count its length; none that is complete is waited for (unless     *)
(* process_read had returned inside its content); and the connection is kept        *)
(* exactly if a header asks for it (http_conn.cpp:97-128, 209-265, 267-322).        *)
THEOREM RequestsCorrect == ConnSpec => [](NothingEarly /\ CompleteIsAnswered /\ LingerAsAsked)
<1>1. ConnInit => ParseInv
  <2>1. NoEol(stream, 0, 0) /\ Stuck(stream, 0, 0)
    BY DEF NoEol, Stuck
  <2>. QED
    BY <2>1 DEF ConnInit, Init, ParseInv, Collected, Complete, Waiting
<1>2. ConnInv /\ ParseInv /\ [ConnNext]_connVars => ParseInv'
  BY StepParse
<1>3. ConnInv /\ ParseInv => NothingEarly /\ CompleteIsAnswered /\ LingerAsAsked
  BY ParseInvMeans DEF ConnInv
<1>. QED
  BY <1>1, <1>2, <1>3, ConnInvariant, PTL DEF ConnSpec

-----------------------------------------------------------------------------
(* The object keeps to ConnectionProtocol. An object that is read or processed  *)
(* has no answer left over: every way back to reading goes through init().      *)

NoAnswer == pc # "closed" /\ wpc = "none" => m_write_idx = 0

Moves ==
  {<<"closed", "reading">>, <<"reading", "processing">>, <<"reading", "closed">>,
   <<"processing", "reading">>, <<"processing", "answering">>, <<"processing", "closed">>,
   <<"answering", "reading">>, <<"answering", "closed">>}

Follows == Phase' = Phase \/ <<Phase, Phase'>> \in Moves

(* read() and process_read. *)
LEMMA ParserPhase ==
  ASSUME ConnInv, NoAnswer, UNCHANGED writeVars,
         process_read \/ \E n \in 1..Len(stream) : ReadMore(n)
  PROVE  NoAnswer' /\ Follows
<1>1. /\ UNCHANGED <<wpc, m_write_idx>>
      /\ \/ pc = "read" /\ pc' \in {"process", "closed"}
         \/ pc = "process" /\ pc' \in {"process", "read", "answered", "crashed"}
  BY DEF writeVars, process_read, ReadMore, NoRequest, ParseRequestLine, ParseHeader, EndHeaders,
         ParseContent, ContentComplete, ContentMissing, Turn, Continue, Return
<1>2. wpc = "none"
  BY <1>1 DEF ConnInv, WriteOK
<1>. QED
  BY <1>1, <1>2 DEF NoAnswer, Follows, Phase, Moves

(* process_write and write(). *)
LEMMA AnswerPhase ==
  ASSUME ConnInv, NoAnswer,
         \/ AnswerError \/ AnswerFile \/ AnswerEmpty \/ StartWrite \/ Eagain \/ WriteFails \/ HangUp
         \/ \E temp \in 1..(HEADER + FILE) : WritevGoesOn(temp) \/ WritevEnds(temp)
  PROVE  NoAnswer' /\ Follows
<1>1. CASE AnswerError \/ AnswerFile
  BY <1>1 DEF AnswerError, AnswerFile, Answer, vars, NoAnswer, Follows, Phase, Moves
<1>2. CASE AnswerEmpty
  BY <1>2 DEF AnswerEmpty, NoAnswer, Follows, Phase, Moves
<1>3. CASE StartWrite \/ Eagain \/ \E temp \in 1..(HEADER + FILE) : WritevGoesOn(temp)
  <2>1. pc' = pc /\ wpc # "none" /\ wpc' # "none"
    BY <1>3 DEF StartWrite, Eagain, WritevGoesOn, Writev, vars
  <2>. QED
    BY <2>1 DEF NoAnswer, Follows, Phase
<1>4. CASE WriteFails \/ HangUp
  BY <1>4 DEF WriteFails, HangUp, Close, ConnInv, WriteOK, NoAnswer, Follows, Phase, Moves
<1>5. CASE \E temp \in 1..(HEADER + FILE) : WritevEnds(temp)
  <2>1. /\ wpc = "writing" /\ wpc' = "none"
        /\ pc' = "closed" \/ (pc' = "read" /\ m_write_idx' = 0)
    BY <1>5 DEF WritevEnds, Writev, Reset
  <2>. QED
    BY <2>1 DEF ConnInv, WriteOK, NoAnswer, Follows, Phase, Moves
<1>. QED
  BY <1>1, <1>2, <1>3, <1>4, <1>5

LEMMA MorePhase ==
  ASSUME ConnInv, NoAnswer, NEW s, MoreArrives(s)
  PROVE  NoAnswer' /\ Follows
<1>1. /\ wpc' = wpc
      /\ \/ pc' = pc /\ m_write_idx' = m_write_idx
         \/ pc = "closed" /\ pc' = "read" /\ m_write_idx' = 0
  BY DEF MoreArrives, Reset
<1>. QED
  BY <1>1 DEF ConnInv, WriteOK, NoAnswer, Follows, Phase, Moves

LEMMA StepPhase == ConnInv /\ NoAnswer /\ [ConnNext]_connVars => NoAnswer' /\ Follows
<1> SUFFICES ASSUME ConnInv, NoAnswer, [ConnNext]_connVars PROVE NoAnswer' /\ Follows
  OBVIOUS
<1>1. CASE ConnNext
  BY <1>1, ParserPhase, AnswerPhase, MorePhase DEF ConnNext, Parse, write
<1>2. CASE UNCHANGED connVars
  BY <1>2 DEF connVars, vars, writeVars, NoAnswer, Follows, Phase
<1>. QED
  BY <1>1, <1>2

(* The moves are the steps of the protocol for one connection. *)
LEMMA MoveIsStep ==
  ASSUME ConnInv, NoAnswer, ConnInv', NoAnswer', Follows
  PROVE  [Protocol!Next]_Protocol!vars
<1> DEFINE P == [c \in {"object"} |-> Phase]
           A == [c \in {"object"} |-> pc # "closed" /\ m_write_idx # 0]
<1>1. /\ A = [c \in {"object"} |-> Phase = "answering"]
      /\ A' = [c \in {"object"} |-> Phase' = "answering"]
      /\ P' = [c \in {"object"} |-> Phase']
  BY ConnectionAssumption DEF ConnInv, WriteOK, NoAnswer, Phase
<1>2. CASE Phase' = Phase
  <2>1. P' = P /\ A' = A
    BY <1>1, <1>2
  <2>. QED
    BY <2>1 DEF Protocol!vars
<1>3. CASE <<Phase, Phase'>> \in Moves
  <2>1. P["object"] = Phase /\ P' = [P EXCEPT !["object"] = Phase']
    BY <1>1
  <2>2. A' = [A EXCEPT !["object"] = (Phase' = "answering")]
    BY <1>1
  <2>3. \A from, to, answer :
          Phase = from /\ Phase' = to /\ answer = (Phase' = "answering")
            => Protocol!Goes("object", from, to, answer)
    BY <2>1, <2>2 DEF Protocol!Goes
  <2>4. \/ Protocol!Accept("object") \/ Protocol!Arrive("object") \/ Protocol!AskMore("object")
        \/ Protocol!Prepare("object") \/ Protocol!Sent("object") \/ Protocol!Close("object")
    BY <1>3, <2>3 DEF Moves, Protocol!Accept, Protocol!Arrive, Protocol!AskMore, Protocol!Prepare,
                      Protocol!Sent, Protocol!Close
  <2>5. P'["object"] # P["object"]
    BY <1>1, <1>3 DEF Moves
  <2>. QED
    BY <2>4, <2>5 DEF Protocol!Next
<1>. QED
  BY <1>2, <1>3 DEF Follows

LEMMA InitPhase == ConnInit => NoAnswer /\ Protocol!Init
<1> SUFFICES ASSUME ConnInit PROVE NoAnswer /\ Protocol!Init
  OBVIOUS
<1>1. Phase = "reading" /\ m_write_idx = 0
  BY DEF ConnInit, Init, Phase
<1>. QED
  BY <1>1 DEF NoAnswer, Protocol!Init

(* From the parser to write() and back, for every stream and however it is cut:  *)
(* the object goes through the phases that its connection has in the server, and *)
(* m_write_idx is not 0 exactly while an answer waits for write()                *)
(* (http_conn.cpp:52-104, 341-402, 534-550).                                     *)
THEOREM ObjectKeepsProtocol == ConnSpec => ProtocolSpec
<1>1. ConnInit => ConnInv /\ NoAnswer /\ Protocol!Init
  BY InitConn, InitPhase
<1>2. ConnInv /\ NoAnswer /\ [ConnNext]_connVars => ConnInv' /\ NoAnswer' /\ Follows
  BY StepConn, StepPhase
<1>3. ConnInv /\ NoAnswer /\ ConnInv' /\ NoAnswer' /\ Follows => [Protocol!Next]_Protocol!vars
  BY MoveIsStep
<1>. QED
  BY <1>1, <1>2, <1>3, PTL DEF ConnSpec, ProtocolSpec, Protocol!Spec
=============================================================================
