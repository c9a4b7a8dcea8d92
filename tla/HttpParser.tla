----------------------------- MODULE HttpParser -----------------------------
(***************************************************************************)
(* How http_conn takes a request out of a stream that arrives in pieces.   *)
(* read() (the main thread) appends what has arrived to m_read_buf;        *)
(* process_read() (a worker) goes on where its last call stopped. A stream *)
(* is a sequence of tokens: a carriage return, a line feed, the text of a  *)
(* line, of which only its meaning is kept, or a byte of content. Indices  *)
(* count from 0, as in the code, and in tokens.                            *)
(***************************************************************************)
EXTENDS Integers, Sequences, FiniteSets, FiniteSetsExt

CONSTANTS
  Streams,            \* what a client may send
  Announces,          \* Content-Length headers: the number atol makes of each
  READ_BUFFER_SIZE,
  INT_MAX             \* the greatest int

Eol  == {"cr", "lf"}
Text == {"get", "keep", "other"} \union DOMAIN Announces   \* "get": a well-formed request line
Body == {"x"}

ASSUME ParserAssumption ==
  /\ Streams \subseteq Seq(Eol \union Text \union Body)
  /\ Announces \in [DOMAIN Announces -> Int]
  /\ DOMAIN Announces \intersect (Eol \union Body \union {"get", "keep", "other"}) = {}
  /\ READ_BUFFER_SIZE \in Nat \ {0} /\ INT_MAX \in Nat /\ READ_BUFFER_SIZE < INT_MAX

VARIABLES
  stream,             \* what the client sends; the first m_read_idx tokens are in m_read_buf
  m_read_idx, m_checked_idx, m_start_line,
  m_check_state, m_linger, m_content_length,
  line_status,        \* the local of process_read
  pc,                 \* "read", "process", "answered", "closed", "crashed"
  ret,                \* what process_read returned last
  cut                 \* history: process_read returned in the middle of the content

indexVars   == <<m_read_idx, m_checked_idx, m_start_line>>
requestVars == <<m_check_state, m_linger, m_content_length>>
vars == <<stream, indexVars, requestVars, line_status, pc, ret, cut>>

(* The two init functions of http_conn. *)
Init ==
  /\ stream \in Streams
  /\ m_read_idx = 0 /\ m_checked_idx = 0 /\ m_start_line = 0
  /\ m_check_state = "REQUESTLINE" /\ m_linger = FALSE /\ m_content_length = 0
  /\ line_status = "LINE_OK" /\ pc = "read" /\ ret = "NO_REQUEST" /\ cut = FALSE

m_read_buf(i) == stream[i + 1]

-----------------------------------------------------------------------------
(* read(): n more tokens have arrived. It asks recv for the room that is left; *)
(* when none is left recv returns 0, which read() takes for the end.           *)
ReadMore(n) ==
  /\ pc = "read"
  /\ m_read_idx + n <= Min({Len(stream), READ_BUFFER_SIZE})
  /\ m_read_idx' = m_read_idx + n
  /\ IF m_read_idx' = READ_BUFFER_SIZE THEN pc' = "closed" /\ UNCHANGED line_status
                                       ELSE pc' = "process" /\ line_status' = "LINE_OK"
  /\ UNCHANGED <<stream, m_checked_idx, m_start_line, requestVars, ret, cut>>

-----------------------------------------------------------------------------
(* parse_line(): the line status and the m_checked_idx it leaves.              *)

Line(status, checked) == [status |-> status, checked |-> checked]

Ends == {i \in m_checked_idx..(m_read_idx - 1) : m_read_buf(i) \in Eol}

(* Mutant: the end of what has arrived is not looked for. *)
parse_lineOverrun ==
  IF Ends = {} THEN Line("LINE_OPEN", m_read_idx)
  ELSE LET i == Min(Ends) IN IF m_read_buf(i) = "cr" THEN Line("LINE_OK", i + 2)
                                                     ELSE Line("LINE_BAD", i)

(* Mutant: a carriage return that ends what has arrived is skipped. *)
parse_lineSkips ==
  IF Ends = {} THEN Line("LINE_OPEN", m_read_idx)
  ELSE LET i == Min(Ends)
       IN IF m_read_buf(i) = "cr"
          THEN IF i + 1 = m_read_idx THEN Line("LINE_OPEN", i + 1)
               ELSE IF m_read_buf(i + 1) = "lf" THEN Line("LINE_OK", i + 2)
               ELSE Line("LINE_BAD", i)
          ELSE Line("LINE_BAD", i)

parse_line ==
  IF Ends = {} THEN Line("LINE_OPEN", m_read_idx)
  ELSE LET i == Min(Ends)
       IN IF m_read_buf(i) = "cr"
          THEN IF i + 1 = m_read_idx THEN Line("LINE_OPEN", i)
               ELSE IF m_read_buf(i + 1) = "lf" THEN Line("LINE_OK", i + 2)
               ELSE Line("LINE_BAD", i)
          ELSE IF i > 1 /\ m_read_buf(i - 1) = "cr" THEN Line("LINE_OK", i + 1)
          ELSE Line("LINE_BAD", i)

-----------------------------------------------------------------------------
(* process_read(): one action per turn of its loop.                            *)

(* The condition of the loop: content is taken as it is, once. *)
Fetched ==
  IF m_check_state = "CONTENT" /\ line_status = "LINE_OK" THEN Line("LINE_OK", m_checked_idx)
                                                          ELSE parse_line

(* The text of the line that parse_line has just ended. *)
LineText == SubSeq(stream, m_start_line + 1, Fetched.checked - 2)

Turn(state) ==
  /\ pc = "process" /\ m_check_state = state /\ Fetched.status = "LINE_OK"
  /\ m_checked_idx' = Fetched.checked /\ m_start_line' = Fetched.checked
  /\ UNCHANGED <<stream, m_read_idx>>

Continue == UNCHANGED <<pc, ret, cut>>
Return(code) == ret' = code /\ pc' = "answered" /\ UNCHANGED cut

(* The loop ends: the line is not complete, or is malformed. *)
NoRequest ==
  /\ pc = "process" /\ Fetched.status # "LINE_OK"
  /\ m_checked_idx' = Fetched.checked /\ line_status' = Fetched.status
  /\ pc' = "read" /\ ret' = "NO_REQUEST"
  /\ cut' = (cut \/ m_check_state = "CONTENT")
  /\ UNCHANGED <<stream, m_read_idx, m_start_line, requestVars>>

ParseRequestLine ==
  /\ Turn("REQUESTLINE") /\ line_status' = "LINE_OK"
  /\ \/ LineText = <<"get">> /\ m_check_state' = "HEADER" /\ Continue
     \/ LineText # <<"get">> /\ Return("BAD_REQUEST") /\ UNCHANGED m_check_state
  /\ UNCHANGED <<m_linger, m_content_length>>

(* atol's number kept in an int: modulo the number of ints. *)
ToInt(v) ==
  IF v \in (0 - INT_MAX - 1)..INT_MAX THEN v
  ELSE ((v + INT_MAX + 1) % (2 * (INT_MAX + 1))) - (INT_MAX + 1)

(* The last Content-Length counts, also one that is no number: atol makes 0 of it. *)
LengthHeader ==
  m_content_length' = IF \E h \in DOMAIN Announces : LineText = <<h>>
                      THEN ToInt(Announces[LineText[1]]) ELSE m_content_length

(* Mutant: any Connection header decides, the last one wins. *)
ParseHeaderLast ==
  /\ Turn("HEADER") /\ LineText # <<>> /\ line_status' = "LINE_OK"
  /\ m_linger' = (LineText = <<"keep">>) /\ LengthHeader
  /\ Continue /\ UNCHANGED m_check_state

(* parse_headers, a line that is not empty. *)
ParseHeader ==
  /\ Turn("HEADER") /\ LineText # <<>> /\ line_status' = "LINE_OK"
  /\ m_linger' = (m_linger \/ LineText = <<"keep">>) /\ LengthHeader
  /\ Continue /\ UNCHANGED m_check_state

(* parse_headers, the empty line. *)
EndHeaders ==
  /\ Turn("HEADER") /\ LineText = <<>> /\ line_status' = "LINE_OK"
  /\ IF m_content_length # 0 THEN m_check_state' = "CONTENT" /\ Continue
                             ELSE Return("GET_REQUEST") /\ UNCHANGED m_check_state
  /\ UNCHANGED <<m_linger, m_content_length>>

(* parse_content has taken the content for complete. It ends it with a zero at    *)
(* text[m_content_length]; outside the buffer that is undefined, and the process   *)
(* goes on or ends.                                                                *)
ContentComplete ==
  /\ UNCHANGED line_status
  /\ \/ Return("GET_REQUEST")
     \/ /\ m_start_line + m_content_length \notin 0..(READ_BUFFER_SIZE - 1)
        /\ pc' = "crashed" /\ UNCHANGED <<ret, cut>>

ContentMissing == line_status' = "LINE_OPEN" /\ Continue

(* Mutant: the content counts from its first byte. *)
ParseContentShort ==
  /\ Turn("CONTENT")
  /\ IF m_read_idx >= m_content_length + m_checked_idx' - 1 THEN ContentComplete ELSE ContentMissing
  /\ UNCHANGED requestVars

(* Mutant: the content is looked at again at once. *)
ParseContentAgain ==
  /\ Turn("CONTENT")
  /\ IF m_read_idx >= m_content_length + m_checked_idx'
     THEN ContentComplete ELSE UNCHANGED line_status /\ Continue
  /\ UNCHANGED requestVars

(* parse_content: when not all has arrived, the loop goes on to parse_line, which *)
(* looks for lines in the content. A sum greater than INT_MAX is undefined, and    *)
(* with it the outcome of the test.                                               *)
ParseContent ==
  /\ Turn("CONTENT")
  /\ LET sum == m_content_length + m_checked_idx'
     IN \/ (m_read_idx >= sum \/ sum > INT_MAX) /\ ContentComplete
        \/ m_read_idx < sum /\ ContentMissing
  /\ UNCHANGED requestVars

process_read == NoRequest \/ ParseRequestLine \/ ParseHeader \/ EndHeaders \/ ParseContent

-----------------------------------------------------------------------------
(* Properties                                                                  *)

(* Every variable has its type; the indices are in order, within the buffer.    *)
TypeOK ==
  /\ stream \in Seq(Eol \union Text \union Body)
  /\ m_start_line \in 0..m_checked_idx /\ m_checked_idx \in 0..m_read_idx
  /\ m_read_idx \in 0..Min({Len(stream), READ_BUFFER_SIZE})
  /\ m_check_state \in {"REQUESTLINE", "HEADER", "CONTENT"}
  /\ m_linger \in BOOLEAN /\ m_content_length \in (0 - INT_MAX - 1)..INT_MAX
  /\ line_status \in {"LINE_OK", "LINE_OPEN", "LINE_BAD"}
  /\ pc \in {"read", "process", "answered", "closed", "crashed"}
  /\ ret \in {"NO_REQUEST", "BAD_REQUEST", "GET_REQUEST"} /\ cut \in BOOLEAN

(* What a request is, of a whole stream s and without a parser's state: a head   *)
(* of lines without stray line ends up to the first empty line, then as much     *)
(* content as the last length in the head announces, which is not negative.      *)
EndsHead(s, n) ==
  n >= 4 /\ s[n - 3] = "cr" /\ s[n - 2] = "lf" /\ s[n - 1] = "cr" /\ s[n] = "lf"
HeadEnds(s) == {n \in 1..Len(s) : EndsHead(s, n)}
HeadEnd(s) == Min(HeadEnds(s))
Clean(s, e) ==
  \A n \in 1..e : /\ s[n] = "cr" => n < e /\ s[n + 1] = "lf"
                  /\ s[n] = "lf" => n > 1 /\ s[n - 1] = "cr"
HeaderLines(s, e, T) == {n \in 2..(e - 1) : s[n] \in T /\ s[n - 1] = "lf" /\ s[n + 1] = "cr"}
Lengths(s, e) == HeaderLines(s, e, DOMAIN Announces)
ContentLength(s) ==
  LET L == Lengths(s, HeadEnd(s)) IN IF L = {} THEN 0 ELSE Announces[s[Max(L)]]
HasHead(s) == HeadEnds(s) # {} /\ Clean(s, HeadEnd(s)) /\ s[1] = "get" /\ s[2] = "cr"
HasContent(s) == ContentLength(s) \in 0..(Len(s) - HeadEnd(s))
IsRequest(s) == HasHead(s) /\ HasContent(s)

Arrived == SubSeq(stream, 1, m_read_idx)

(* The lengths that the parser can count: the others do not fit an int, are      *)
(* negative, or overflow the sum of parse_content.                               *)
Countable == 0..(INT_MAX - READ_BUFFER_SIZE)

(* A request is never acted on before its whole head has arrived, and its whole  *)
(* content if the parser can count its length (http_conn.cpp:209-225, 235-240,   *)
(* 256-265, 267-322). It does act too early on the other lengths, for example on *)
(* 2147483647, 4294967297 or -5: the code checks none of them.                   *)
NothingEarly ==
  ret = "GET_REQUEST" =>
    /\ HasHead(Arrived)
    /\ ContentLength(Arrived) \in Countable => HasContent(Arrived)

(* Whatever the pieces in which it arrives, a request is recognised when it is   *)
(* complete: process_read does not then ask for more. This does not hold once    *)
(* process_read has returned inside the content: the bytes parse_line has gone   *)
(* over no longer count (http_conn.cpp:100-128, 256-265, 273-274, 311).          *)
CompleteIsAnswered == pc = "read" /\ ~cut => ~IsRequest(Arrived)

(* The connection is kept exactly if a header of the request asks for it         *)
(* (http_conn.cpp:226-233): nothing of the content is taken for a header.        *)
LingerAsAsked ==
  ret = "GET_REQUEST" => (m_linger <=> HeaderLines(stream, HeadEnd(stream), {"keep"}) # {})

(* process_read returns, or ends the process (http_conn.cpp:267-322). *)
ProcessReadReturns == pc = "process" ~> pc # "process"
=============================================================================
