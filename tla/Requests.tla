------------------------------ MODULE Requests ------------------------------
(***************************************************************************)
(* A client's requests on their way through the main loop: bytes in        *)
(* recvBuf_, the incremental parser (ProtoParser), Client::_HandlePacket,  *)
(* the command table and the commands on the key-value store (external:    *)
(* pmemkv, a map).                                                         *)
(*                                                                         *)
(* The bytes of a request are its lines: the count of parameters ("*"),    *)
(* then for each parameter its length ("$") and itself ("v").  A line has  *)
(* a size, without its CRLF; counts and lengths have one digit.  A         *)
(* parameter as parsed is the sequence of the lines it spans: the parser   *)
(* finds the end of a parameter by its length alone.                       *)
(***************************************************************************)
EXTENDS Integers, Sequences, SequencesExt, FiniteSetsExt

CONSTANTS
  Request,      \* requests, sequences of words
  Size,         \* the size of each word
  MaxRequests   \* bound: the requests the client sends

VARIABLES
  sent,       \* the requests sent so far
  wire,       \* lines that have not arrived
  buffer,     \* lines in recvBuf_
  parser,     \* parser_
  store,      \* engine_: the pairs of key and value
  executed,   \* the parameters passed to ExecuteCmd
  replies,    \* the replies put into sendBuf_
  cut         \* _HandlePacket has met a part of a request

vars == <<sent, wire, buffer, parser, store, executed, replies, cut>>

Line(kind, n, text) == [kind |-> kind, n |-> n, text |-> text]
LineSize(l) == IF l.kind = "v" THEN l.n ELSE 2

\* The lines of a request.
Lines(r) ==
  <<Line("*", Len(r), "")>>
    \o [i \in 1..(2 * Len(r)) |->
          LET word == r[(i + 1) \div 2]
          IN Line(IF i % 2 = 1 THEN "$" ELSE "v", Size[word],
                  IF i % 2 = 1 THEN "" ELSE word)]

Init ==
  /\ sent = <<>> /\ wire = <<>> /\ buffer = <<>>
  /\ parser = [multi |-> -1, paramLen |-> -1, numOfParam |-> 0, params |-> <<>>]
  /\ store = {} /\ executed = <<>> /\ replies = <<>> /\ cut = FALSE
-----------------------------------------------------------------------------
(* ProtoParser.  A parse goes from line to line: it has the parser's state *)
(* p, the lines of the parameter it is in with their size, and the result  *)
(* so far.                                                                 *)

\* Mutant: params_ keeps what an earlier, longer request left in it.
StrDoneKeeps(parse, span) ==
  LET num    == parse.p.numOfParam + 1
      filled == [i \in 1..Max({num, Len(parse.p.params)}) |->
                   IF i = num THEN span ELSE parse.p.params[i]]
  IN [p |-> [parse.p EXCEPT !.params = filled, !.numOfParam = num, !.paramLen = -1],
      span |-> <<>>, size |-> 0, result |-> IF num >= parse.p.multi THEN "ok" ELSE "wait"]

\* The end of _ParseStr: the parameter is stored and counted.  At the end of
\* _ParseStrlist, params_ is cut to the parameters there are.
StrDone(parse, span) ==
  LET num    == parse.p.numOfParam + 1
      filled == [i \in 1..Max({num, Len(parse.p.params)}) |->
                   IF i = num THEN span ELSE parse.p.params[i]]
      done   == num >= parse.p.multi
  IN [p |-> [parse.p EXCEPT !.params = IF done THEN SubSeq(filled, 1, num) ELSE filled,
                            !.numOfParam = num, !.paramLen = -1],
      span |-> <<>>, size |-> 0, result |-> IF done THEN "ok" ELSE "wait"]

\* _ParseMulti, _ParseStrlen or _ParseStrval, whichever is due.  A parameter
\* ends after paramLen bytes, where a line must end.
ParseLine(parse, line) ==
  LET span == Append(parse.span, line)
      size == parse.size + LineSize(line)
  IN CASE parse.result # "wait" -> parse
       [] parse.result = "wait" /\ parse.p.multi = -1 ->
            IF line.kind = "*"
            THEN [parse EXCEPT !.p.multi = line.n,
                               !.p.params = IF line.n = 0 THEN <<>> ELSE @,
                               !.result = IF line.n = 0 THEN "ok" ELSE "wait"]
            ELSE [parse EXCEPT !.result = "error"]
       [] parse.result = "wait" /\ parse.p.multi # -1 /\ parse.p.paramLen = -1 ->
            IF line.kind = "$"
            THEN [parse EXCEPT !.p.paramLen = line.n]
            ELSE [parse EXCEPT !.result = "error"]
       [] OTHER ->
            IF size < parse.p.paramLen THEN [parse EXCEPT !.span = span, !.size = size + 2]
            ELSE IF size = parse.p.paramLen THEN StrDone(parse, span)
            ELSE [parse EXCEPT !.result = "error"]

\* The parse of the lines, as a singleton set.
ParseRequest(p, lines) ==
  LET before == [p |-> p, span |-> <<>>, size |-> 0,
                 result |-> IF p.multi = 0 THEN "ok" ELSE "wait"]
      after[i \in 0..Len(lines)] ==
        IF i = 0 THEN {before} ELSE {ParseLine(parse, lines[i]) : parse \in after[i - 1]}
  IN after[Len(lines)]

\* Mutant: the number of parameters to expect is not forgotten.
ResetKeepsMulti(p) ==
  [multi |-> p.multi, paramLen |-> -1, numOfParam |-> 0,
   params |-> SubSeq(p.params, 1, Min({3, Len(p.params)}))]

Reset(p) ==
  [multi |-> -1, paramLen |-> -1, numOfParam |-> 0,
   params |-> SubSeq(p.params, 1, Min({3, Len(p.params)}))]
-----------------------------------------------------------------------------
(* Commands.  words are the parameters' texts, or "?" for a parameter that *)
(* spans other lines than one of a word.                                   *)

Word(param) == IF Len(param) = 1 /\ param[1].kind = "v" THEN param[1].text ELSE "?"

\* The command table: how many parameters a command takes.
Params == [set |-> 3, get |-> 2, del |-> 2]

ErrorReply == [kind |-> "error", value |-> ""]
Reply(kind, value) == [kind |-> kind, value |-> value]
Values(s, key) == {kv[2] : kv \in {x \in s : x[1] = key}}

\* Mutant: del leaves the pair there.
RunDelKeeps(s, words) ==
  [store |-> s, reply |-> Reply("int", IF Values(s, words[2]) = {} THEN "0" ELSE "1")]

\* set, get and del of cmd_string.cc
RunSet(s, words) ==
  [store |-> {kv \in s : kv[1] # words[2]} \cup {<<words[2], words[3]>>},
   reply |-> Reply("ok", "")]

RunGet(s, words) ==
  [store |-> s,
   reply |-> IF Values(s, words[2]) = {} THEN Reply("null", "")
             ELSE Reply("bulk", CHOOSE v \in Values(s, words[2]) : TRUE)]

RunDel(s, words) ==
  [store |-> {kv \in s : kv[1] # words[2]},
   reply |-> Reply("int", IF Values(s, words[2]) = {} THEN "0" ELSE "1")]

\* Executor::ExecuteCmd, which finds the command and checks the number of
\* its parameters.
ExecuteCmd(s, words) ==
  IF words[1] \notin DOMAIN Params \/ Len(words) # Params[words[1]]
  THEN [store |-> s, reply |-> ErrorReply]
  ELSE CASE words[1] = "set" -> RunSet(s, words)
         [] words[1] = "get" -> RunGet(s, words)
         [] words[1] = "del" -> RunDel(s, words)
-----------------------------------------------------------------------------
(* The client waits for the reply before it sends again. *)

Send(r) ==
  /\ Len(sent) < MaxRequests
  /\ Len(replies) = Len(sent)
  /\ sent' = Append(sent, r)
  /\ wire' = Lines(r)
  /\ UNCHANGED <<buffer, parser, store, executed, replies, cut>>

\* TCP delivers a request whole or in pieces.
Arrive ==
  /\ wire # <<>>
  /\ \E n \in 1..Len(wire) :
       /\ buffer' = buffer \o SubSeq(wire, 1, n)
       /\ wire' = SubSeq(wire, n + 1, Len(wire))
  /\ UNCHANGED <<sent, parser, store, executed, replies, cut>>

\* Client::_HandlePacket on all that is in recvBuf_, called by DoMsgParse.
\* When the parse is not complete, or there are no parameters, it returns a
\* number that is not positive: the bytes stay, and so does what the parser
\* remembers of them.
HandlePacket ==
  /\ buffer # <<>>
  /\ \E parse \in ParseRequest(parser, buffer) :
       IF parse.result # "ok" \/ parse.p.params = <<>>
       THEN /\ parser' = parse.p
            /\ UNCHANGED <<buffer, store, executed, replies>>
       ELSE LET words == [i \in DOMAIN parse.p.params |-> Word(parse.p.params[i])]
                run   == ExecuteCmd(store, words)
            IN /\ parser' = Reset(parse.p)
               /\ buffer' = <<>>
               /\ store' = run.store
               /\ executed' = Append(executed, words)
               /\ replies' = Append(replies, run.reply)
  /\ cut' = (cut \/ wire # <<>>)
  /\ UNCHANGED <<sent, wire>>

Next == Arrive \/ HandlePacket \/ \E r \in Request : Send(r)

\* The network delivers, and the main loop goes round.
FairSpec == Init /\ [][Next]_vars /\ WF_vars(Arrive) /\ WF_vars(HandlePacket)
-----------------------------------------------------------------------------
(* Properties *)

\* As long as _HandlePacket has met only whole requests, what is executed is
\* what was sent, in order: nothing of an earlier request is left in the parser.
ExecutedAsSent == ~cut => executed = SubSeq(sent, 1, Len(executed))

\* The value of a key after the first n requests, by what they mean: that of
\* the last set, unless a del came after it.
ValueAfter(n, key) ==
  LET writes == {i \in 1..n : /\ sent[i][1] \in {"set", "del"}
                              /\ Len(sent[i]) = Params[sent[i][1]]
                              /\ sent[i][2] = key}
  IN IF writes = {} \/ sent[Max(writes)][1] = "del" THEN <<>> ELSE <<sent[Max(writes)][3]>>

\* A get is answered with the value its key has by the requests before it, as
\* long as _HandlePacket has met only whole requests.
GetsAreAnswered ==
  ~cut => \A i \in DOMAIN replies :
    sent[i][1] = "get" /\ Len(sent[i]) = Params["get"] =>
      LET value == ValueAfter(i - 1, sent[i][2])
      IN replies[i] = IF value = <<>> THEN Reply("null", "") ELSE Reply("bulk", value[1])

\* A request is executed and answered once all of it has arrived, in however
\* many pieces, unless _HandlePacket has met only a part of it: no request
\* leaves anything in the parser that keeps the next one from being complete.
AllAnswered == wire = <<>> ~> Len(replies) = Len(sent) \/ cut

\* A request whose bytes have all arrived is executed and answered: the
\* parser takes up where it stopped (ParseResult::wait).
CutIsAnswered == wire = <<>> ~> Len(replies) = Len(sent)
=============================================================================
