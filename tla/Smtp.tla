-------------------------------- MODULE Smtp --------------------------------
(***************************************************************************)
(* One SMTP connection (mail/smtp.rs) and the client on it.  A line is a   *)
(* sequence of words, one of the letters the framing tells apart each, and *)
(* ends with "LF", after "CR" when the client follows the protocol.        *)
(***************************************************************************)
EXTENDS Fanout

CONSTANTS Commands,         \* lines a client sends as commands, without their ending
          BodyLines,        \* lines of a message body, as the client means them
          MaxBodyLines,
          MaxMessageBytes,  \* SQRZL_MAX_REQUEST_BYTES
          CommandLimit,     \* words of the longest command line
          JsonPerByte,      \* bytes a raw byte takes in the message's JSON
          MaxEnvelope       \* bound on recipients

ASSUME SmtpAssumption ==
    /\ {MaxMessageBytes, MaxCaptureBytes, MaxBodyLines} \subseteq Nat
    /\ Commands \subseteq Seq(STRING) /\ BodyLines \subseteq Seq(STRING \ {"CR", "LF"})

VARIABLES smtp,     \* the server's side of the connection
          smtpReply, \* the last reply to a message, "none" after any other
          client,   \* what the client meant and has been told: its side of the transaction
          taken     \* the last message handed to fan_out, and what the client had meant

smtpVars == <<smtp, smtpReply, client, taken>>

NoTransaction == [from |-> <<>>, recipients |-> <<>>]

NewSession == [mode |-> "command", greeted |-> FALSE, transaction |-> NoTransaction,
               raw |-> <<>>, tooLarge |-> FALSE]

NewClient == [transaction |-> NoTransaction, meant |-> <<>>, toSend |-> <<>>, ended |-> FALSE]

SmtpInit ==
    /\ smtp = NewSession /\ smtpReply = "none" /\ client = NewClient /\ taken = <<>>

-----------------------------------------------------------------------------
(* Commands *)

EndsWithCrlf(line) == Len(line) >= 2 /\ SubSeq(line, Len(line) - 1, Len(line)) = <<"CR", "LF">>

\* next_line: the words of a well-formed command line, or the refusal of it
NextLine(line) ==
    IF Len(line) > CommandLimit THEN "500"
    ELSE IF ~EndsWithCrlf(line) THEN "501" ELSE "valid"

Words(line) == SubSeq(line, 1, Len(line) - 2)

ArgumentError(words) ==
    \/ words[1] \in {"EHLO", "HELO"} /\ Len(words) # 2
    \/ words[1] \in {"DATA", "RSET", "QUIT"} /\ Len(words) # 1

\* <<address>>, or what is wrong with it
ParseAddress(words, allowNull) ==
    CASE Len(words) > 2 -> "555"
      [] Len(words) = 2 /\ words[2] = "<>" /\ allowNull -> "null"
      [] Len(words) = 2 /\ words[2] \in {"a", "b", "_all"} -> "address"
      [] OTHER -> "501"

Address(words) == [box |-> words[2], form |-> "plain"]

\* What a command answers and leaves of the session.
Handle(words) ==
    LET s == smtp
        t == smtp.transaction
        answer(code, next) == [code |-> code, smtp |-> next]
    IN  IF words = <<>> THEN answer("500", s)
        ELSE IF ArgumentError(words) THEN answer("501", s)
        ELSE CASE words[1] \in {"EHLO", "HELO"} ->
                    answer("250", [s EXCEPT !.greeted = TRUE, !.transaction = NoTransaction])
               [] words[1] = "MAIL" ->
                    IF ~s.greeted \/ t.from # <<>> THEN answer("503", s)
                    ELSE IF ParseAddress(words, TRUE) \in {"address", "null"}
                           THEN answer("250", [s EXCEPT !.transaction.from = <<Address(words)>>])
                           ELSE answer(ParseAddress(words, TRUE), s)
               [] words[1] = "RCPT" ->
                    IF t.from = <<>> THEN answer("503", s)
                    ELSE IF ParseAddress(words, FALSE) = "address"
                           THEN answer("250", [s EXCEPT !.transaction.recipients = Append(@, Address(words))])
                           ELSE answer(ParseAddress(words, FALSE), s)
               [] words[1] = "DATA" ->
                    IF t.from = <<>> \/ t.recipients = <<>> THEN answer("503", s)
                    ELSE answer("354", [s EXCEPT !.mode = "data", !.raw = <<>>, !.tooLarge = FALSE])
               [] words[1] = "RSET" -> answer("250", [s EXCEPT !.transaction = NoTransaction])
               [] words[1] = "NOOP" -> answer("250", s)
               [] words[1] = "QUIT" -> answer("221", [s EXCEPT !.mode = "closed"])
               [] OTHER -> answer("502", s)

-----------------------------------------------------------------------------
(* DATA *)

RawCaptureLimit == MaxCaptureBytes \div 14

InputLimit == IF MaxMessageBytes < RawCaptureLimit THEN MaxMessageBytes ELSE RawCaptureLimit

\* A faulty form of StripDot: only a dot alone on its line is doubled.
StripDotAlone(text) == IF text = <<".", ".">> THEN Tail(text) ELSE text

StripDot(text) == IF text # <<>> /\ text[1] = "." THEN Tail(text) ELSE text

\* How many words of a line are kept: once the message is too large, enough to see its end.
LineLimit(tooLarge) == IF tooLarge THEN 3 ELSE InputLimit + 3

\* read_data for one line: the line's words, the message so far, whether it has ended
ReadLine(line, raw, tooLarge) ==
    LET cut == Len(line) > LineLimit(tooLarge)
        kept == IF cut THEN SubSeq(line, 1, LineLimit(tooLarge)) ELSE line
        crlf == EndsWithCrlf(kept)
        text == SubSeq(kept, 1, Len(kept) - IF crlf THEN 2 ELSE 1)
        added == Append(StripDot(text), "LF")
        over == tooLarge \/ cut \/ Len(raw) + Len(added) > InputLimit
    IN  IF crlf /\ text = <<".">> THEN [ended |-> TRUE, raw |-> raw, tooLarge |-> tooLarge]
        ELSE [ended |-> FALSE, raw |-> IF over THEN <<>> ELSE raw \o added, tooLarge |-> over]

\* The envelope's recipients are the message's; its headers may name more.
BuildMessage(t, raw) ==
    [from |-> t.from[1], to |-> t.recipients,
     cc |-> IF raw # <<>> /\ raw[1] = "Cc:b" THEN <<[box |-> "b", form |-> "plain"]>> ELSE <<>>,
     bcc |-> <<>>, body |-> raw, size |-> JsonPerByte * Len(raw), raw |-> Len(raw)]

\* Every way out of DATA forgets the transaction.
AfterData(s) == [s EXCEPT !.mode = "command", !.transaction = NoTransaction, !.raw = <<>>]

-----------------------------------------------------------------------------
(* The client's side *)

\* What the replies tell the client of the transaction.
Told(words, code) ==
    CASE code = "250" /\ words[1] \in {"EHLO", "HELO", "RSET"} -> NoTransaction
      [] code = "250" /\ words[1] = "MAIL" -> [from |-> <<Address(words)>>, recipients |-> <<>>]
      [] code = "250" /\ words[1] = "RCPT" ->
            [client.transaction EXCEPT !.recipients = Append(@, Address(words))]
      [] OTHER -> client.transaction

Stuffed(text) == IF text # <<>> /\ text[1] = "." THEN <<".">> \o text ELSE text

Terminator == <<".", "CR", "LF">>

RecipientCommands == {w \in Commands : w # <<>> /\ w[1] = "RCPT"}

SendCommand ==
    /\ smtp.mode = "command" /\ Idle
    /\ \E words \in Commands, ending \in {<<"CR", "LF">>, <<"LF">>} :
          LET line == words \o ending
              checked == NextLine(line)
              h == Handle(words)
          IN  /\ words \in RecipientCommands => Len(smtp.transaction.recipients) < MaxEnvelope
              /\ IF checked # "valid"
                THEN UNCHANGED <<smtp, client>>
                ELSE /\ smtp' = h.smtp
                     /\ IF h.code # "354"
                          THEN client' = [client EXCEPT !.transaction = IF words = <<>> THEN @ ELSE Told(words, h.code)]
                          ELSE \E n \in 0..MaxBodyLines : \E body \in [1..n -> BodyLines] :
                                  client' = [client EXCEPT !.toSend = body]
    /\ smtpReply' = "none" /\ taken' = <<>> /\ Settle

\* The next line of the body, dots doubled; some clients end a line with LF alone.
SendLine ==
    /\ smtp.mode = "data" /\ client.toSend # <<>>
    /\ \E ending \in {<<"CR", "LF">>, <<"LF">>} :
          LET r == ReadLine(Stuffed(Head(client.toSend)) \o ending, smtp.raw, smtp.tooLarge)
          IN  IF r.ended   \* the server takes the line for the end of the message
                THEN smtp' = [smtp EXCEPT !.mode = "ended", !.tooLarge = r.tooLarge]
                ELSE smtp' = [smtp EXCEPT !.raw = r.raw, !.tooLarge = r.tooLarge]
    /\ client' = [client EXCEPT !.meant = @ \o Append(Head(client.toSend), "LF"), !.toSend = Tail(@)]
    /\ UNCHANGED <<smtpReply, taken, fanoutVars>>

SendTerminator ==
    /\ smtp.mode = "data" /\ client.toSend = <<>> /\ ~client.ended
    /\ LET r == ReadLine(Terminator, smtp.raw, smtp.tooLarge)
       IN  smtp' = [smtp EXCEPT !.mode = IF r.ended THEN "ended" ELSE "data",
                                !.raw = r.raw, !.tooLarge = r.tooLarge]
    /\ client' = [client EXCEPT !.ended = TRUE]
    /\ UNCHANGED <<smtpReply, taken, fanoutVars>>

\* A message that was too large is refused when its end has come.
RefuseLarge ==
    /\ smtp.mode = "ended" /\ smtp.tooLarge
    /\ smtpReply' = "552" /\ smtp' = AfterData(smtp)
    /\ client' = NewClient
    /\ UNCHANGED <<taken, fanoutVars>>

\* The message is built and filed.
FileMail ==
    /\ smtp.mode = "ended" /\ ~smtp.tooLarge
    /\ LET m == BuildMessage(smtp.transaction, smtp.raw)
       IN  /\ FanOutBatch(<<m>>)
           /\ taken' = <<[got |-> [from |-> <<m.from>>, to |-> m.to, body |-> m.body],
                           meant |-> [from |-> client.transaction.from,
                                               to |-> client.transaction.recipients,
                                               body |-> client.meant]]>>
    /\ smtp' = [smtp EXCEPT !.mode = "filing"]
    /\ UNCHANGED <<smtpReply, client>>

AnswerMail ==
    /\ smtp.mode = "filing" /\ job.pc = "done"
    /\ smtpReply' = CASE job.result = "ok" -> "250" [] job.result = "large" -> "552" [] OTHER -> "451"
    /\ smtp' = AfterData(smtp)
    /\ client' = NewClient
    /\ UNCHANGED <<taken, fanoutVars>>

\* The connection ends, with nothing filed when that is inside DATA; the client comes back.
Disconnect ==
    /\ smtp.mode \in {"command", "data", "closed"}
    /\ smtp' = NewSession /\ smtpReply' = "none" /\ client' = NewClient /\ taken' = <<>>
    /\ Settle

SmtpNext ==
    \/ SendCommand \/ SendLine \/ SendTerminator
    \/ RefuseLarge \/ FileMail \/ AnswerMail \/ Disconnect

\* The connection over the fan-out.
SmtpSpec ==
    /\ FanoutInit /\ SmtpInit
    /\ [][SmtpNext \/ (Filing /\ UNCHANGED smtpVars)]_<<smtpVars, fanoutVars>>

\* Between the client and the server nothing is lost or misread: the server
\* stops reading a message exactly at the client's terminator, also when it has
\* already given up keeping it, so that no line of a body is taken for a command;
\* what it files has the sender and the recipients it has confirmed to the client
\* since the last reset, whatever was refused in between, and the body as meant;
\* and a message it has accepted is in the mailbox of every such recipient.
Transacted ==
    /\ client.ended <=> smtp.mode \in {"ended", "filing"}
    /\ \A t \in ToSet(taken) : t.got = t.meant
    /\ smtpReply = "250" => \A a \in ToSet(taken[1].meant.to) :
                           \E c \in copies : c.box = MailboxKey(a) /\ c.message.body = taken[1].meant.body
=============================================================================
