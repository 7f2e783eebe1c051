----------------------------- MODULE Transport -----------------------------
(***************************************************************************)
(* The way of an APDU: SEInterface::transmit with its 61xx and 6Cxx        *)
(* repetitions, over ATInterface, GenericModem and LSerial or over         *)
(* PcscSEInterface.                                                        *)
(*                                                                         *)
(* The modem, the reader and the card are external.  The modem works off   *)
(* the AT+CSIM lines in order and answers with lines; it goes on when the  *)
(* program dies, and the next program opens the port without flushing it.  *)
(* An APDU is the number of the transmit() it belongs to, its ISO case and *)
(* what the repetitions have made of it; AT+CSIM lines are numbered as     *)
(* they are sent, and an answer names the line it answers.                 *)
(***************************************************************************)
EXTENDS Naturals, Sequences, FiniteSets

CONSTANTS
    Cases,       \* the ISO cases of the commands, of 1 .. 4
    Devices,     \* "modem", "pcsc"
    MaxCalls,    \* bound on the calls of transmit() in a behaviour
    MaxRepeats   \* bound on the 61xx and 6Cxx a card answers to one of them

ASSUME CasesAssumption == Cases \subseteq 1 .. 4
ASSUME DevicesAssumption == Devices \subseteq {"modem", "pcsc"}
ASSUME MaxCallsAssumption == MaxCalls \in Nat
ASSUME MaxRepeatsAssumption == MaxRepeats \in Nat

VARIABLES
    device,     \* the SEInterface tobInitialize made
    pc,         \* closed, idle, await (+CSIM), drain (OK) or scard
    n,          \* transmit() calls so far
    sent,       \* AT+CSIM lines (or SCardTransmit calls) so far
    apdu,       \* _apdu
    rsp,        \* _apduResponse
    ret,        \* what transmit() returned: "answered", "lost"
    toModem,    \* AT+CSIM lines the modem has not worked off
    toHost,     \* lines the program has not read
    up,         \* the modem answers and read() works
    held,       \* card: call whose response GET RESPONSE will fetch
    runs,       \* card: call -> how often its command was run
    skew,       \* history: answers outstanding when the port was opened
    strange,    \* history: the program has read an end of command it does not know
    lastOk      \* history: call of the last transmit() that returned true

hostVars  == <<device, pc, n, sent, apdu, rsp, ret, skew, strange, lastOk>>
modemVars == <<toModem, toHost, up>>
cardVars  == <<held, runs>>
vars      == <<hostVars, modemVars, cardVars>>

Busy == pc \in {"await", "drain", "scard"}

\* ins is "get" for GET RESPONSE; lc is "wrong" when the length of the data
\* has been written over; reps counts the repetitions.
Command(call, k) == [call |-> call, ins |-> "cmd", kind |-> k, lc |-> "right", reps |-> 0, id |-> 0]
NoApdu           == Command(0, 1)
NoRsp  == [type |-> "csim", call |-> 0, sw |-> "none", id |-> 0]

\* A line of the modem: the answer +CSIM, or the line that ends a command.
Csim(id, call, sw) == [type |-> "csim", call |-> call, sw |-> sw, id |-> id]
Line(type)         == [type |-> type, call |-> 0, sw |-> "none", id |-> 0]
Ends               == {"ok", "error", "cme", "urc"}

Init ==
    /\ device \in Devices
    /\ pc = "closed" /\ n = 0 /\ sent = 0
    /\ apdu = NoApdu /\ rsp = NoRsp /\ ret = "none"
    /\ toModem = <<>> /\ toHost = <<>> /\ up = TRUE
    /\ held = 0 /\ runs = [c \in 0 .. MaxCalls |-> 0]
    /\ skew = 0 /\ strange = FALSE /\ lastOk = 0

TypeOK ==
    /\ device \in Devices /\ n \in 0 .. MaxCalls /\ sent \in Nat
    /\ pc \in {"closed", "idle", "await", "drain", "scard"}
    /\ apdu.call = n \/ pc \in {"closed", "idle"}
    /\ apdu.kind \in 1 .. 4 /\ apdu.ins \in {"cmd", "get"} /\ apdu.lc \in {"right", "wrong"}
    /\ apdu.reps \in Nat
    /\ rsp.sw \in {"none", "final", "61", "6C"} /\ rsp.id <= sent
    /\ ret \in {"none", "answered", "lost"}
    /\ \A i \in DOMAIN toModem : toModem[i].id <= sent
    /\ \A i \in DOMAIN toHost : toHost[i].type \in Ends \cup {"csim"}
    /\ held \in 0 .. n /\ runs \in [0 .. MaxCalls -> Nat]
    /\ up \in BOOLEAN /\ strange \in BOOLEAN /\ skew \in Nat /\ lastOk \in 0 .. n

----------------------------------------------------------------------------
(* Opening                                                                 *)

\* Commands that will still be answered, or have been and not been read.  A
\* left over end of command alone does no harm.
Outstanding ==
    LET Pending(types) == Len(toModem) + Cardinality({i \in DOMAIN toHost : toHost[i].type \in types})
    IN  IF Pending({"csim", "error"}) = 0 THEN 0 ELSE Pending({"csim", "error", "cme"})

\* A new SEInterface whose open() has returned true.
Opened ==
    /\ pc' = "idle"
    /\ apdu' = NoApdu /\ rsp' = NoRsp /\ ret' = "none" /\ strange' = FALSE /\ lastOk' = 0
    /\ UNCHANGED <<device, n, sent, toModem, up, cardVars>>

\* LSerial::start.  Lines that came while the port was closed may or may not
\* be kept.  Without the device, or with a baud rate that is not in its list
\* and the port closed again, the program has no interface and may retry.
start ==
    /\ pc = "closed" /\ device = "modem"
    /\ \/ Opened /\ toHost' = <<>> /\ skew' = Len(toModem)
       \/ Opened /\ toHost # <<>> /\ UNCHANGED toHost /\ skew' = Outstanding
       \/ toHost' \in {<<>>, toHost} /\ UNCHANGED <<hostVars, toModem, up, cardVars>>

\* PcscSEInterface::open, which fails without a context, a reader or a card.
PcscOpen ==
    /\ pc = "closed" /\ device = "pcsc"
    /\ \/ Opened /\ skew' = 0 /\ UNCHANGED toHost
       \/ UNCHANGED vars

\* The process ends or dies; what it has sent stays sent.
Die ==
    /\ pc # "closed"
    /\ pc' = "closed" /\ ret' = "none"
    /\ UNCHANGED <<device, n, sent, apdu, rsp, skew, strange, lastOk, modemVars, cardVars>>

----------------------------------------------------------------------------
(* SEInterface::transmit                                                   *)

\* sendATCSIM up to its first loop: the result of send() is not looked at.
\* PcscSEInterface hands the APDU to SCardTransmit.
transmitApdu(a) ==
    LET numbered == [a EXCEPT !.id = sent + 1]
    IN  /\ sent' = sent + 1
        /\ apdu' = numbered
        /\ \/ /\ device = "modem"
              /\ toModem' = IF up THEN Append(toModem, numbered) ELSE toModem
              /\ pc' = "await"
           \/ /\ device = "pcsc"
              /\ pc' = "scard"
              /\ UNCHANGED toModem

\* transmit() of case k: the four overloads fill _apdu.
transmit(k) ==
    /\ pc = "idle" /\ n < MaxCalls
    /\ n' = n + 1
    /\ ret' = "none"
    /\ transmitApdu(Command(n + 1, k))
    /\ UNCHANGED <<device, rsp, skew, strange, lastOk, toHost, up, cardVars>>

Return(r) ==
    /\ pc' = "idle" /\ ret' = r
    /\ lastOk' = IF r = "answered" THEN n ELSE lastOk
    /\ UNCHANGED <<sent, apdu, toModem>>

\* What the repetitions send.  The length that 6Cxx names goes into the fifth
\* byte, Le of cases 1 and 2 and of GET RESPONSE, Lc of cases 3 and 4.
Again(a) ==
    [a EXCEPT !.reps = @ + 1, !.lc = IF a.ins = "cmd" /\ a.kind \in {3, 4} THEN "wrong" ELSE @]
Fetch(a) == [a EXCEPT !.reps = @ + 1, !.ins = "get"]

\* Mutant: after 61xx the command itself is sent again.
HandleResponseRepeats(r) ==
    \/ r.sw \in {"6C", "61"} /\ transmitApdu([apdu EXCEPT !.reps = @ + 1]) /\ UNCHANGED <<ret, lastOk>>
    \/ r.sw \notin {"6C", "61"} /\ Return("answered")

\* transmitApdu has returned true: 6Cxx repeats the command, 61xx fetches
\* the response, anything else is for the caller.
HandleResponse(r) ==
    \/ r.sw = "6C" /\ transmitApdu(Again(apdu)) /\ UNCHANGED <<ret, lastOk>>
    \/ r.sw = "61" /\ transmitApdu(Fetch(apdu)) /\ UNCHANGED <<ret, lastOk>>
    \/ r.sw \notin {"6C", "61"} /\ Return("answered")

----------------------------------------------------------------------------
(* ATInterface::sendATCSIM                                                 *)

\* readLine: a port that fails makes it return false, which is not looked
\* at, so the loops go round with nothing new.
readLine ==
    /\ up /\ toHost # <<>>
    /\ toHost' = Tail(toHost)
    /\ UNCHANGED <<device, n, skew, up, cardVars>>

\* Mutants: a line that is neither +CSIM nor ERROR ends the exchange too;
\* ERROR does not end it.
AwaitCsimImpatient ==
    /\ pc = "await" /\ readLine
    /\ \/ Head(toHost).type # "csim" /\ Return("lost") /\ UNCHANGED <<rsp, strange>>
       \/ Head(toHost).type = "csim" /\ rsp' = Head(toHost) /\ pc' = "drain"
          /\ UNCHANGED <<sent, apdu, ret, lastOk, toModem, strange>>

AwaitCsimNoError ==
    /\ pc = "await" /\ readLine
    /\ \/ Head(toHost).type # "csim" /\ UNCHANGED <<rsp, pc, strange>>
       \/ Head(toHost).type = "csim" /\ rsp' = Head(toHost) /\ pc' = "drain" /\ UNCHANGED strange
    /\ UNCHANGED <<sent, apdu, ret, lastOk, toModem>>

\* The first loop: up to +CSIM, whose bytes become the response, or ERROR.
AwaitCsim ==
    /\ pc = "await" /\ readLine
    /\ \/ /\ Head(toHost).type = "error"
          /\ Return("lost")
          /\ UNCHANGED <<rsp, strange>>
       \/ /\ Head(toHost).type = "csim"
          /\ rsp' = Head(toHost)
          /\ pc' = "drain"
          /\ UNCHANGED <<sent, apdu, ret, lastOk, toModem, strange>>
       \/ /\ Head(toHost).type \notin {"error", "csim"}
          /\ strange' = (strange \/ Head(toHost).type = "cme")
          /\ UNCHANGED <<pc, sent, apdu, rsp, ret, lastOk, toModem>>

\* Mutant: ERROR ends the second loop with false.
DrainOkOrError ==
    /\ pc = "drain" /\ readLine
    /\ \/ Head(toHost).type = "ok" /\ HandleResponse(rsp)
       \/ Head(toHost).type = "error" /\ Return("lost")
       \/ Head(toHost).type \notin {"ok", "error"} /\ UNCHANGED <<pc, sent, apdu, ret, lastOk, toModem>>
    /\ UNCHANGED <<rsp, strange>>

\* The second loop: up to OK, and to nothing else.
DrainOk ==
    /\ pc = "drain" /\ readLine
    /\ \/ /\ Head(toHost).type = "ok"
          /\ HandleResponse(rsp)
          /\ UNCHANGED strange
       \/ /\ Head(toHost).type # "ok"
          /\ strange' = (strange \/ Head(toHost).type \in {"error", "cme"})
          /\ UNCHANGED <<pc, sent, apdu, ret, lastOk, toModem>>
    /\ UNCHANGED rsp

----------------------------------------------------------------------------
(* The card, the modem and the PC/SC service                               *)

\* Any command may be answered with 6Cxx or 61xx, GET RESPONSE too, as often
\* as the card likes; transmit() does not count, so the model has a bound.
CardStatus(a) == {"final"} \cup IF a.reps < MaxRepeats THEN {"6C", "61"} ELSE {}

\* What is answered with 6Cxx is not run, GET RESPONSE runs nothing, and a
\* command with another length of its data is not the command of the call.
CardRuns(a, sw) ==
    /\ runs' = IF a.ins = "cmd" /\ a.lc = "right" /\ sw # "6C" THEN [runs EXCEPT ![a.call] = @ + 1] ELSE runs
    /\ held' = CASE a.ins = "cmd" /\ sw = "61" -> a.call
                 [] a.ins = "get" /\ sw = "final" -> 0
                 [] OTHER -> held

CardResponse(a, sw) == Csim(a.id, IF a.ins = "get" THEN held ELSE a.call, sw)

ModemAnswers ==
    /\ up /\ toModem # <<>>
    /\ toModem' = Tail(toModem)
    /\ LET a == Head(toModem)
       IN  \/ \E sw \in CardStatus(a), end \in {"ok", "error"} :
                 /\ CardRuns(a, sw)
                 /\ toHost' = toHost \o <<CardResponse(a, sw), Line(end)>>
           \/ \E sw \in CardStatus(a), end \in {"error", "cme"} :   \* run, answer lost
                 /\ CardRuns(a, sw)
                 /\ toHost' = Append(toHost, Line(end))
           \/ \E end \in {"error", "cme"} :                         \* not run
                 /\ toHost' = Append(toHost, Line(end))
                 /\ UNCHANGED cardVars
    /\ UNCHANGED <<hostVars, up>>

\* Unsolicited lines, the echo of a command, empty lines.
OtherLine ==
    /\ up /\ toHost = <<>> /\ device = "modem"
    /\ toHost' = <<Line("urc")>>
    /\ UNCHANGED <<hostVars, toModem, up, cardVars>>

PortFails ==
    /\ up /\ device = "modem"
    /\ up' = FALSE
    /\ UNCHANGED <<hostVars, toModem, toHost, cardVars>>

\* PcscSEInterface::transmitApdu: SCardTransmit returns the answer or an
\* error, after the card has run the command or without.
PcscTransmit ==
    /\ pc = "scard"
    /\ \/ \E sw \in CardStatus(apdu) :
            /\ CardRuns(apdu, sw)
            /\ \/ rsp' = CardResponse(apdu, sw) /\ HandleResponse(rsp')
               \/ Return("lost") /\ UNCHANGED rsp
       \/ Return("lost") /\ UNCHANGED <<rsp, cardVars>>
    /\ UNCHANGED <<device, n, skew, strange, toHost, up>>

----------------------------------------------------------------------------
Program == AwaitCsim \/ DrainOk \/ PcscTransmit

Next ==
    \/ start \/ PcscOpen \/ Die
    \/ \E k \in Cases : transmit(k)
    \/ Program
    \/ ModemAnswers \/ OtherLine \/ PortFails

Spec == Init /\ [][Next]_vars

\* A program in transmit() goes on, and so does a modem that works.
FairSpec == Spec /\ WF_vars(Program) /\ WF_vars(ModemAnswers)

----------------------------------------------------------------------------
(* Properties                                                              *)

(* "transmit an APDU and retrieve the corresponding APDU Response"         *)
(* (SEInterface.h): the response a successful transmit() returns is no     *)
(* more answers behind its own command than there were outstanding when    *)
(* the port was opened.  Errors, lines in between, lost answers and the    *)
(* 61xx and 6Cxx repetitions never put the program out of step.            *)
InStep ==
    pc = "idle" /\ ret = "answered" =>
        /\ sent - rsp.id <= skew
        /\ skew = 0 => rsp.call = n

\* The call whose data getResponse() copies, 0 when its length is 0: a 61xx
\* or 6Cxx is two bytes long.
getResponse == IF rsp.sw \in {"61", "6C"} THEN 0 ELSE rsp.call

(* "Copy the data response received after the last successful transmit and *)
(* returns its length, 0 otherwise" (SEInterface.h): after any transmit(), *)
(* one that lost a repetition included, the data are those of the last     *)
(* transmit() that returned true, or none; never those of another command. *)
ResponseIsLastGood ==
    pc = "idle" /\ skew = 0 => getResponse \in {0, lastOk}

\* Why a transmit() over a modem may not come back: the line is dead, or the
\* modem has ended a command in a way sendATCSIM does not know.
Hung == ~up \/ strange

(* With a card that stops asking for repetitions transmit() returns:       *)
(* sendATCSIM's two loops find their lines behind errors, lost answers,    *)
(* lines in between and leftover answers, unless the port fails or the     *)
(* modem ends a command with +CME ERROR, or with ERROR after +CSIM.        *)
TransmitReturns == Busy ~> ~Busy \/ Hung

Abstract == INSTANCE ApduExchange WITH
    phase   <- CASE pc = "closed" -> "down" [] pc = "idle" -> "idle" [] OTHER -> "busy",
    ran     <- runs[n],
    result  <- ret,
    spoilt  <- apdu.lc = "wrong",
    tainted <- skew > 0

(* SEInterface over a modem or a reader implements the three outcomes that *)
(* Applet takes an exchange to have: a command is run at most once, true   *)
(* means that it was run and answered, unless the card has answered 6Cxx   *)
(* to a command with data, whose length transmit() then writes over.       *)
ImplementsExchange == Abstract!Spec
=============================================================================
