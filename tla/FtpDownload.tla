------------------------------ MODULE FtpDownload ------------------------------
(***************************************************************************)
(* downloadViaFtp (sdk/src/reportmgmt/ftp.ts): one passive FTP or explicit  *)
(* FTPS download of a report file.  `work` is the async function that talks *)
(* to the server, `settled` the promise the caller holds: the race of work  *)
(* and the guard (timer, abort).  A step of work handles one reply of the   *)
(* control channel, whose queue the server may fill at any time.            *)
(***************************************************************************)
EXTENDS Integers, Sequences

CONSTANTS
  Sizes,        \* sizes in bytes a file at Newegg may have
  MaxBytes,     \* options.maxBytes
  MaxPending,   \* MAX_PENDING_REPLIES
  Codes         \* the reply codes the server uses

ASSUME SizeAssumption == Sizes \subseteq Nat /\ MaxBytes \in Nat /\ MaxPending \in Nat

VARIABLES
  ftp,      \* work: the reply it awaits, what it knows, and the caller's promise
  channel,  \* ControlChannel: replies nobody awaited yet, and whether it failed
  data,     \* the data connection
  open,     \* sockets that are connected
  sent      \* the commands sent so far, each with the channel it went over

ftpVars == <<ftp, channel, data, open, sent>>

None == -1

\* The reply that each command waits for; an awaited reply carries the name of its command.
Commands == {"auth", "pbsz", "prot", "user", "pass", "type", "size", "pasv", "epsv", "retr"}
Awaits == Commands \cup {"greeting", "complete"}
Expected == [greeting |-> {220}, auth |-> {234}, pbsz |-> {200}, prot |-> {200},
             user |-> {230, 331}, pass |-> {230}, type |-> {200}, size |-> Codes,
             pasv |-> Codes, epsv |-> {229}, retr |-> {125, 150}, complete |-> {226, 250}]

Stages == Awaits \cup {"idle", "connect", "handshake", "dial", "transfer", "over"}

FtpTypeOK ==
  /\ ftp \in [pc : Stages, ftps : BOOLEAN, secure : BOOLEAN, size : {None} \cup Nat,
              settled : {"no", "bytes", "failed", "aborted"}]
  /\ channel \in [pending : Seq([code : Codes, size : {None} \cup Nat]),
                  failed : BOOLEAN, overflowed : BOOLEAN]
  /\ data \in [state : {"none", "tls", "open", "ended", "failed"}, got : Nat, whole : Sizes]
  /\ open \subseteq {"control", "data"}
  /\ sent \subseteq (Commands \cup {"quit"}) \X {"clear", "tls", "late"}

Fresh == [pending |-> <<>>, failed |-> FALSE, overflowed |-> FALSE]

FtpInit ==
  /\ ftp = [pc |-> "idle", ftps |-> FALSE, secure |-> FALSE, size |-> None, settled |-> "no"]
  /\ channel = Fresh
  /\ data \in [state : {"none"}, got : {0}, whole : Sizes]
  /\ open = {}
  /\ sent = {}

---------------------------------------------------------------------------
(* What work sends when it moves on to a reply.  A command sent after the  *)
(* caller's promise has settled is remembered as late.                     *)
How == IF ftp.settled /= "no" THEN "late" ELSE IF ftp.secure THEN "tls" ELSE "clear"
Send(pc) == sent' = IF pc \in Commands /\ "control" \in open THEN sent \cup {<<pc, How>>} ELSE sent

\* The finally block: it destroys the sockets pushed so far. The socket of a pending connect
\* is not among them. A destroyed control connection fails the channel.
Cleanup ==
  /\ ftp.settled = "no"
  /\ open' = {}
  /\ channel' = [channel EXCEPT !.failed = TRUE]

\* Work ends. The caller hears of it unless the guard was faster, and only then is cleaned up.
End(outcome) ==
  IF ftp.settled = "no"
  THEN /\ ftp' = [ftp EXCEPT !.pc = "over", !.settled = outcome]
       /\ Cleanup
  ELSE /\ ftp' = [ftp EXCEPT !.pc = "over"]
       /\ UNCHANGED <<open, channel>>

Fails == End("failed") /\ UNCHANGED <<data, sent>>

\* The URL, host, port, TLS options and path are checked before anything is connected.
Start(valid, ftps) ==
  /\ ftp.pc = "idle"
  /\ ftp' = IF valid THEN [ftp EXCEPT !.pc = "connect", !.ftps = ftps]
            ELSE [ftp EXCEPT !.pc = "over", !.settled = "failed"]
  /\ UNCHANGED <<channel, data, open, sent>>

Connect ==
  /\ ftp.pc = "connect"
  /\ \/ /\ open' = open \cup {"control"}
        /\ ftp' = [ftp EXCEPT !.pc = "greeting"]
        /\ channel' = Fresh
        /\ UNCHANGED <<data, sent>>
     \/ Fails

---------------------------------------------------------------------------
(* The server's side of the control channel.                               *)

\* A complete reply: the awaited one, or one that is queued, within a limit.
Reply(r) ==
  /\ "control" \in open /\ ~channel.failed
  /\ IF Len(channel.pending) < MaxPending + (IF ftp.pc \in Awaits THEN 1 ELSE 0)
     THEN /\ channel' = [channel EXCEPT !.pending = Append(@, r)]
          /\ UNCHANGED open
     ELSE /\ channel' = [channel EXCEPT !.failed = TRUE, !.overflowed = TRUE]
          /\ open' = open \ {"control"}
  /\ UNCHANGED <<ftp, data, sent>>

\* A line or a multi-line reply that never ends.
Flood ==
  /\ "control" \in open /\ ~channel.failed
  /\ channel' = [channel EXCEPT !.failed = TRUE, !.overflowed = TRUE]
  /\ open' = open \ {"control"}
  /\ UNCHANGED <<ftp, data, sent>>

HangUp ==
  /\ "control" \in open
  /\ channel' = [channel EXCEPT !.failed = TRUE]
  /\ open' = open \ {"control"}
  /\ UNCHANGED <<ftp, data, sent>>

---------------------------------------------------------------------------
(* Work handles the reply it awaits.                                       *)

\* Mutant: the login does not wait for TLS
LoginFirst(pc, code) ==
  [greeting |-> "user", auth |-> "handshake", pbsz |-> "prot", prot |-> "type",
   user |-> IF code = 331 THEN "pass" ELSE IF ftp.ftps THEN "auth" ELSE "type",
   pass |-> IF ftp.ftps THEN "auth" ELSE "type", type |-> "size", size |-> "pasv",
   pasv |-> IF code = 227 THEN "dial" ELSE "epsv", epsv |-> "dial",
   retr |-> "transfer", complete |-> "over"][pc]
\* What work awaits after a reply; the command of that name is sent.
After(pc, code) ==
  [greeting |-> IF ftp.ftps THEN "auth" ELSE "user", auth |-> "handshake",
   pbsz |-> "prot", prot |-> "user", user |-> IF code = 331 THEN "pass" ELSE "type",
   pass |-> "type", type |-> "size", size |-> "pasv",
   pasv |-> IF code = 227 THEN "dial" ELSE "epsv", epsv |-> "dial",
   retr |-> "transfer", complete |-> "over"][pc]

\* The size of a 213 reply that is one plain integer.
Announced(r) == IF r.code = 213 THEN r.size ELSE None

\* What work requires of a reply beyond its code. Nothing may follow the reply to AUTH in
\* clear text, TLS needs a size to compare with, and the size has a limit.
Acceptable(pc, r) ==
  /\ r.code \in Expected[pc]
  /\ pc = "auth" => Tail(channel.pending) = <<>>
  /\ pc = "size" => Announced(r) <= MaxBytes /\ (ftp.secure => Announced(r) /= None)
  /\ pc = "complete" => ftp.size \in {None, data.got}

TakeReply ==
  /\ ftp.pc \in Awaits
  /\ channel.pending /= <<>>
  /\ LET r == Head(channel.pending)  next == After(ftp.pc, r.code) IN
     IF ~Acceptable(ftp.pc, r) THEN Fails
     ELSE IF next = "over" THEN /\ End("bytes")
                                /\ sent' = sent \cup {<<"quit", How>>}
                                /\ UNCHANGED data
     ELSE /\ ftp' = [ftp EXCEPT !.pc = next,
                                !.size = IF ftp.pc = "size" THEN Announced(r) ELSE @]
          /\ channel' = [channel EXCEPT !.pending = Tail(@)]
          /\ Send(next)
          /\ UNCHANGED <<data, open>>

\* Queued replies are read first, then a failed channel rejects.
ChannelFails ==
  /\ ftp.pc \in Awaits
  /\ channel.pending = <<>> /\ channel.failed
  /\ Fails

\* upgrade: the control connection goes on over TLS with a new, empty channel.
Handshake ==
  /\ ftp.pc = "handshake"
  /\ \/ /\ "control" \in open
        /\ ftp' = [ftp EXCEPT !.pc = "pbsz", !.secure = TRUE]
        /\ channel' = Fresh
        /\ sent' = sent \cup {<<"pbsz", IF ftp.settled = "no" THEN "tls" ELSE "late">>}
        /\ UNCHANGED <<data, open>>
     \/ Fails

\* The data connection; over TLS its handshake runs while RETR is sent.
Dial ==
  /\ ftp.pc = "dial"
  /\ \/ /\ open' = open \cup {"data"}
        /\ data' = [data EXCEPT !.state = IF ftp.secure THEN "tls" ELSE "open"]
        /\ ftp' = [ftp EXCEPT !.pc = "retr"]
        /\ Send("retr")
        /\ UNCHANGED channel
     \/ Fails

---------------------------------------------------------------------------
(* The data connection, up to its end.                                     *)

\* Mutant: a chunk that goes over the limit is kept
ReceiveAll ==
  /\ data.state = "open" /\ "data" \in open /\ data.got < data.whole
  /\ data' = [data EXCEPT !.got = @ + 1]
  /\ UNCHANGED <<ftp, channel, open, sent>>
Receive ==
  /\ data.state = "open" /\ "data" \in open /\ data.got < data.whole
  /\ IF data.got + 1 > MaxBytes
     THEN data' = [data EXCEPT !.state = "failed"] /\ open' = open \ {"data"}
     ELSE data' = [data EXCEPT !.got = @ + 1] /\ UNCHANGED open
  /\ UNCHANGED <<ftp, channel, sent>>

DataHandshake ==
  /\ data.state = "tls" /\ "data" \in open
  /\ data' = [data EXCEPT !.state = "open"]
  /\ UNCHANGED <<ftp, channel, open, sent>>

\* The connection ends: after the last byte, or cut short and looking the same. An end
\* before the handshake is an error.
DataEnds ==
  /\ data.state \in {"tls", "open"} /\ "data" \in open
  /\ data' = [data EXCEPT !.state = IF @ = "open" THEN "ended" ELSE "failed"]
  /\ UNCHANGED <<ftp, channel, open, sent>>

DataError ==
  /\ data.state \in {"tls", "open"}
  /\ data' = [data EXCEPT !.state = "failed"]
  /\ UNCHANGED <<ftp, channel, open, sent>>

\* Work waits for the transfer or for a control channel that broke its limits.
Transferred ==
  /\ ftp.pc = "transfer"
  /\ \/ /\ data.state = "ended"
        /\ ftp' = [ftp EXCEPT !.pc = "complete"]
        /\ UNCHANGED <<channel, data, open, sent>>
     \/ /\ data.state = "failed" \/ channel.overflowed
        /\ Fails

---------------------------------------------------------------------------
(* The guard.                                                              *)

\* The guard settles the caller's promise and destroys the sockets; work goes on by itself.
Guard(outcome) ==
  /\ ftp.pc /= "idle" /\ ftp.pc /= "over"
  /\ ftp' = [ftp EXCEPT !.settled = outcome]
  /\ Cleanup
  /\ UNCHANGED <<data, sent>>

\* Mutant: the timer is set once connected
TimeoutConnected == ftp.pc /= "connect" /\ Guard("failed")
Timeout == Guard("failed")

FtpAbort == Guard("aborted")

Work == Connect \/ TakeReply \/ ChannelFails \/ Handshake \/ Dial \/ Transferred
Server == \/ \E c \in Codes, n \in {None, data.whole} : (n = None \/ c = 213) /\ Reply([code |-> c, size |-> n])
          \/ Flood \/ HangUp
          \/ Receive \/ DataHandshake \/ DataEnds \/ DataError

FtpStart == \E valid, ftps \in BOOLEAN : Start(valid, ftps)
FtpNext == FtpStart \/ Work \/ Server \/ Timeout \/ FtpAbort

FtpSpec == FtpInit /\ [][FtpNext]_ftpVars /\ WF_ftpVars(Timeout)

---------------------------------------------------------------------------

\* With FTPS nothing but the request for TLS travels in clear text: no login, no file name, and
\* there is no falling back when the server refuses (ftp.ts:436-456).
CredentialsProtected ==
  ftp.ftps => \A s \in sent : s[2] = "clear" => s[1] = "auth"

\* ftp.ts:44: "Overall budget for connect + login + transfer": once the caller was told that the
\* download is over, the work behind it has stopped and sends the server nothing more.
NothingSentLate == \A s \in sent : s[2] /= "late"
================================================================================
