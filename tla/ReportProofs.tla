---------------------------- MODULE ReportProofs ----------------------------
(***************************************************************************)
(* Proofs about FtpDownload and ReportLifecycle, for reports and files of *)
(* any size, any limits, budgets, page sizes and reply codes: type        *)
(* correctness, that explicit FTPS keeps the login, the name of the file  *)
(* and the name of its owner off the clear text connection, and that an   *)
(* answer which is not marked as cut off is the whole report. And about   *)
(* Redaction, for any number of objects that refer to each other in any   *)
(* way, any depth and any count: no error shows the secret in its graph;  *)
(* and that what the redaction of URLs remembers of a text shows in none. *)
(***************************************************************************)
EXTENDS ReportLifecycle, Redaction, Induction, FiniteSetTheorems, SequenceTheorems, TLAPS

-----------------------------------------------------------------------------
(* Where the control connection of an FTPS download is not yet encrypted. *)
Unencrypted == {"idle", "connect", "greeting", "auth", "handshake", "over"}

(* Beyond these stages the connection is encrypted; before the start      *)
(* nothing was sent.                                                      *)
FtpInv ==
  /\ FtpTypeOK
  /\ ftp.pc = "idle" => sent = {}
  /\ ftp.ftps /\ ftp.pc \notin Unencrypted => ftp.secure
  /\ CredentialsProtected

-----------------------------------------------------------------------------
Replies == [code : Codes, size : {None} \cup Nat]

(* What the queue of replies is, in terms of the set of replies.          *)
LEMMA QueueType ==
  ASSUME FtpTypeOK
  PROVE  /\ channel \in [pending : Seq(Replies), failed : BOOLEAN, overflowed : BOOLEAN]
         /\ channel.pending \in Seq(Replies)
BY DEF FtpTypeOK, Replies

(* A command is sent once, by the way that the state of the connection says *)
(* (ftp.ts, send).                                                        *)
LEMMA SendAdds ==
  ASSUME NEW command, Send(command)
  PROVE  \/ sent' = sent
         \/ command \in Commands /\ sent' = sent \cup {<<command, How>>}
<1>1. CASE command \in Commands /\ "control" \in open
  BY <1>1 DEF Send
<1>2. CASE ~(command \in Commands /\ "control" \in open)
  BY <1>2 DEF Send
<1> QED BY <1>1, <1>2

(* The end of work keeps the types: it touches no fields but the stage, the *)
(* promise, the sockets and the state of the channel (ftp.ts, the finally *)
(* block of downloadViaFtp).                                              *)
LEMMA EndTypes ==
  ASSUME FtpTypeOK, NEW o \in {"bytes", "failed", "aborted"}, End(o)
  PROVE  /\ ftp' = [ftp EXCEPT !.pc = "over", !.settled = ftp'.settled]
         /\ ftp'.settled \in {"no", "bytes", "failed", "aborted"}
         /\ channel' \in [pending : Seq([code : Codes, size : {None} \cup Nat]),
                          failed : BOOLEAN, overflowed : BOOLEAN]
         /\ open' \subseteq {"control", "data"}
<1>1. CASE ftp.settled = "no"
  BY <1>1 DEF FtpTypeOK, End, Cleanup
<1>2. CASE ftp.settled # "no"
  BY <1>2 DEF FtpTypeOK, End
<1> QED BY <1>1, <1>2

(* Failing work sends nothing, so that no reply, timeout or broken channel*)
(* can bring anything onto the wire.                                      *)
LEMMA FailsSafe ==
  ASSUME FtpInv, ftp.pc # "idle", Fails
  PROVE  FtpInv'
<1>1. End("failed") /\ UNCHANGED <<data, sent>>
  BY DEF Fails
<1>2. /\ ftp' = [ftp EXCEPT !.pc = "over", !.settled = ftp'.settled]
      /\ ftp'.settled \in {"no", "bytes", "failed", "aborted"}
      /\ channel' \in [pending : Seq([code : Codes, size : {None} \cup Nat]),
                       failed : BOOLEAN, overflowed : BOOLEAN]
      /\ open' \subseteq {"control", "data"}
  BY <1>1, EndTypes DEF FtpInv
<1>3. ftp \in [pc : Stages, ftps : BOOLEAN, secure : BOOLEAN, size : {None} \cup Nat,
               settled : {"no", "bytes", "failed", "aborted"}]
  BY DEF FtpInv, FtpTypeOK
<1>4. ftp'.pc = "over" /\ ftp'.ftps = ftp.ftps /\ ftp' \in [pc : Stages, ftps : BOOLEAN,
        secure : BOOLEAN, size : {None} \cup Nat, settled : {"no", "bytes", "failed", "aborted"}]
  BY <1>2, <1>3 DEF Stages
<1> QED BY <1>1, <1>2, <1>4 DEF FtpInv, FtpTypeOK, CredentialsProtected, Unencrypted

(* The commands of a run: what follows a reply is a stage, and only an FTPS *)
(* run that has come past its handshake leaves the unencrypted stages     *)
(* (ftp.ts, the sequence of commands).                                    *)
LEMMA AfterStages ==
  ASSUME FtpTypeOK, NEW p \in Awaits, NEW code
  PROVE  /\ After(p, code) \in Stages \ {"idle"}
         /\ p = "greeting" => After(p, code) = IF ftp.ftps THEN "auth" ELSE "user"
         /\ p = "auth" => After(p, code) = "handshake"
BY DEF Awaits, Commands, After, Stages

(* The reply that work waited for is handled.                             *)
LEMMA TakeReplySafe ==
  ASSUME FtpInv, TakeReply
  PROVE  FtpInv'
<1> DEFINE r == Head(channel.pending)
           next == After(ftp.pc, r.code)
<1>0. ftp.pc \in Awaits /\ ftp.pc # "idle" /\ channel.pending # <<>>
  BY DEF TakeReply, Awaits, Commands
<1>1. ftp \in [pc : Stages, ftps : BOOLEAN, secure : BOOLEAN, size : {None} \cup Nat,
               settled : {"no", "bytes", "failed", "aborted"}]
  BY DEF FtpInv, FtpTypeOK
<1>2. r \in [code : Codes, size : {None} \cup Nat]
  BY <1>0, QueueType, HeadTailProperties DEF FtpInv, Replies
<1>3. /\ next \in Stages \ {"idle"}
      /\ ftp.pc = "greeting" => next = IF ftp.ftps THEN "auth" ELSE "user"
      /\ ftp.pc = "auth" => next = "handshake"
  BY <1>0, AfterStages DEF FtpInv
<1>4. CASE Fails
  BY <1>0, <1>4, FailsSafe
<1>5. CASE End("bytes") /\ sent' = sent \cup {<<"quit", How>>} /\ UNCHANGED data /\ next = "over"
  <2>1. /\ ftp' = [ftp EXCEPT !.pc = "over", !.settled = ftp'.settled]
        /\ ftp'.settled \in {"no", "bytes", "failed", "aborted"}
        /\ channel' \in [pending : Seq([code : Codes, size : {None} \cup Nat]),
                         failed : BOOLEAN, overflowed : BOOLEAN]
        /\ open' \subseteq {"control", "data"}
    BY <1>5, EndTypes DEF FtpInv
  <2>2. /\ ftp'.pc = "over" /\ ftp'.ftps = ftp.ftps
        /\ ftp' \in [pc : Stages, ftps : BOOLEAN, secure : BOOLEAN, size : {None} \cup Nat,
                     settled : {"no", "bytes", "failed", "aborted"}]
    BY <1>1, <2>1 DEF Stages
  <2>3. How \in {"clear", "tls", "late"} /\ (ftp.secure => How # "clear")
    BY DEF How
  <2>4. ftp.ftps => ftp.secure
    BY <1>0, <1>3, <1>5, <1>1 DEF FtpInv, Unencrypted, Awaits, Commands
  <2>5. FtpTypeOK'
    BY <1>5, <2>1, <2>2, <2>3 DEF FtpInv, FtpTypeOK
  <2>6. CredentialsProtected'
    BY <1>5, <2>2, <2>3, <2>4 DEF FtpInv, CredentialsProtected
  <2> QED BY <2>2, <2>5, <2>6 DEF FtpInv, Unencrypted
<1>6. CASE /\ ftp' = [ftp EXCEPT !.pc = next, !.size = IF ftp.pc = "size" THEN Announced(r) ELSE @]
           /\ channel' = [channel EXCEPT !.pending = Tail(@)]
           /\ Send(next)
           /\ UNCHANGED <<data, open>>
           /\ next # "over"
  <2>1. Announced(r) \in {None} \cup Nat
    BY <1>2 DEF Announced
  <2>2. /\ ftp'.pc = next /\ ftp'.ftps = ftp.ftps /\ ftp'.secure = ftp.secure
        /\ ftp' \in [pc : Stages, ftps : BOOLEAN, secure : BOOLEAN, size : {None} \cup Nat,
                     settled : {"no", "bytes", "failed", "aborted"}]
    BY <1>1, <1>3, <1>6, <2>1
  <2>3. channel' \in [pending : Seq([code : Codes, size : {None} \cup Nat]),
                      failed : BOOLEAN, overflowed : BOOLEAN]
    <3>1. Tail(channel.pending) \in Seq(Replies)
      BY <1>0, QueueType, HeadTailProperties DEF FtpInv
    <3>2. channel \in [pending : Seq(Replies), failed : BOOLEAN, overflowed : BOOLEAN]
      BY QueueType DEF FtpInv
    <3>3. channel' \in [pending : Seq(Replies), failed : BOOLEAN, overflowed : BOOLEAN]
      BY <1>6, <3>1, <3>2
    <3> QED BY <3>3 DEF Replies
  <2>4. How \in {"clear", "tls", "late"} /\ (ftp.secure => How # "clear")
    BY DEF How
  <2>5. \/ sent' = sent
        \/ next \in Commands /\ sent' = sent \cup {<<next, How>>}
    BY <1>6, SendAdds
  <2>6. FtpTypeOK'
    BY <1>6, <2>2, <2>3, <2>4, <2>5 DEF FtpInv, FtpTypeOK
  <2>7. ftp.ftps => \/ ftp.secure
                    \/ next \in {"auth", "handshake"}
    BY <1>0, <1>1, <1>3 DEF FtpInv, Unencrypted, Awaits, Commands
  <2>8. CredentialsProtected'
    BY <2>2, <2>4, <2>5, <2>7 DEF FtpInv, CredentialsProtected, Commands
  <2> QED BY <1>3, <2>2, <2>6, <2>7, <2>8 DEF FtpInv, Unencrypted
<1> QED BY <1>4, <1>5, <1>6 DEF TakeReply

(* The other steps of work: connecting, the handshake and the data        *)
(* connection, whose commands go out encrypted.                           *)
LEMMA WorkSafe ==
  ASSUME FtpInv, Work
  PROVE  FtpInv'
<1>1. CASE Connect
  <2>1. ftp.pc = "connect"
    BY <1>1 DEF Connect
  <2>2. CASE Fails
    BY <2>1, <2>2, FailsSafe
  <2>3. CASE /\ open' = open \cup {"control"} /\ ftp' = [ftp EXCEPT !.pc = "greeting"]
             /\ channel' = Fresh /\ UNCHANGED <<data, sent>>
    BY <2>1, <2>3 DEF FtpInv, FtpTypeOK, Fresh, Stages, Awaits, Unencrypted, CredentialsProtected
  <2> QED BY <1>1, <2>2, <2>3 DEF Connect
<1>2. CASE TakeReply
  BY <1>2, TakeReplySafe
<1>3. CASE ChannelFails
  BY <1>3, FailsSafe DEF ChannelFails, Awaits, Commands
<1>4. CASE Handshake
  <2>1. ftp.pc = "handshake"
    BY <1>4 DEF Handshake
  <2>2. CASE Fails
    BY <2>1, <2>2, FailsSafe
  <2>3. CASE /\ ftp' = [ftp EXCEPT !.pc = "pbsz", !.secure = TRUE]
             /\ channel' = Fresh
             /\ sent' = sent \cup {<<"pbsz", IF ftp.settled = "no" THEN "tls" ELSE "late">>}
             /\ UNCHANGED <<data, open>>
    <3>1. FtpTypeOK'
      <4>1. channel' \in [pending : Seq([code : Codes, size : {None} \cup Nat]),
                          failed : BOOLEAN, overflowed : BOOLEAN]
        BY <2>3 DEF Fresh
      <4>2. ftp' \in [pc : Stages, ftps : BOOLEAN, secure : BOOLEAN, size : {None} \cup Nat,
                      settled : {"no", "bytes", "failed", "aborted"}]
        BY <2>3 DEF FtpInv, FtpTypeOK, Stages, Awaits, Commands
      <4>3. sent' \subseteq (Commands \cup {"quit"}) \X {"clear", "tls", "late"}
        BY <2>3 DEF FtpInv, FtpTypeOK, Commands
      <4> QED BY <2>3, <4>1, <4>2, <4>3 DEF FtpInv, FtpTypeOK
    <3>2. ftp'.pc = "pbsz" /\ ftp'.secure /\ ftp'.ftps = ftp.ftps
      BY <2>3 DEF FtpInv, FtpTypeOK
    <3>3. CredentialsProtected'
      BY <2>3, <3>2 DEF FtpInv, CredentialsProtected
    <3> QED BY <3>1, <3>2, <3>3 DEF FtpInv
  <2> QED BY <1>4, <2>2, <2>3 DEF Handshake
<1>5. CASE Dial
  <2>1. ftp.pc = "dial" /\ (ftp.ftps => ftp.secure)
    BY <1>5 DEF Dial, FtpInv, Unencrypted
  <2>2. CASE Fails
    BY <2>1, <2>2, FailsSafe
  <2>3. CASE /\ open' = open \cup {"data"}
             /\ data' = [data EXCEPT !.state = IF ftp.secure THEN "tls" ELSE "open"]
             /\ ftp' = [ftp EXCEPT !.pc = "retr"]
             /\ Send("retr")
             /\ UNCHANGED channel
    <3>1. How \in {"clear", "tls", "late"} /\ (ftp.secure => How # "clear")
      BY DEF How
    <3>2. sent' = sent \/ sent' = sent \cup {<<"retr", How>>}
      BY <2>3, SendAdds
    <3>3. FtpTypeOK'
      BY <2>3, <3>1, <3>2 DEF FtpInv, FtpTypeOK, Stages, Awaits, Commands
    <3>4. ftp'.pc = "retr" /\ ftp'.secure = ftp.secure /\ ftp'.ftps = ftp.ftps
      BY <2>3 DEF FtpInv, FtpTypeOK
    <3>5. CredentialsProtected'
      BY <2>1, <3>1, <3>2, <3>4 DEF FtpInv, CredentialsProtected
    <3> QED BY <2>1, <3>3, <3>4, <3>5 DEF FtpInv
  <2> QED BY <1>5, <2>2, <2>3 DEF Dial
<1>6. CASE Transferred
  <2>1. ftp.pc = "transfer"
    BY <1>6 DEF Transferred
  <2>2. CASE Fails
    BY <2>1, <2>2, FailsSafe
  <2>3. CASE ftp' = [ftp EXCEPT !.pc = "complete"] /\ UNCHANGED <<channel, data, open, sent>>
    BY <2>1, <2>3 DEF FtpInv, FtpTypeOK, Stages, Awaits, Unencrypted, CredentialsProtected
  <2> QED BY <1>6, <2>2, <2>3 DEF Transferred
<1> QED BY <1>1, <1>2, <1>3, <1>4, <1>5, <1>6 DEF Work

(* What the server does puts nothing on the wire of the client.           *)
LEMMA ServerSafe ==
  ASSUME FtpInv, Server
  PROVE  FtpInv'
<1>0. data.whole \in Nat /\ data.whole \in Sizes
  BY SizeAssumption DEF FtpInv, FtpTypeOK
<1>1. ASSUME NEW c \in Codes, NEW n \in {None, data.whole}, Reply([code |-> c, size |-> n])
      PROVE  FtpInv'
  <2>1. [code |-> c, size |-> n] \in Replies
    BY <1>0 DEF Replies
  <2>2. channel.pending \in Seq(Replies)
    BY QueueType DEF FtpInv
  <2>3. Append(channel.pending, [code |-> c, size |-> n]) \in Seq(Replies)
    BY <2>1, <2>2, AppendProperties
  <2>4. channel \in [pending : Seq(Replies), failed : BOOLEAN, overflowed : BOOLEAN]
    BY QueueType DEF FtpInv
  <2>5. /\ channel' \in [pending : Seq(Replies), failed : BOOLEAN, overflowed : BOOLEAN]
        /\ open' \subseteq open
    BY <1>1, <2>3, <2>4 DEF Reply
  <2>6. UNCHANGED <<ftp, data, sent>>
    BY <1>1 DEF Reply
  <2> QED BY <2>5, <2>6 DEF FtpInv, FtpTypeOK, CredentialsProtected, Replies
<1>2. CASE Flood \/ HangUp
  BY <1>2 DEF FtpInv, FtpTypeOK, Flood, HangUp, CredentialsProtected
<1>3. CASE Receive \/ DataHandshake \/ DataEnds \/ DataError
  BY <1>0, <1>3 DEF FtpInv, FtpTypeOK, Receive, DataHandshake, DataEnds, DataError,
                    CredentialsProtected
<1>4. CASE \E c \in Codes, n \in {None, data.whole} :
             (n = None \/ c = 213) /\ Reply([code |-> c, size |-> n])
  <2> PICK c \in Codes, n \in {None, data.whole} : Reply([code |-> c, size |-> n])
    BY <1>4
  <2> QED BY <1>1
<1> QED BY <1>2, <1>3, <1>4 DEF Server

(* Every step keeps the invariant.                                        *)
LEMMA FtpStepSafe ==
  ASSUME FtpInv, [FtpNext]_ftpVars
  PROVE  FtpInv'
<1>1. CASE FtpStart
  <2> PICK valid \in BOOLEAN, ftps \in BOOLEAN : Start(valid, ftps)
    BY <1>1 DEF FtpStart
  <2>1. ftp.pc = "idle" /\ sent = {} /\ sent' = {}
    BY DEF FtpInv, Start
  <2>2. FtpTypeOK' /\ ftp'.pc \in Unencrypted
    BY DEF FtpInv, FtpTypeOK, Start, Stages, Unencrypted
  <2> QED BY <2>1, <2>2 DEF FtpInv, CredentialsProtected
<1>2. CASE Work
  BY <1>2, WorkSafe
<1>3. CASE Server
  BY <1>3, ServerSafe
<1>4. CASE Timeout \/ FtpAbort
  <2> PICK o \in {"failed", "aborted"} : Guard(o)
    BY <1>4 DEF Timeout, FtpAbort
  <2>1. FtpTypeOK' /\ ftp'.pc = ftp.pc /\ ftp'.secure = ftp.secure /\ ftp'.ftps = ftp.ftps
    BY DEF FtpInv, FtpTypeOK, Guard, Cleanup
  <2> QED BY <2>1 DEF FtpInv, Guard, CredentialsProtected
<1>5. CASE UNCHANGED ftpVars
  BY <1>5 DEF ftpVars, FtpInv, FtpTypeOK, CredentialsProtected
<1> QED BY <1>1, <1>2, <1>3, <1>4, <1>5 DEF FtpNext

(* A download starts out with the invariant.                              *)
LEMMA FtpInitSafe == FtpInit => FtpInv
BY SizeAssumption DEF FtpInit, FtpInv, FtpTypeOK, Stages, Fresh, CredentialsProtected, Unencrypted

(* The types, for files of any size and replies of any kind: the queue of *)
(* the control channel, the sockets and the commands stay what they are.  *)
THEOREM FtpTyped == FtpSpec => []FtpTypeOK
<1>1. FtpInv => FtpTypeOK
  BY DEF FtpInv
<1> QED BY <1>1, FtpInitSafe, FtpStepSafe, PTL DEF FtpSpec

(* With FTPS nothing but the request for TLS ever travels in clear text,  *)
(* whatever the server answers or injects and whenever it does            *)
(* (ftp.ts:436-456).                                                      *)
THEOREM LoginIsProtected == FtpSpec => []CredentialsProtected
<1>1. FtpInv => CredentialsProtected
  BY DEF FtpInv
<1> QED BY <1>1, FtpInitSafe, FtpStepSafe, PTL DEF FtpSpec

-----------------------------------------------------------------------------
(* A download that succeeded is complete, as far as its length was told:  *)
(* what the server says of the size is the size or nothing, over TLS work *)
(* goes on only when it knows it, and what is kept never passes the limit.*)
Sized == {"pasv", "epsv", "dial", "retr", "transfer", "complete"}
Told  == [code : Codes, size : {None, data.whole}]

DownloadInv ==
  /\ FtpInv
  /\ data.got <= MaxBytes
  /\ channel.pending \in Seq(Told)
  /\ ftp.size \in {None, data.whole}
  /\ ftp.secure /\ ftp.pc \in Sized => ftp.size # None
  /\ ftp.settled = "bytes" =>
       /\ ftp.pc = "over" /\ open = {}
       /\ ftp.ftps \/ ftp.size # None => data.got = data.whole

(* The fields that the steps below read and replace.                      *)
LEMMA DownloadShape ==
  ASSUME DownloadInv
  PROVE  /\ ftp \in [pc : Stages, ftps : BOOLEAN, secure : BOOLEAN, size : {None} \cup Nat,
                     settled : {"no", "bytes", "failed", "aborted"}]
         /\ channel \in [pending : Seq(Told), failed : BOOLEAN, overflowed : BOOLEAN]
         /\ data \in [state : {"none", "tls", "open", "ended", "failed"}, got : Nat, whole : Nat]
         /\ MaxBytes \in Nat
<1>1. FtpTypeOK
  BY DEF DownloadInv, FtpInv
<1>2. channel.pending \in Seq(Told)
  BY DEF DownloadInv
<1>3. channel \in [pending : Seq(Told), failed : BOOLEAN, overflowed : BOOLEAN]
  BY <1>1, <1>2 DEF FtpTypeOK
<1> QED BY <1>1, <1>3, SizeAssumption DEF FtpTypeOK

(* Work that ends without the file.                                       *)
LEMMA FailsComplete ==
  ASSUME DownloadInv, Fails, FtpInv'
  PROVE  DownloadInv'
<1>1. /\ UNCHANGED data
      /\ ftp' = [ftp EXCEPT !.pc = "over", !.settled = ftp'.settled]
      /\ ftp'.settled = "bytes" => ftp.settled = "bytes"
      /\ channel'.pending = channel.pending
      /\ open' \in {{}, open}
  <2>1. CASE ftp.settled = "no"
    BY <2>1, DownloadShape DEF Fails, End, Cleanup
  <2>2. CASE ftp.settled # "no"
    BY <2>2, DownloadShape DEF Fails, End
  <2> QED BY <2>1, <2>2
<1>2. /\ ftp'.pc = "over" /\ ftp'.size = ftp.size /\ ftp'.ftps = ftp.ftps
      /\ ftp'.pc \notin Sized
  BY <1>1, DownloadShape DEF Sized
<1> QED BY <1>1, <1>2 DEF DownloadInv, Told

(* The reply that work waited for is handled: the size is checked where it*)
(* is told, and the bytes that came where the transfer is confirmed.      *)
LEMMA TakeReplyComplete ==
  ASSUME DownloadInv, TakeReply, FtpInv'
  PROVE  DownloadInv'
<1> DEFINE r == Head(channel.pending)
           next == After(ftp.pc, r.code)
<1>1. ftp.pc \in Awaits /\ channel.pending # <<>> /\ FtpTypeOK
  BY DEF TakeReply, DownloadInv, FtpInv
<1>2. r \in Told /\ Tail(channel.pending) \in Seq(Told)
  BY <1>1, DownloadShape, HeadTailProperties
<1>3. /\ next = "over" <=> ftp.pc = "complete"
      /\ ftp.pc = "size" => next = "pasv"
      /\ next \in Sized => ftp.pc \in Sized \cup {"size"}
  BY <1>1 DEF After, Awaits, Commands, Sized
<1>4. CASE Fails
  BY <1>4, FailsComplete
<1>5. CASE Acceptable(ftp.pc, r) /\ next = "over" /\ End("bytes") /\ UNCHANGED data
  <2>1. ftp.pc = "complete" /\ ftp.size \in {None, data.got} /\ (ftp.ftps => ftp.secure)
    BY <1>3, <1>5 DEF Acceptable, DownloadInv, FtpInv, Unencrypted
  <2>2. ftp.ftps \/ ftp.size # None => data.got = data.whole
    BY <2>1, DownloadShape DEF DownloadInv, Sized
  <2>3. ftp.settled # "bytes"
    BY <2>1 DEF DownloadInv
  <2>4. CASE ftp.settled = "no"
    <3>1. /\ ftp'.pc = "over" /\ ftp'.size = ftp.size /\ ftp'.ftps = ftp.ftps
          /\ channel'.pending = channel.pending /\ open' = {}
      BY <1>5, <2>4, DownloadShape DEF End, Cleanup
    <3> QED BY <1>5, <2>2, <3>1 DEF DownloadInv, Told, Sized
  <2>5. CASE ftp.settled # "no"
    <3>1. /\ ftp'.pc = "over" /\ ftp'.size = ftp.size /\ ftp'.ftps = ftp.ftps
          /\ channel'.pending = channel.pending /\ ftp'.settled = ftp.settled
      BY <1>5, <2>5, DownloadShape DEF End
    <3> QED BY <1>5, <2>3, <3>1 DEF DownloadInv, Told, Sized
  <2> QED BY <2>4, <2>5
<1>6. CASE /\ Acceptable(ftp.pc, r)
           /\ ftp' = [ftp EXCEPT !.pc = next, !.size = IF ftp.pc = "size" THEN Announced(r) ELSE @]
           /\ channel' = [channel EXCEPT !.pending = Tail(@)]
           /\ UNCHANGED <<data, open>>
           /\ next # "over"
  <2>1. /\ ftp'.pc = next /\ ftp'.ftps = ftp.ftps /\ ftp'.secure = ftp.secure
        /\ ftp'.settled = ftp.settled
        /\ ftp'.size = IF ftp.pc = "size" THEN Announced(r) ELSE ftp.size
    BY <1>6, DownloadShape
  <2>2. channel'.pending \in Seq(Told)
    BY <1>2, <1>6, DownloadShape
  <2>3. Announced(r) \in {None, data.whole}
    BY <1>2 DEF Announced, Told
  <2>4. ftp.pc = "size" /\ ftp.secure => Announced(r) # None
    BY <1>6 DEF Acceptable
  <2>5. ftp.settled # "bytes"
    BY <1>1 DEF DownloadInv, Awaits, Commands
  <2>6. ftp'.secure /\ ftp'.pc \in Sized => ftp'.size # None
    BY <1>3, <2>1, <2>4 DEF DownloadInv
  <2> QED BY <1>6, <2>1, <2>2, <2>3, <2>5, <2>6 DEF DownloadInv, Told
<1> QED BY <1>4, <1>5, <1>6 DEF TakeReply

(* The other steps of work.                                               *)
LEMMA WorkComplete ==
  ASSUME DownloadInv, Work, FtpInv'
  PROVE  DownloadInv'
<1>1. CASE Fails
  BY <1>1, FailsComplete
<1>2. CASE TakeReply
  BY <1>2, TakeReplyComplete
<1>3. CASE Connect /\ ~Fails
  <2>1. /\ ftp'.pc = "greeting" /\ ftp'.size = ftp.size /\ ftp'.settled = ftp.settled
        /\ channel'.pending = <<>> /\ UNCHANGED data /\ ftp.pc = "connect"
    BY <1>3, DownloadShape DEF Connect, Fresh
  <2> QED BY <2>1 DEF DownloadInv, Told, Sized
<1>4. CASE Handshake /\ ~Fails
  <2>1. /\ ftp'.pc = "pbsz" /\ ftp'.size = ftp.size /\ ftp'.settled = ftp.settled
        /\ channel'.pending = <<>> /\ UNCHANGED data /\ ftp.pc = "handshake"
    <3>1. /\ ftp.pc = "handshake" /\ ftp' = [ftp EXCEPT !.pc = "pbsz", !.secure = TRUE]
          /\ channel' = Fresh /\ UNCHANGED data
      BY <1>4 DEF Handshake
    <3> QED BY <3>1, DownloadShape DEF Fresh
  <2> QED BY <2>1 DEF DownloadInv, Told, Sized
<1>5. CASE Dial /\ ~Fails
  <2>1. /\ ftp'.pc = "retr" /\ ftp'.size = ftp.size /\ ftp'.settled = ftp.settled
        /\ ftp'.secure = ftp.secure /\ UNCHANGED channel /\ ftp.pc = "dial"
        /\ data'.got = data.got /\ data'.whole = data.whole
    BY <1>5, DownloadShape DEF Dial
  <2> QED BY <2>1 DEF DownloadInv, Told, Sized
<1>6. CASE Transferred /\ ~Fails
  <2>1. /\ ftp'.pc = "complete" /\ ftp'.size = ftp.size /\ ftp'.settled = ftp.settled
        /\ ftp'.secure = ftp.secure /\ UNCHANGED <<channel, data>> /\ ftp.pc = "transfer"
    BY <1>6, DownloadShape DEF Transferred
  <2> QED BY <2>1 DEF DownloadInv, Told, Sized
<1> QED BY <1>1, <1>2, <1>3, <1>4, <1>5, <1>6 DEF Work, ChannelFails

(* The server may send what it likes, but a size it tells is the file's; a*)
(* byte too many breaks the transfer, and none comes over a closed socket.*)
LEMMA ServerComplete ==
  ASSUME DownloadInv, Server, FtpInv'
  PROVE  DownloadInv'
<1>1. ASSUME NEW c \in Codes, NEW n \in {None, data.whole}, Reply([code |-> c, size |-> n])
      PROVE  DownloadInv'
  <2> DEFINE r == [code |-> c, size |-> n]
  <2>1. r \in Told
    BY DEF Told
  <2> HIDE DEF r
  <2>2. Append(channel.pending, r) \in Seq(Told)
    BY <2>1, DownloadShape, AppendProperties
  <2>3. /\ channel'.pending \in Seq(Told) /\ UNCHANGED <<ftp, data>>
        /\ open' \in {open, open \ {"control"}}
    BY <1>1, <2>2, DownloadShape DEF Reply, r
  <2> QED BY <2>3 DEF DownloadInv, Told
<1>2. CASE Flood \/ HangUp
  <2>1. channel'.pending = channel.pending /\ UNCHANGED <<ftp, data>> /\ open' = open \ {"control"}
    BY <1>2, DownloadShape DEF Flood, HangUp
  <2> QED BY <2>1 DEF DownloadInv, Told
<1>3. CASE Receive
  <2>1. /\ data'.got <= MaxBytes /\ data'.whole = data.whole /\ UNCHANGED <<ftp, channel>>
        /\ open # {}
    BY <1>3, DownloadShape DEF Receive, DownloadInv
  <2> QED BY <2>1 DEF DownloadInv, Told
<1>4. CASE DataHandshake \/ DataEnds \/ DataError
  <2>1. /\ data'.got = data.got /\ data'.whole = data.whole /\ UNCHANGED <<ftp, channel, open>>
    BY <1>4, DownloadShape DEF DataHandshake, DataEnds, DataError
  <2> QED BY <2>1 DEF DownloadInv, Told
<1>5. CASE \E c \in Codes, n \in {None, data.whole} :
             (n = None \/ c = 213) /\ Reply([code |-> c, size |-> n])
  <2> PICK c \in Codes, n \in {None, data.whole} : Reply([code |-> c, size |-> n])
    BY <1>5
  <2> QED BY <1>1
<1> QED BY <1>2, <1>3, <1>4, <1>5 DEF Server

(* Every step of a download keeps its invariant.                          *)
LEMMA DownloadStepSafe ==
  ASSUME DownloadInv, [FtpNext]_ftpVars
  PROVE  DownloadInv'
<1>0. FtpInv'
  BY FtpStepSafe DEF DownloadInv
<1>1. CASE FtpStart
  <2> PICK valid \in BOOLEAN, ftps \in BOOLEAN : Start(valid, ftps)
    BY <1>1 DEF FtpStart
  <2>1. /\ ftp'.pc \in {"connect", "over"} /\ ftp'.size = ftp.size
        /\ ftp'.settled = "bytes" => ftp.settled = "bytes"
        /\ ftp.pc = "idle" /\ UNCHANGED <<channel, data>>
    BY DownloadShape DEF Start
  <2> QED BY <1>0, <2>1 DEF DownloadInv, Told, Sized
<1>2. CASE Work
  BY <1>0, <1>2, WorkComplete
<1>3. CASE Server
  BY <1>0, <1>3, ServerComplete
<1>4. CASE Timeout \/ FtpAbort
  <2> PICK o \in {"failed", "aborted"} : Guard(o)
    BY <1>4 DEF Timeout, FtpAbort
  <2>1. /\ ftp'.pc = ftp.pc /\ ftp'.secure = ftp.secure /\ ftp'.size = ftp.size
        /\ ftp'.settled # "bytes"
        /\ channel'.pending = channel.pending /\ UNCHANGED data
    BY DownloadShape DEF Guard, Cleanup
  <2> QED BY <1>0, <2>1 DEF DownloadInv, Told
<1>5. CASE UNCHANGED ftpVars
  BY <1>0, <1>5 DEF ftpVars, DownloadInv, Told
<1> QED BY <1>1, <1>2, <1>3, <1>4, <1>5 DEF FtpNext

(* A download starts with nothing received.                               *)
LEMMA DownloadStarts == FtpInit => DownloadInv
<1> SUFFICES ASSUME FtpInit PROVE DownloadInv
  OBVIOUS
<1>1. FtpInv
  BY FtpInitSafe
<1>2. /\ ftp.pc = "idle" /\ ftp.size = None /\ ftp.settled = "no" /\ data.got = 0
      /\ channel.pending = <<>>
  BY DEF FtpInit, Fresh
<1> QED BY <1>1, <1>2, SizeAssumption DEF DownloadInv, Sized, Told

-----------------------------------------------------------------------------
(* The run of a report tool. Pages that were collected are all of the     *)
(* report up to there, and an answer keeps what it was made of.           *)
Call == [pc : {"idle", "done"} \cup Waiting, file : BOOLEAN, limit : Limits \cup {0},
         id : Nat, attempt : 0 .. MaxAttempts, poll : Nat, left : Nat, nap : Nat,
         pages : Nat, rows : Nat, kept : Answers, answer : Answers, resumed : BOOLEAN]

Collecting ==
  /\ call.pc \in {"idle", "submit", "poll", "sleep", "status", "fetch", "file"} => call.pages = 0 /\ call.rows = 0
  /\ call.pc = "done" /\ call.answer.is = "pending" => call.pages = 0 /\ call.rows = 0
  /\ call.pc = "page" => /\ ~call.file
                         /\ call.rows = Least(content, call.pages * PageSize)
  /\ call.pc \in {"fetch", "file"} => call.file

Answering ==
  /\ call.pc # "done" => call.kept.is # "rows" /\ call.answer.is # "rows"
  /\ call.kept.is = "rows" => call.answer.is = "rows"
  /\ ~call.file /\ call.answer.is = "rows" =>
       /\ call.kept.is = "rows"
       /\ ~call.kept.more => call.kept.rows = content
       /\ ~call.answer.more => call.answer.rows = content
  /\ call.file /\ call.answer.is = "rows" =>
       /\ ftp.settled = "bytes"
       /\ ~call.answer.more => call.answer.rows = data.got

ReportInv ==
  /\ TypeOK /\ DownloadInv
  /\ Collecting /\ Answering

(* The pages that the code counts hold every row (reports/api.ts).        *)
LEMMA PagesCover ==
  ASSUME NEW n \in Nat, NEW page \in Nat, page >= Pages(n)
  PROVE  n <= page * PageSize
<1>1. PageSize \in Nat /\ PageSize >= 1
  BY LifecycleAssumption
<1> DEFINE q == (n + PageSize - 1) \div PageSize
<1>2. q \in Nat /\ n + PageSize - 1 < (q + 1) * PageSize
  BY <1>1
<1>3. q <= page
  BY DEF Pages
<1> HIDE DEF q
<1>4. q * PageSize <= page * PageSize
  BY <1>1, <1>2, <1>3
<1> QED BY <1>1, <1>2, <1>4

(* The type of a report request by its parts.                             *)
LEMMA ReportShape ==
  ASSUME ReportInv
  PROVE  /\ call \in Call /\ jobs \in Seq(States) /\ content \in Rows \cup {0} /\ content \in Nat
         /\ NoAnswer \in Answers /\ \A l \in Limits \cup {0} : l \in Nat
         /\ 0 \in 0 .. MaxAttempts /\ 0 \in Nat
         /\ {MaxAttempts, FirstPoll, LastPoll, Budget, StatusBudget, PageSize} \subseteq Nat
BY LifecycleAssumption DEF ReportInv, TypeOK, Call, NoAnswer, Answers

(* A run that goes on has answered nothing yet.                           *)
LEMMA GoesOn ==
  ASSUME ReportInv, DownloadInv', call' \in Call, jobs' \in Seq(States), content' \in Rows \cup {0},
         call'.pc # "done", call'.kept = call.kept \/ call'.kept = NoAnswer,
         call'.answer = call.answer \/ call'.answer = NoAnswer, 
         call.pc # "done" \/ (call.kept.is # "rows" /\ call'.answer = NoAnswer), Collecting'
  PROVE  ReportInv'
<1>1. call'.kept.is # "rows" /\ call'.answer.is # "rows"
  BY DEF ReportInv, Answering, NoAnswer
<1>2. Answering'
  BY <1>1 DEF Answering
<1>3. TypeOK'
  BY DEF TypeOK, Call, DownloadInv, FtpInv
<1> QED BY <1>2, <1>3 DEF ReportInv

(* A run that ends without rows.                                          *)
LEMMA Stops ==
  ASSUME ReportInv, DownloadInv', NEW is \in {"pending", "cancelled", "error", "aborted", "state"},
         DoneAs(is), is = "pending" => call.pc = "poll", jobs' \in Seq(States), UNCHANGED content
  PROVE  ReportInv'
<1> DEFINE answer == [NoAnswer EXCEPT !.is = is]
<1>1. answer \in Answers /\ answer.is = is
  BY DEF Answers, NoAnswer
<1> HIDE DEF answer
<1>2. call' = [call EXCEPT !.pc = "done", !.answer = answer, !.kept = NoAnswer,
                           !.attempt = 0, !.poll = 0, !.left = 0, !.nap = 0]
  BY DEF DoneAs, Done, answer
<1>3. /\ call' \in Call /\ call'.pc = "done" /\ call'.answer = answer /\ call'.kept = NoAnswer
      /\ call'.pages = call.pages /\ call'.rows = call.rows
  BY <1>1, <1>2, ReportShape DEF Call
<1>4. Collecting' /\ Answering'
  BY <1>1, <1>3 DEF ReportInv, Collecting, Answering, NoAnswer
<1>5. TypeOK'
  BY <1>3 DEF ReportInv, TypeOK, Call, DownloadInv, FtpInv
<1> QED BY <1>4, <1>5 DEF ReportInv

(* What the caller of a download was given stays what it is.              *)
LEMMA DownloadStays ==
  ASSUME DownloadInv, [FtpNext]_ftpVars, ftp.settled = "bytes"
  PROVE  ftp'.settled = "bytes" /\ data'.got = data.got
<1>1. ftp.pc = "over" /\ open = {}
  BY DEF DownloadInv
<1>2. ~FtpStart /\ ~Work /\ ~Timeout /\ ~FtpAbort
  BY <1>1 DEF FtpStart, Start, Work, Connect, TakeReply, ChannelFails, Handshake, Dial, Transferred,
              Timeout, FtpAbort, Guard, Awaits, Commands
<1>3. CASE Server
  <2>1. CASE \E c \in Codes, n \in {None, data.whole} :
               (n = None \/ c = 213) /\ Reply([code |-> c, size |-> n])
    BY <2>1 DEF Reply
  <2>2. CASE Flood \/ HangUp
    BY <2>2 DEF Flood, HangUp
  <2>3. CASE Receive \/ DataHandshake \/ DataEnds
    BY <1>1, <2>3 DEF Receive, DataHandshake, DataEnds
  <2>4. CASE DataError
    BY <2>4, DownloadShape DEF DataError
  <2> QED BY <1>3, <2>1, <2>2, <2>3, <2>4 DEF Server
<1>4. CASE UNCHANGED ftpVars
  BY <1>4 DEF ftpVars
<1> QED BY <1>2, <1>3, <1>4 DEF FtpNext

(* A request that fails keeps the invariant.                              *)
LEMMA RequestFailsSafe ==
  ASSUME ReportInv, DownloadInv', RequestFails
  PROVE  ReportInv'
<1>1. jobs' \in Seq(States) /\ UNCHANGED content
  <2>1. Append(jobs, "submitted") \in Seq(States)
    BY ReportShape, AppendProperties DEF States
  <2> QED BY <2>1, ReportShape DEF RequestFails
<1>2. CASE DoneAs("error")
  BY <1>1, <1>2, Stops
<1>3. CASE call.attempt + 1 < MaxAttempts /\ call' = [call EXCEPT !.attempt = @ + 1]
  <2> DEFINE a == call.attempt + 1
  <2>1. a \in 0 .. MaxAttempts /\ call' = [call EXCEPT !.attempt = a]
    <3>1. call.attempt \in 0 .. MaxAttempts
      BY ReportShape DEF Call
    <3>2. MaxAttempts \in Nat
      BY ReportShape
    <3> QED BY <1>3, <3>1, <3>2
  <2> HIDE DEF a
  <2>2. /\ call' \in Call /\ call'.pc = call.pc /\ call'.kept = call.kept /\ call'.answer = call.answer
        /\ call'.pages = call.pages /\ call'.rows = call.rows /\ call'.file = call.file
    BY <2>1, ReportShape DEF Call
  <2>3. Collecting' /\ call.pc # "done"
    BY <1>1, <2>2 DEF RequestFails, ReportInv, Collecting
  <2> QED BY <1>1, <2>2, <2>3, ReportShape, GoesOn
<1> QED BY <1>2, <1>3 DEF RequestFails

(* The wait starts with nothing collected.                                *)
LEMMA WaitSafe ==
  ASSUME ReportInv, DownloadInv', NEW id \in Nat, NEW budget \in {Budget, StatusBudget},
         Wait(id, budget), call.pc \in {"submit", "status"},
         jobs' \in Seq(States), UNCHANGED content
  PROVE  ReportInv'
<1>1. /\ call' \in Call /\ call'.pc = "poll" /\ call'.kept = call.kept /\ call'.answer = call.answer
      /\ call'.pages = call.pages /\ call'.rows = call.rows
  BY ReportShape DEF Call, Wait, Waiting
<1>2. Collecting'
  BY <1>1 DEF ReportInv, Collecting
<1> QED BY <1>1, <1>2, ReportShape, GoesOn

(* So does a submission.                                                  *)
LEMMA SubmissionSafe ==
  ASSUME ReportInv, DownloadInv', Begin \/ Submitted \/ StatusKnown
  PROVE  ReportInv'
<1>1. CASE Begin
  <2>1. PICK file \in BOOLEAN, valid \in BOOLEAN, limit \in Limits : Submit(file, limit, valid)
    BY <1>1 DEF Begin
  <2>2. CASE valid
    <3>1. /\ call' \in Call /\ call'.pc = "submit" /\ call'.kept = call.kept /\ call'.answer = call.answer
          /\ call'.pages = call.pages /\ call'.rows = call.rows /\ call.pc = "idle"
      <4>1. call.pc = "idle" /\ call' = [call EXCEPT !.pc = "submit", !.file = file, !.limit = limit]
        BY <2>1, <2>2 DEF Submit
      <4> QED BY <4>1, ReportShape DEF Call, Waiting
    <3>2. Collecting'
      BY <3>1 DEF ReportInv, Collecting
    <3> QED BY <2>1, <3>1, <3>2, ReportShape, GoesOn DEF Submit
  <2>3. CASE ~valid
    BY <2>1, <2>3, ReportShape, Stops DEF Submit
  <2> QED BY <2>2, <2>3
<1>2. CASE Submitted
  <2>1. jobs' \in Seq(States) /\ Len(jobs') \in Nat /\ UNCHANGED content /\ call.pc = "submit"
    <3>1. Append(jobs, "submitted") \in Seq(States)
      BY ReportShape, AppendProperties DEF States
    <3> QED BY <1>2, <3>1, LenProperties DEF Submitted
  <2> QED BY <1>2, <2>1, WaitSafe, Stops DEF Submitted
<1>3. CASE StatusKnown
  BY <1>3, ReportShape, WaitSafe, Stops DEF StatusKnown, Call
<1> QED BY <1>1, <1>2, <1>3

(* A report that is finished is collected from its beginning.             *)
LEMMA PolledSafe ==
  ASSUME ReportInv, DownloadInv', Polled
  PROVE  ReportInv'
<1>0. UNCHANGED jobs /\ call.pc = "poll" /\ call.pages = 0 /\ call.rows = 0
  BY DEF Polled, ReportInv, Collecting
<1>1. CASE call' = Finished /\ content' \in IF call.file THEN {0} ELSE Rows
  <2>1. /\ call' \in Call /\ call'.pc = IF call.file THEN "fetch" ELSE "page"
        /\ call'.kept = call.kept /\ call'.answer = call.answer
        /\ call'.pages = 0 /\ call'.rows = 0 /\ call'.file = call.file
    BY <1>0, <1>1, ReportShape DEF Call, Finished, Waiting
  <2>2. content' \in Rows \cup {0} /\ content' \in Nat
    BY <1>1, LifecycleAssumption
  <2>3. 0 * PageSize = 0 /\ Least(content', 0) = 0
    BY <2>2, ReportShape DEF Least
  <2>4. Collecting'
    BY <2>1, <2>3 DEF Collecting, Least
  <2> QED BY <1>0, <2>1, <2>2, <2>4, ReportShape, GoesOn
<1>2. CASE \E is \in {"pending", "cancelled", "error"} : DoneAs(is) /\ UNCHANGED content
  BY <1>0, <1>2, ReportShape, Stops
<1>3. CASE call' = Sleeping /\ UNCHANGED content
  <2> DEFINE next == Grown(call.poll)
  <2>1. next \in Nat
    <3>1. call.poll \in Nat /\ LastPoll \in Nat
      BY ReportShape DEF Call
    <3>2. (3 * call.poll + 1) \div 2 \in Nat
      BY <3>1
    <3> QED BY <3>1, <3>2 DEF Grown, Least, Most
  <2> HIDE DEF next
  <2>2. call' = [call EXCEPT !.pc = "sleep", !.nap = call.poll, !.poll = next]
    BY <1>3 DEF Sleeping, next
  <2>3. /\ call' \in Call /\ call'.pc = "sleep"
        /\ call'.kept = call.kept /\ call'.answer = call.answer
        /\ call'.pages = 0 /\ call'.rows = 0
    BY <1>0, <2>1, <2>2, ReportShape DEF Call, Waiting
  <2>4. Collecting'
    BY <2>3 DEF Collecting
  <2> QED BY <1>0, <1>3, <2>3, <2>4, ReportShape, GoesOn
<1> QED BY <1>1, <1>2, <1>3 DEF Polled

(* One more page is all of the report up to its end, and the last one that*)
(* is counted is the end (reports/api.ts).                                *)
LEMMA PageArrivesSafe ==
  ASSUME ReportInv, DownloadInv', PageArrives
  PROVE  ReportInv'
<1> DEFINE page == call.pages + 1
           n == call.rows + Most(0, Least(PageSize, content - call.pages * PageSize))
           last == LastPage(page, Pages(content))
           kept == [is |-> "rows", rows |-> n, total |-> Most(content, n), more |-> ~last]
           answer == ToolAnswer(n, kept.total)
<1>1. /\ UNCHANGED <<jobs, content>> /\ call.pc = "page" /\ ~call.file
      /\ call.rows = Least(content, call.pages * PageSize)
      /\ call.pages \in Nat /\ call.limit \in Nat /\ PageSize \in Nat /\ PageSize >= 1 /\ content \in Nat
  <2>1. UNCHANGED <<jobs, content>> /\ call.pc = "page"
    BY DEF PageArrives
  <2>2. ~call.file /\ call.rows = Least(content, call.pages * PageSize)
    <3>1. Collecting
      BY DEF ReportInv
    <3> QED BY <2>1, <3>1 DEF Collecting
  <2>3. /\ call.pages \in Nat /\ call.limit \in Nat /\ content \in Nat
        /\ PageSize \in Nat /\ PageSize >= 1
    <3>1. call \in Call /\ content \in Nat
      BY ReportShape
    <3>2. call.pages \in Nat /\ call.limit \in Nat
      BY <3>1, ReportShape DEF Call
    <3>3. PageSize \in Nat /\ PageSize >= 1
      BY LifecycleAssumption
    <3> QED BY <3>1, <3>2, <3>3
  <2> QED BY <2>1, <2>2, <2>3
<1>2. n = Least(content, page * PageSize)
  <2> DEFINE w == call.pages * PageSize
  <2>1. w \in Nat /\ page * PageSize = w + PageSize
    BY <1>1
  <2> HIDE DEF w
  <2> QED BY <1>1, <2>1 DEF Least, Most, w
<1>3. n \in Nat /\ n <= content /\ Most(content, n) = content
  <2>1. page * PageSize \in Nat
    BY <1>1
  <2> QED BY <1>1, <1>2, <2>1 DEF Least, Most
<1>4. last => n = content
  <2>1. last => content <= page * PageSize
    BY <1>1, PagesCover DEF LastPage
  <2>2. page * PageSize \in Nat
    BY <1>1
  <2> QED BY <1>1, <1>2, <2>1, <2>2 DEF Least
<1>5. /\ kept \in Answers /\ kept.is = "rows" /\ kept.total = content
      /\ ~kept.more => kept.rows = content
  BY <1>3, <1>4, <1>1 DEF Answers, LastPage
<1>6. /\ answer \in Answers /\ answer.is = "rows"
      /\ ~answer.more => answer.rows = content
  <2>1. Least(n, call.limit) \in Nat /\ Least(n, call.limit) <= n /\ kept.total \in Nat
    BY <1>1, <1>3, <1>5 DEF Least
  <2>2. answer = [is |-> "rows", rows |-> Least(n, call.limit), total |-> content,
                  more |-> Least(n, call.limit) < content]
    BY <1>5 DEF ToolAnswer
  <2>3. (Least(n, call.limit) < content) \in BOOLEAN /\ content \in Nat
    BY <1>1
  <2> HIDE DEF kept, n, answer
  <2>4. answer \in Answers /\ answer.is = "rows"
    BY <2>1, <2>2, <2>3 DEF Answers
  <2>5. answer.rows = Least(n, call.limit) /\ answer.more = (Least(n, call.limit) < content)
    BY <2>2
  <2> DEFINE more == Least(n, call.limit) < content
  <2>7. ~more => Least(n, call.limit) = content
    BY <1>3, <2>1, <2>3
  <2> HIDE DEF more
  <2>6. ~answer.more => answer.rows = content
    BY <2>5, <2>7, Zenon DEF more
  <2> QED BY <2>4, <2>6
<1>7. CASE call' = [call EXCEPT !.pc = "done", !.pages = page, !.kept = kept, !.answer = answer]
  <2> HIDE DEF kept, answer, n, last
  <2>1. page \in Nat
    BY <1>1
  <2> HIDE DEF page
  <2>2. /\ call' \in Call /\ call'.pc = "done" /\ call'.kept = kept /\ call'.answer = answer
        /\ call'.file = call.file
    BY <1>5, <1>6, <1>7, <2>1, ReportShape DEF Call
  <2>3. Answering' /\ Collecting'
    BY <1>1, <1>5, <1>6, <2>2 DEF Answering, Collecting
  <2>4. TypeOK'
    BY <1>1, <2>2 DEF ReportInv, TypeOK, Call, DownloadInv, FtpInv
  <2> QED BY <2>3, <2>4 DEF ReportInv
<1>8. CASE call' = [call EXCEPT !.pages = page, !.rows = n, !.attempt = 0]
  <2>1. page \in Nat
    BY <1>1
  <2> HIDE DEF kept, answer, n, last, page
  <2>2. /\ call' \in Call /\ call'.pc = "page" /\ call'.kept = call.kept /\ call'.answer = call.answer
        /\ call'.file = call.file /\ call'.pages = page /\ call'.rows = n
    BY <1>1, <1>3, <1>8, <2>1, ReportShape DEF Call
  <2>3. Collecting'
    BY <1>1, <1>2, <2>2 DEF Collecting
  <2> QED BY <1>1, <2>2, <2>3, ReportShape, GoesOn
<1>9. PageArrives <=>
        /\ call.pc = "page"
        /\ IF last \/ page >= MaxPages
           THEN call' = [call EXCEPT !.pc = "done", !.pages = page, !.kept = kept, !.answer = answer]
           ELSE call' = [call EXCEPT !.pages = page, !.rows = n, !.attempt = 0]
        /\ UNCHANGED <<jobs, content, ftpVars>>
  BY DEF PageArrives
<1> HIDE DEF kept, answer, n, last, page
<1> QED BY <1>7, <1>8, <1>9

(* The file: an answer that is not cut off has all the bytes that came.   *)
LEMMA FileArrivesSafe ==
  ASSUME ReportInv, DownloadInv', FileArrives
  PROVE  ReportInv'
<1>1. /\ UNCHANGED <<jobs, content, ftp, data>> /\ call.pc = "file" /\ call.file
      /\ call.limit \in Nat /\ data.got \in Nat
  BY ReportShape, DownloadShape DEF FileArrives, ReportInv, Collecting, Call, ftpVars
<1>2. CASE \E is \in {"aborted", "error"} : DoneAs(is)
  BY <1>1, <1>2, ReportShape, Stops
<1> DEFINE n == Least(data.got, call.limit)
           kept == [is |-> "rows", rows |-> n, total |-> data.got, more |-> n < data.got]
           answer == ToolAnswer(n, data.got)
<1>3. CASE ftp.settled = "bytes" /\ call' = [call EXCEPT !.pc = "done", !.answer = answer, !.kept = kept]
  <2>1. n \in Nat /\ n <= data.got /\ n <= call.limit /\ (n < data.got) \in BOOLEAN
    BY <1>1 DEF Least
  <2>2. answer = [is |-> "rows", rows |-> n, total |-> data.got, more |-> n < data.got]
    BY <1>1, <2>1 DEF ToolAnswer, Least
  <2> HIDE DEF n, answer
  <2>3. kept \in Answers /\ kept.is = "rows" /\ answer \in Answers /\ answer.is = "rows"
    BY <1>1, <2>1, <2>2 DEF Answers
  <2>4. ~answer.more => answer.rows = data.got
    <3> DEFINE more == n < data.got
    <3>1. answer.rows = n /\ answer.more = more
      BY <2>2
    <3>2. ~more => n = data.got
      BY <1>1, <2>1
    <3> HIDE DEF more
    <3> QED BY <3>1, <3>2, Zenon
  <2> HIDE DEF kept
  <2>5. /\ call' \in Call /\ call'.pc = "done" /\ call'.kept = kept /\ call'.answer = answer
        /\ call'.file = call.file
    BY <1>3, <2>3, ReportShape DEF Call
  <2>6. Answering' /\ Collecting'
    BY <1>1, <1>3, <2>3, <2>4, <2>5 DEF Answering, Collecting
  <2>7. TypeOK'
    BY <1>1, <2>5 DEF ReportInv, TypeOK, Call, DownloadInv, FtpInv
  <2> QED BY <2>6, <2>7 DEF ReportInv
<1> HIDE DEF kept, answer, n
<1>4. \/ \E is \in {"aborted", "error"} : DoneAs(is)
      \/ ftp.settled = "bytes" /\ call' = [call EXCEPT !.pc = "done", !.answer = answer, !.kept = kept]
  BY DEF FileArrives, kept, answer, n
<1> QED BY <1>2, <1>3, <1>4

(* The other steps of the run.                                            *)
LEMMA RunSafe ==
  ASSUME ReportInv, DownloadInv', Wake \/ FileNamed \/ Resume \/ Abort \/ Tick
  PROVE  ReportInv'
<1>0. jobs' \in Seq(States) /\ content' \in Rows \cup {0} /\ UNCHANGED content
  BY ReportShape DEF Wake, FileNamed, Resume, Abort, Tick
<1>1. CASE Wake
  <2>1. /\ call' \in Call /\ call'.pc = "poll" /\ call'.kept = call.kept /\ call'.answer = call.answer
        /\ call'.pages = call.pages /\ call'.rows = call.rows /\ call.pc = "sleep"
    BY <1>1, ReportShape DEF Wake, Call, Waiting
  <2>2. Collecting'
    BY <2>1 DEF ReportInv, Collecting
  <2> QED BY <1>0, <2>1, <2>2, GoesOn
<1>2. CASE FileNamed
  <2>1. CASE DoneAs("error")
    BY <1>0, <2>1, Stops
  <2>2. CASE call' = [call EXCEPT !.pc = "file"]
    <3>1. /\ call' \in Call /\ call'.pc = "file" /\ call'.kept = call.kept /\ call'.answer = call.answer
          /\ call'.pages = call.pages /\ call'.rows = call.rows /\ call.pc = "fetch" /\ call'.file = call.file
      BY <1>2, <2>2, ReportShape DEF FileNamed, Call, Waiting
    <3>2. Collecting'
      BY <3>1 DEF ReportInv, Collecting
    <3> QED BY <1>0, <3>1, <3>2, GoesOn
  <2> QED BY <1>2, <2>1, <2>2 DEF FileNamed
<1>3. CASE Resume
  <2>1. /\ call' \in Call /\ call'.pc = "status" /\ call'.kept = call.kept /\ call'.answer = NoAnswer
        /\ call'.pages = call.pages /\ call'.rows = call.rows
        /\ call.pc = "done" /\ call.answer.is = "pending"
    BY <1>3, ReportShape DEF Resume, Call, Waiting
  <2>2. Collecting' /\ call.kept.is # "rows"
    BY <2>1 DEF ReportInv, Collecting, Answering
  <2> QED BY <1>0, <2>1, <2>2, GoesOn
<1>4. CASE Abort
  BY <1>0, <1>4, Stops DEF Abort
<1>5. CASE Tick
  <2> DEFINE left == call.left - 1
             nap  == Most(0, call.nap - 1)
  <2>1. left \in Nat /\ nap \in Nat
    <3>1. call.left \in Nat /\ call.nap \in Nat
      BY ReportShape DEF Call
    <3>2. call.left > 0
      BY <1>5 DEF Tick
    <3> QED BY <3>1, <3>2 DEF Most
  <2>2. call' = [call EXCEPT !.left = left, !.nap = nap] /\ call.pc \in {"poll", "sleep"}
    BY <1>5 DEF Tick
  <2> HIDE DEF left, nap
  <2>3. /\ call' \in Call /\ call'.pc = call.pc /\ call'.kept = call.kept /\ call'.answer = call.answer
        /\ call'.pages = call.pages /\ call'.rows = call.rows /\ call'.file = call.file
    BY <2>1, <2>2, ReportShape DEF Call
  <2>4. Collecting'
    BY <2>2, <2>3 DEF ReportInv, Collecting
  <2> QED BY <1>0, <2>2, <2>3, <2>4, GoesOn
<1> QED BY <1>1, <1>2, <1>3, <1>4, <1>5

(* Steps the run has no part in: Newegg's, and the download's, which may  *)
(* outlive the answer.                                                    *)
LEMMA ElsewhereSafe ==
  ASSUME ReportInv, DownloadInv', Progress \/ Downloading \/ UNCHANGED vars, [FtpNext]_ftpVars
  PROVE  ReportInv'
<1>1. UNCHANGED <<content, call>>
  BY DEF Progress, Downloading, vars
<1>2. jobs' \in Seq(States)
  <2>1. CASE Progress
    <3>1. call.id \in DOMAIN jobs /\ \E s \in States : jobs' = [jobs EXCEPT ![call.id] = s]
      BY <2>1 DEF Progress, States
    <3>2. jobs \in Seq(States)
      BY ReportShape
    <3> HIDE DEF States
    <3> QED BY <3>1, <3>2, ExceptSeq
  <2>2. CASE UNCHANGED jobs
    BY <2>2, ReportShape
  <2> QED BY <2>1, <2>2 DEF Downloading, vars
<1>3. call.file /\ call.answer.is = "rows" => ftp'.settled = "bytes" /\ data'.got = data.got
  BY DownloadStays DEF ReportInv, Answering
<1>4. Answering' /\ Collecting'
  BY <1>1, <1>3 DEF ReportInv, Answering, Collecting
<1>5. TypeOK'
  BY <1>1, <1>2 DEF ReportInv, TypeOK, DownloadInv, FtpInv
<1> QED BY <1>4, <1>5 DEF ReportInv

(* So does every step of a report request.                                *)
LEMMA ReportStepSafe ==
  ASSUME ReportInv, [Next]_vars
  PROVE  ReportInv'
<1>1. [FtpNext]_ftpVars
  <2>1. CASE Downloading
    BY <2>1 DEF Downloading, FtpNext
  <2>2. CASE FileNamed
    BY <2>2 DEF FileNamed, FtpNext
  <2>3. CASE ~Downloading /\ ~FileNamed
    <3>1. UNCHANGED ftpVars
      BY <2>3 DEF Next, vars, Begin, Submit, Answered, RequestFails, Submitted, Polled, PageArrives,
                  StatusKnown, Wake, FileArrives, Resume, Abort, Progress, Tick
    <3> QED BY <3>1
  <2> QED BY <2>1, <2>2, <2>3
<1>2. DownloadInv'
  BY <1>1, DownloadStepSafe DEF ReportInv
<1> QED BY <1>1, <1>2, RequestFailsSafe, SubmissionSafe, PolledSafe, PageArrivesSafe, FileArrivesSafe,
           RunSafe, ElsewhereSafe DEF Next, Answered

(* The invariant holds before any request.                                *)
LEMMA ReportStarts == Init => ReportInv
<1> SUFFICES ASSUME Init PROVE ReportInv
  OBVIOUS
<1>1. DownloadInv
  BY DownloadStarts DEF Init
<1>2. /\ call.pc = "idle" /\ call.pages = 0 /\ call.rows = 0 /\ call.kept.is = "none"
      /\ call.answer.is = "none" /\ jobs = <<>> /\ content = 0
  BY DEF Init, NoAnswer
<1>3. NoAnswer \in Answers /\ 0 \in 0 .. MaxAttempts
  BY LifecycleAssumption DEF NoAnswer, Answers
<1>4. call \in Call
  BY <1>3 DEF Init, Call
<1>5. TypeOK
  BY <1>1, <1>2, <1>4 DEF TypeOK, Call, DownloadInv, FtpInv
<1> QED BY <1>1, <1>2, <1>5 DEF ReportInv, Collecting, Answering

(* The types of a run and of its download, for reports of any size, any   *)
(* page size, budget, delay and number of attempts.                       *)
THEOREM ReportTyped == Spec => []TypeOK
<1>1. ReportInv => TypeOK
  BY DEF ReportInv
<1> QED BY <1>1, ReportStarts, ReportStepSafe, PTL DEF Spec

(* For reports and files of any size, whatever fails, is aborted or resumed *)
(* and wherever a connection is cut: an answer that is not marked as cut  *)
(* off is the whole report, and a file whose length was told is whole and *)
(* within the limit (reports/api.ts, ftp.ts:447-526).                     *)
THEOREM ReportIsWhole == Spec => []NothingMissing
<1>1. ReportInv => NothingMissing
  BY DownloadShape DEF ReportInv, Answering, DownloadInv, NothingMissing
<1> QED BY <1>1, ReportStarts, ReportStepSafe, PTL DEF Spec

-----------------------------------------------------------------------------
(* Causes and details (Redaction).                                        *)

Nodes == Objects \cup Leaves

(* A graph of objects as the model draws it.                              *)
GraphOK == graph \in [Objects -> [kind : Kinds, fields : Nodes \X Nodes]]

(* Every graph that is given is one of two-field objects over the same values.*)
LEMMA GraphStays == RedactionSpec => []GraphOK
<1>1. RedactionInit => GraphOK
  BY DEF RedactionInit, GraphOK, Data, Kinds, Nodes, Leaves
<1>2. GraphOK /\ [RedactionNext]_redactionVars => GraphOK'
  <2> SUFFICES ASSUME GraphOK, [RedactionNext]_redactionVars PROVE GraphOK'
    OBVIOUS
  <2>1. CASE UNCHANGED graph
    BY <2>1 DEF GraphOK
  <2>2. CASE TakeCause
    BY <2>2 DEF TakeCause, GraphOK, Nodes
  <2>3. UNCHANGED graph \/ TakeCause
    BY DEF RedactionNext, TakeUrl, TakePiece, redactionVars
  <2> QED BY <2>1, <2>2, <2>3
<1> QED BY <1>1, <1>2, PTL DEF RedactionSpec

(* The fields of an object.                                               *)
LEMMA FieldsAre ==
  ASSUME GraphOK, NEW v \in Objects
  PROVE  /\ graph[v].fields[1] \in Nodes /\ graph[v].fields[2] \in Nodes
         /\ graph[v].kind \in Kinds
BY DEF GraphOK

(* A harmless object holds no secret and no object with one.              *)
LEMMA HarmlessFields ==
  ASSUME GraphOK, NEW v \in Objects, Harmless(v)
  PROVE  \A i \in 1 .. 2 : /\ graph[v].fields[i] # "secret" /\ ~SecretUnderKey(Names[i], graph[v].fields[i])
                           /\ graph[v].fields[i] \in Objects => Harmless(graph[v].fields[i])
<1>1. PICK S \in SUBSET Objects : v \in S /\ \A o \in S : HoldsNoSecret(o, S)
  BY DEF Harmless
<1> SUFFICES ASSUME NEW i \in 1 .. 2
             PROVE  /\ graph[v].fields[i] # "secret" /\ ~SecretUnderKey(Names[i], graph[v].fields[i])
                    /\ graph[v].fields[i] \in Objects => Harmless(graph[v].fields[i])
  OBVIOUS
<1> DEFINE f == graph[v].fields[i]
<1>2. f \in S \cup {"clean", "number"} /\ ~SecretUnderKey(Names[i], f)
  BY <1>1 DEF HoldsNoSecret
<1>3. "secret" \notin Objects /\ "clean" \notin Objects /\ "number" \notin Objects
  BY RedactionAssumption DEF RedactionAssumption, Leaves
<1>4. f # "secret"
  BY <1>2, <1>3
<1>5. f \in Objects => Harmless(f)
  BY <1>1, <1>2, <1>3 DEF Harmless
<1> QED BY <1>2, <1>4, <1>5

(* And an object with fields like that is harmless.                       *)
LEMMA HarmlessWhole ==
  ASSUME GraphOK, NEW v \in Objects,
         \A i \in 1 .. 2 : /\ graph[v].fields[i] # "secret" /\ ~SecretUnderKey(Names[i], graph[v].fields[i])
                           /\ graph[v].fields[i] \in Objects => Harmless(graph[v].fields[i])
  PROVE  Harmless(v)
<1>1. ASSUME NEW i \in 1 .. 2
      PROVE  \E S \in SUBSET Objects : /\ graph[v].fields[i] \in S \cup {"clean", "number"}
                                       /\ \A o \in S : HoldsNoSecret(o, S)
  <2>1. CASE graph[v].fields[i] \in Objects
    BY <2>1 DEF Harmless
  <2>2. CASE graph[v].fields[i] \notin Objects
    <3>1. graph[v].fields[i] \in {"clean", "number"}
      BY <2>2, FieldsAre DEF Nodes, Leaves
    <3>2. {} \in SUBSET Objects /\ \A o \in {} : HoldsNoSecret(o, {})
      OBVIOUS
    <3>3. graph[v].fields[i] \in {} \cup {"clean", "number"}
      BY <3>1
    <3> QED BY <3>2, <3>3
  <2> QED BY <2>1, <2>2
<1>2. PICK A \in SUBSET Objects : graph[v].fields[1] \in A \cup {"clean", "number"} /\ \A o \in A : HoldsNoSecret(o, A)
  BY <1>1
<1>3. PICK B \in SUBSET Objects : graph[v].fields[2] \in B \cup {"clean", "number"} /\ \A o \in B : HoldsNoSecret(o, B)
  BY <1>1
<1> DEFINE S == {v} \cup A \cup B
<1>4. ASSUME NEW o \in S, NEW i \in 1 .. 2
      PROVE  graph[o].fields[i] \in S \cup {"clean", "number"} /\ ~SecretUnderKey(Names[i], graph[o].fields[i])
  BY <1>2, <1>3, <1>4 DEF HoldsNoSecret
<1>5. S \in SUBSET Objects /\ v \in S
  OBVIOUS
<1> HIDE DEF S
<1>6. \A o \in S : HoldsNoSecret(o, S)
  BY <1>4 DEF HoldsNoSecret
<1> QED BY <1>5, <1>6 DEF Harmless

-----------------------------------------------------------------------------
(* A text masks whatever is under the name of a credential, but in a Map. *)
LEMMA TextsMask ==
  ASSUME NEW name \in {"header", "generic", "cookie"}, NEW q \in BOOLEAN, NEW o, graph[o].kind # "map"
  PROVE  MasksEntry(Printed(name, q, o))
BY DEF MasksEntry, Printed

(* What is safe in answers that are one value.                            *)
LEMMA KeptIsSafe ==
  ASSUME RedactionAssumption, NEW v, v # "secret", v \in Objects => Harmless(v), NEW keyed \in BOOLEAN
  PROVE  Safe(Kept(v), keyed)
BY DEF Safe, Kept

(* Any leaf but the secret itself is safe to keep.                        *)
LEMMA LeafIsSafe ==
  ASSUME RedactionAssumption, NEW v \in Leaves \cup Marks, NEW keyed \in BOOLEAN
  PROVE  v # "secret" => Safe(Kept(v), keyed)
<1>1. v \notin Objects
  BY DEF RedactionAssumption
<1> QED BY <1>1, KeptIsSafe

(* Values are told apart in answers.                                      *)
LEMMA KeptAre ==
  ASSUME NEW v, NEW w
  PROVE  /\ Kept(v) = Kept(w) <=> v = w
         /\ <<"kept", w>> \in Kept(v) <=> v = w
<1>1. <<"kept", v>> = <<"kept", w>> => v = w
  OBVIOUS
<1>2. <<"kept", w>> \in Kept(v) <=> <<"kept", w>> = <<"kept", v>>
  BY DEF Kept
<1>3. Kept(v) = Kept(w) => <<"kept", w>> \in Kept(v)
  BY DEF Kept
<1> QED BY <1>1, <1>2, <1>3

(* A copy of safe fields is safe; no leaf is left under a credential name *)
(* when the second of them is none.                                       *)
LEMMA CopyIsSafe ==
  ASSUME NEW v, NEW first, NEW second, NEW keyed \in BOOLEAN,
         Safe(first, keyed), Safe(second, keyed),
         keyed => \A l \in Leaves : second # Kept(l)
  PROVE  /\ Safe(Copy(v, first, second), keyed)
         /\ \A l : Copy(v, first, second) # Kept(l)
         /\ CutOff(first) \/ CutOff(second) => CutOff(Copy(v, first, second))
<1> DEFINE answer == Copy(v, first, second)
           keys == {<<"keyed", l>> : l \in {m \in Leaves : second = Kept(m)}}
<1>1. answer = {<<"copy", v>>} \cup first \cup second \cup keys
  BY DEF Copy
<1>2. keyed => keys = {}
  OBVIOUS
<1>3. \A x : <<"kept", x>> \in answer => <<"kept", x>> \in first \/ <<"kept", x>> \in second
  BY <1>1
<1>4. \A x : <<"text", x>> \in answer => <<"text", x>> \in first \/ <<"text", x>> \in second
  BY <1>1
<1>5. keyed => \A l \in Leaves : <<"keyed", l>> \notin answer
  <2> SUFFICES ASSUME keyed, NEW l \in Leaves PROVE <<"keyed", l>> \notin answer
    OBVIOUS
  <2>1. <<"keyed", l>> \notin first /\ <<"keyed", l>> \notin second
    BY DEF Safe
  <2> QED BY <1>1, <1>2, <2>1
<1>6. Safe(answer, keyed)
  <2> HIDE DEF answer
  <2>1. <<"kept", "secret">> \notin answer
    BY <1>3 DEF Safe
  <2>2. \A o \in Objects : <<"kept", o>> \in answer => Harmless(o)
    BY <1>3 DEF Safe
  <2> QED BY <1>5, <2>1, <2>2, TextsMask DEF Safe
<1>7. \A l : answer # Kept(l)
  <2> SUFFICES ASSUME NEW l, answer = Kept(l) PROVE FALSE
    OBVIOUS
  <2>1. <<"copy", v>> \in Kept(l)
    BY <1>1
  <2> QED BY <2>1 DEF Kept
<1>8. CutOff(first) \/ CutOff(second) => CutOff(answer)
  BY <1>1 DEF CutOff
<1> QED BY <1>6, <1>7, <1>8

(* A text holds neither values nor leaves.                                *)
LEMMA TextIsSafe ==
  ASSUME RedactionAssumption, NEW v, NEW first, NEW second
  PROVE  /\ Safe(Text(v, first, second), TRUE)
         /\ \A l : Text(v, first, second) # Kept(l)
         /\ CutOff(first) \/ CutOff(second) => CutOff(Text(v, first, second))
<1> DEFINE answer == Text(v, first, second)
<1>0. v \in PrintedIn(v)
  BY DEF PrintedIn
<1> HIDE DEF PrintedIn
<1>1. answer = {<<"text", o>> : o \in PrintedIn(v)} \cup (Cuts \cap (first \cup second))
  BY DEF Text
<1>2. \A x : <<"kept", x>> \in answer => x \in {"[Circular]", "[Truncated]"}
  BY <1>1 DEF Cuts, Kept
<1>3. \A x : <<"keyed", x>> \notin answer
  BY <1>1 DEF Cuts, Kept
<1>4. Safe(answer, TRUE)
  <2> HIDE DEF answer
  <2>1. <<"kept", "secret">> \notin answer
    BY <1>2
  <2>2. \A o \in Objects : <<"kept", o>> \notin answer
    BY <1>2 DEF RedactionAssumption, Marks
  <2> QED BY <1>3, <2>1, <2>2, TextsMask DEF Safe
<1>5. \A l : answer # Kept(l)
  <2> SUFFICES ASSUME NEW l, answer = Kept(l) PROVE FALSE
    OBVIOUS
  <2>1. <<"text", v>> \in Kept(l)
    BY <1>0, <1>1
  <2> QED BY <2>1 DEF Kept
<1>6. CutOff(first) \/ CutOff(second) => CutOff(answer)
  BY <1>1 DEF CutOff
<1> QED BY <1>4, <1>5, <1>6

-----------------------------------------------------------------------------
(* What cleanCauseValue answers for a call.                               *)
IsClean(visit, r) ==
  /\ r.nodes \in Nat
  /\ Safe(r.out, TRUE)
  /\ visit.of \in Objects => \A l \in Leaves : r.out # Kept(l)
  /\ visit.of \in Leaves /\ visit.of # "secret" => r.out = Kept(visit.of)
  /\ visit.of \in Objects /\ Harmless(visit.of) => r.out = Kept(visit.of) \/ CutOff(r.out)

Deeper(visit) == {d \in CauseCalls : Cardinality(d.path) = Cardinality(visit.path) + 1}

(* Where an object is taken apart, each field is a call one level deeper, *)
(* whatever number of objects were visited before it.                     *)
Descends(visit) ==
  /\ visit.of \in Objects /\ visit.of \notin visit.path
  /\ ~(Cardinality(visit.path) >= MAX_CAUSE_DEPTH \/ visit.nodes + 1 > MAX_CAUSE_NODES)

(* Such a call is one of those the recursion is defined on.               *)
LEMMA FieldCalls ==
  ASSUME RedactionAssumption, GraphOK, NEW visit \in CauseCalls, Descends(visit), NEW n \in Nat, NEW i \in 1 .. 2
  PROVE  /\ CauseCall(graph[visit.of].fields[i], visit.path \cup {visit.of}, n) \in Deeper(visit)
         /\ Cardinality(visit.path) \in Nat /\ Cardinality(visit.path) < MAX_CAUSE_DEPTH
<1>1. visit.of \in Objects /\ visit.of \notin visit.path /\ visit.path \in SUBSET Objects
  BY DEF Descends, CauseCalls
<1>2. IsFiniteSet(visit.path)
  BY <1>1, FS_Subset DEF RedactionAssumption
<1>3. Cardinality(visit.path \cup {visit.of}) = Cardinality(visit.path) + 1 /\ Cardinality(visit.path) \in Nat
  BY <1>1, <1>2, FS_AddElement, FS_CardinalityType
<1>4. graph[visit.of].fields[i] \in Objects \cup Leaves
  BY <1>1, FieldsAre DEF Nodes
<1>5. CauseCall(graph[visit.of].fields[i], visit.path \cup {visit.of}, n) \in CauseCalls
  BY <1>1, <1>4 DEF CauseCall, CauseCalls
<1>6. CauseCall(graph[visit.of].fields[i], visit.path \cup {visit.of}, n).path = visit.path \cup {visit.of}
  BY DEF CauseCall
<1>7. Cardinality(visit.path) < MAX_CAUSE_DEPTH
  BY <1>3 DEF Descends, RedactionAssumption
<1> QED BY <1>3, <1>5, <1>6, <1>7 DEF Deeper

(* One field.                                                             *)
LEMMA FieldIsClean ==
  ASSUME RedactionAssumption, GraphOK, NEW visit \in CauseCalls, Descends(visit), NEW n \in Nat, NEW i \in 1 .. 2, NEW f,
         \A d \in Deeper(visit) : IsClean(d, f[d]),
         NEW r, r = CleanField(f, visit, i, n), NEW v, v = graph[visit.of].fields[i]
  PROVE  /\ r.nodes \in Nat /\ Safe(r.out, TRUE)
         /\ i = 2 => \A l \in Leaves : r.out # Kept(l)
         /\ (v \in Objects => Harmless(v)) /\ v # "secret" /\ ~SecretUnderKey(Names[i], v) => r.out = Kept(v) \/ CutOff(r.out)
<1> DEFINE d == CauseCall(v, visit.path \cup {visit.of}, n)
<1>1. d \in Deeper(visit) /\ d.of = v
  BY FieldCalls DEF CauseCall
<1>2. v \in Objects \/ v \in Leaves
  BY FieldsAre DEF Descends, Nodes
<1>3. Names[1] = "link" /\ Names[2] = "token"
  BY DEF Names
<1>4. CASE SecretUnderKey(Names[i], v)
  <2>1. r = [out |-> Kept("***"), nodes |-> n]
    BY <1>4 DEF CleanField
  <2>2. Safe(Kept("***"), TRUE)
    BY LeafIsSafe DEF Marks
  <2>3. \A l \in Leaves : Kept("***") # Kept(l)
    BY KeptAre DEF Leaves
  <2>4. r.out = Kept("***") /\ r.nodes = n
    BY <2>1
  <2> QED BY <1>4, <2>2, <2>3, <2>4
<1>5. CASE ~SecretUnderKey(Names[i], v)
  <2>1. r = f[d]
    BY <1>5 DEF CleanField
  <2>2. IsClean(d, r)
    BY <1>1, <2>1
  <2>3. i = 2 => v \in Objects
    BY <1>2, <1>3, <1>5 DEF SecretUnderKey
  <2>4. d.of = v
    BY <1>1
  <2>5. /\ r.nodes \in Nat /\ Safe(r.out, TRUE)
        /\ v \in Objects => \A l \in Leaves : r.out # Kept(l)
        /\ v \in Leaves /\ v # "secret" => r.out = Kept(v)
        /\ v \in Objects /\ Harmless(v) => r.out = Kept(v) \/ CutOff(r.out)
    BY <2>2, <2>4 DEF IsClean
  <2>6. i = 2 => \A l \in Leaves : r.out # Kept(l)
    BY <2>3, <2>5
  <2>7. (v \in Objects => Harmless(v)) /\ v # "secret" => r.out = Kept(v) \/ CutOff(r.out)
    BY <1>2, <2>5
  <2> QED BY <1>5, <2>5, <2>6, <2>7
<1> QED BY <1>4, <1>5

(* A call answers what it should when the calls one level deeper do.      *)
LEMMA StepIsClean ==
  ASSUME RedactionAssumption, GraphOK, NEW visit \in CauseCalls, NEW f,
         Cardinality(visit.path) < MAX_CAUSE_DEPTH => \A d \in Deeper(visit) : IsClean(d, f[d]),
         NEW s, s = CleanStep(f, visit)
  PROVE  IsClean(visit, s)
<1> DEFINE v == visit.of
<1>1. v \in Objects \cup Leaves /\ visit.nodes \in Nat
  BY DEF CauseCalls
<1>2. CASE v \in Leaves
  <2>1. s = [out |-> Redacted(v), nodes |-> visit.nodes]
    BY <1>2 DEF CleanStep
  <2>2. v \notin Objects
    BY <1>2 DEF RedactionAssumption
  <2>3. Safe(Redacted(v), TRUE)
    BY <1>2, LeafIsSafe DEF Redacted, Marks, Leaves
  <2>4. v # "secret" => Redacted(v) = Kept(v)
    BY DEF Redacted
  <2>5. s.out = Redacted(v) /\ s.nodes = visit.nodes
    BY <2>1
  <2> QED BY <1>1, <2>2, <2>3, <2>4, <2>5 DEF IsClean
<1>3. ASSUME v \notin Leaves, NEW mark \in {"[Circular]", "[Truncated]"}, NEW n \in Nat, s = [out |-> Kept(mark), nodes |-> n]
      PROVE  IsClean(visit, s)
  <2>1. Safe(Kept(mark), TRUE)
    BY LeafIsSafe DEF Marks
  <2>2. \A l \in Leaves : Kept(mark) # Kept(l)
    BY KeptAre DEF Leaves
  <2>3. CutOff(Kept(mark))
    BY DEF CutOff, Cuts, Kept
  <2>4. s.out = Kept(mark) /\ s.nodes = n
    BY <1>3
  <2> QED BY <1>3, <2>1, <2>2, <2>3, <2>4 DEF IsClean
<1>4. CASE v \notin Leaves /\ ~Descends(visit)
  <2>1. v \in visit.path => s = [out |-> Kept("[Circular]"), nodes |-> visit.nodes]
    BY <1>4 DEF CleanStep
  <2>2. v \notin visit.path => s = [out |-> Kept("[Truncated]"), nodes |-> visit.nodes + 1]
    BY <1>1, <1>4 DEF CleanStep, Descends
  <2> QED BY <1>1, <1>3, <1>4, <2>1, <2>2
<1>5. CASE v \notin Leaves /\ Descends(visit)
  <2> DEFINE first  == CleanField(f, visit, 1, visit.nodes + 1)
             second == CleanField(f, visit, 2, first.nodes)
             a == graph[v].fields[1]
             b == graph[v].fields[2]
             out == Rebuilt(v, first.out, second.out)
  <2>1. s = [out |-> out, nodes |-> second.nodes]
    BY <1>5 DEF CleanStep, Descends, CleanObject
  <2>2. v \in Objects /\ a \in Nodes /\ b \in Nodes
    BY <1>5, FieldsAre DEF Descends
  <2>3. \A d \in Deeper(visit) : IsClean(d, f[d])
    <3>1. Descends(visit) /\ 0 \in Nat /\ 1 \in 1 .. 2
      BY <1>5
    <3>2. /\ CauseCall(graph[visit.of].fields[1], visit.path \cup {visit.of}, 0) \in Deeper(visit)
          /\ Cardinality(visit.path) < MAX_CAUSE_DEPTH
      BY <3>1, FieldCalls
    <3> QED BY <3>2
  <2>4. Names[1] = "link" /\ Names[2] = "token"
    BY DEF Names
  <2>5. /\ first.nodes \in Nat /\ Safe(first.out, TRUE)
        /\ (a \in Objects => Harmless(a)) /\ a # "secret" => first.out = Kept(a) \/ CutOff(first.out)
    <3>1. visit.nodes + 1 \in Nat /\ ~SecretUnderKey(Names[1], a) /\ Descends(visit)
      BY <1>1, <1>5, <2>4 DEF SecretUnderKey
    <3>2. first = CleanField(f, visit, 1, visit.nodes + 1) /\ a = graph[visit.of].fields[1] /\ 1 \in 1 .. 2
      OBVIOUS
    <3> HIDE DEF first, a
    <3> QED BY <2>3, <3>1, <3>2, FieldIsClean
  <2>6. /\ second.nodes \in Nat /\ Safe(second.out, TRUE)
        /\ \A l \in Leaves : second.out # Kept(l)
        /\ (b \in Objects => Harmless(b)) /\ b # "secret" /\ ~SecretUnderKey("token", b) => second.out = Kept(b) \/ CutOff(second.out)
    <3>1. first.nodes \in Nat /\ Descends(visit)
      BY <1>5, <2>5
    <3> HIDE DEF first
    <3>2. second = CleanField(f, visit, 2, first.nodes) /\ b = graph[visit.of].fields[2] /\ 2 \in 1 .. 2
      OBVIOUS
    <3> HIDE DEF second, b
    <3> QED BY <2>3, <2>4, <3>1, <3>2, FieldIsClean
  <2> HIDE DEF first, second
  <2>7. CASE first.out = Kept(a) /\ second.out = Kept(b)
    <3>1. out = Kept(v)
      BY <2>7 DEF Rebuilt
    <3>2. /\ a # "secret" /\ (a \in Objects => Harmless(a))
          /\ b # "secret" /\ (b \in Objects => Harmless(b))
      <4>1. <<"kept", a>> \in first.out /\ <<"kept", b>> \in second.out
        BY <2>7 DEF Kept
      <4> QED BY <2>5, <2>6, <4>1 DEF Safe
    <3>3. b \notin Leaves
      BY <2>6, <2>7
    <3>4. Harmless(v)
      <4>1. ~SecretUnderKey(Names[1], a) /\ ~SecretUnderKey(Names[2], b)
        BY <2>4, <3>3 DEF SecretUnderKey
      <4>2. \A i \in 1 .. 2 : i = 1 \/ i = 2
        OBVIOUS
      <4> QED BY <2>2, <3>2, <4>1, <4>2, HarmlessWhole
    <3>5. v # "secret"
      BY <1>5 DEF Leaves
    <3>6. Safe(out, TRUE)
      BY <3>1, <3>4, <3>5, KeptIsSafe
    <3>7. \A l \in Leaves : out # Kept(l)
      BY <1>5, <3>1, KeptAre
    <3>8. s.out = out /\ s.nodes = second.nodes
      BY <2>1
    <3> HIDE DEF out
    <3> QED BY <1>5, <2>6, <3>1, <3>6, <3>7, <3>8 DEF IsClean
  <2>8. CASE ~(first.out = Kept(a) /\ second.out = Kept(b))
    <3>1. out = Text(v, first.out, second.out) \/ out = Copy(v, first.out, second.out)
      BY <2>8 DEF Rebuilt
    <3>2. /\ Safe(out, TRUE) /\ \A l \in Leaves : out # Kept(l)
          /\ CutOff(first.out) \/ CutOff(second.out) => CutOff(out)
      BY <2>5, <2>6, <3>1, TextIsSafe, CopyIsSafe
    <3>3. Harmless(v) => CutOff(out)
      <4>1. Harmless(v) => /\ a # "secret" /\ (a \in Objects => Harmless(a))
                           /\ b # "secret" /\ (b \in Objects => Harmless(b)) /\ ~SecretUnderKey("token", b)
        BY <2>2, <2>4, HarmlessFields
      <4> QED BY <2>5, <2>6, <2>8, <3>2, <4>1
    <3>4. s.out = out /\ s.nodes = second.nodes
      BY <2>1
    <3> HIDE DEF out
    <3> QED BY <1>5, <2>6, <3>2, <3>3, <3>4 DEF IsClean
  <2> QED BY <2>7, <2>8
<1> QED BY <1>2, <1>4, <1>5

-----------------------------------------------------------------------------
(* The calls that are at most k levels above the last one.                *)
Within(k) == {visit \in CauseCalls : Cardinality(visit.path) + k >= MAX_CAUSE_DEPTH}

(* One level down, one level less is left.                                *)
LEMMA WithinDeeper ==
  ASSUME RedactionAssumption
  PROVE  /\ Within(MAX_CAUSE_DEPTH) = CauseCalls
         /\ \A visit \in Within(0) : ~(Cardinality(visit.path) < MAX_CAUSE_DEPTH)
         /\ \A k \in Nat : \A visit \in Within(k + 1) : visit \in CauseCalls /\ Deeper(visit) \subseteq Within(k)
<1>1. \A visit \in CauseCalls : Cardinality(visit.path) \in Nat
  <2> SUFFICES ASSUME NEW visit \in CauseCalls PROVE Cardinality(visit.path) \in Nat
    OBVIOUS
  <2>1. visit.path \in SUBSET Objects
    BY DEF CauseCalls
  <2> QED BY <2>1, FS_Subset, FS_CardinalityType DEF RedactionAssumption
<1>2. MAX_CAUSE_DEPTH \in Nat
  BY DEF RedactionAssumption
<1>3. Within(MAX_CAUSE_DEPTH) = CauseCalls
  BY <1>1, <1>2 DEF Within
<1>4. \A visit \in Within(0) : ~(Cardinality(visit.path) < MAX_CAUSE_DEPTH)
  BY <1>1, <1>2 DEF Within
<1>5. \A k \in Nat : \A visit \in Within(k + 1) : visit \in CauseCalls /\ Deeper(visit) \subseteq Within(k)
  BY <1>1, <1>2 DEF Within, Deeper
<1> QED BY <1>3, <1>4, <1>5

(* One step depends on the calls one level deeper and on nothing else.    *)
LEMMA StepsAgree ==
  ASSUME RedactionAssumption, GraphOK, NEW visit \in CauseCalls, NEW f, NEW g,
         Cardinality(visit.path) < MAX_CAUSE_DEPTH => \A d \in Deeper(visit) : f[d] = g[d] /\ f[d].nodes \in Nat
  PROVE  CleanStep(f, visit) = CleanStep(g, visit)
<1> DEFINE v == visit.of
<1>1. v \in Objects \cup Leaves /\ visit.nodes \in Nat
  BY DEF CauseCalls
<1>2. CASE v \in Leaves \/ ~Descends(visit)
  BY <1>1, <1>2 DEF CleanStep, Descends
<1>3. CASE v \notin Leaves /\ Descends(visit)
  <2>1. ASSUME NEW n \in Nat, NEW i \in 1 .. 2
        PROVE  CleanField(f, visit, i, n) = CleanField(g, visit, i, n) /\ CleanField(f, visit, i, n).nodes \in Nat
    <3> DEFINE d == CauseCall(graph[v].fields[i], visit.path \cup {v}, n)
    <3>1. d \in Deeper(visit) /\ Cardinality(visit.path) < MAX_CAUSE_DEPTH
      BY <1>3, FieldCalls
    <3>2. f[d] = g[d] /\ f[d].nodes \in Nat
      BY <3>1
    <3> HIDE DEF d
    <3>3. ASSUME NEW h PROVE CleanField(h, visit, i, n) = IF SecretUnderKey(Names[i], graph[v].fields[i]) THEN [out |-> Kept("***"), nodes |-> n] ELSE h[d]
      BY DEF CleanField, d
    <3> QED BY <3>2, <3>3
  <2> DEFINE first == CleanField(f, visit, 1, visit.nodes + 1)
  <2>2. first = CleanField(g, visit, 1, visit.nodes + 1) /\ first.nodes \in Nat
    BY <1>1, <2>1
  <2>3. CleanField(f, visit, 2, first.nodes) = CleanField(g, visit, 2, first.nodes)
    BY <2>1, <2>2
  <2>4. CleanObject(f, visit) = CleanObject(g, visit)
    BY <2>2, <2>3 DEF CleanObject
  <2> QED BY <1>3, <2>4 DEF CleanStep, Descends
<1> QED BY <1>2, <1>3

(* The recursion of cleanCauseValue has a solution.                       *)
LEMMA CleanExists ==
  ASSUME RedactionAssumption, GraphOK
  PROVE  \E f : f = [visit \in CauseCalls |-> CleanStep(f, visit)]
<1> DEFINE Solves(f, k) == \A visit \in Within(k) : f[visit] = CleanStep(f, visit) /\ IsClean(visit, f[visit])
           Bad == {k \in Nat : ~ \E f : Solves(f, k)}
<1>1. 0 \notin Bad
  <2> DEFINE f == [visit \in CauseCalls |-> CleanStep(<<>>, visit)]
  <2>1. ASSUME NEW visit \in Within(0) PROVE f[visit] = CleanStep(f, visit) /\ IsClean(visit, f[visit])
    <3>1. visit \in CauseCalls /\ ~(Cardinality(visit.path) < MAX_CAUSE_DEPTH)
      BY WithinDeeper DEF Within
    <3>2. f[visit] = CleanStep(<<>>, visit)
      BY <3>1
    <3> HIDE DEF f
    <3>3. CleanStep(<<>>, visit) = CleanStep(f, visit)
      BY <3>1, StepsAgree
    <3> QED BY <3>1, <3>2, <3>3, StepIsClean
  <2> HIDE DEF f
  <2>2. Solves(f, 0)
    BY <2>1
  <2> QED BY <2>2
<1>2. ASSUME NEW k \in Nat, k \notin Bad PROVE k + 1 \notin Bad
  <2>1. PICK f : Solves(f, k)
    BY <1>2
  <2> DEFINE g == [visit \in CauseCalls |-> CleanStep(f, visit)]
  <2>2. \A visit \in CauseCalls : g[visit] = CleanStep(f, visit)
    OBVIOUS
  <2> HIDE DEF g
  <2>3. \A visit \in Within(k) : g[visit] = f[visit] /\ IsClean(visit, f[visit])
    BY <2>1, <2>2 DEF Within
  <2>4. ASSUME NEW visit \in Within(k + 1) PROVE g[visit] = CleanStep(g, visit) /\ IsClean(visit, g[visit])
    <3>1. visit \in CauseCalls /\ \A d \in Deeper(visit) : d \in Within(k)
      BY WithinDeeper
    <3>2. \A d \in Deeper(visit) : f[d] = g[d] /\ f[d].nodes \in Nat /\ IsClean(d, f[d])
      BY <2>3, <3>1 DEF IsClean
    <3>3. CleanStep(f, visit) = CleanStep(g, visit)
      BY <3>1, <3>2, StepsAgree
    <3>4. IsClean(visit, CleanStep(f, visit))
      BY <3>1, <3>2, StepIsClean
    <3> QED BY <2>2, <3>1, <3>3, <3>4
  <2>5. Solves(g, k + 1)
    BY <2>4
  <2> HIDE DEF Solves
  <2> QED BY <2>5
<1>3. Bad = {}
  <2>1. Bad \in SUBSET Nat
    OBVIOUS
  <2> HIDE DEF Bad
  <2> QED BY <1>1, <1>2, <2>1, NoCounterexample
<1>4. MAX_CAUSE_DEPTH \in Nat /\ MAX_CAUSE_DEPTH \notin Bad
  BY <1>3 DEF RedactionAssumption
<1>5. PICK f : Solves(f, MAX_CAUSE_DEPTH)
  BY <1>4
<1> DEFINE g == [visit \in CauseCalls |-> CleanStep(f, visit)]
<1>6. \A visit \in CauseCalls : f[visit] = CleanStep(f, visit) /\ IsClean(visit, f[visit])
  BY <1>5, WithinDeeper
<1>7. \A visit \in CauseCalls : g[visit] = f[visit]
  BY <1>6
<1>8. \A visit \in CauseCalls : CleanStep(f, visit) = CleanStep(g, visit)
  <2> HIDE DEF g
  <2> SUFFICES ASSUME NEW visit \in CauseCalls PROVE CleanStep(f, visit) = CleanStep(g, visit)
    OBVIOUS
  <2>1. \A d \in Deeper(visit) : f[d] = g[d] /\ f[d].nodes \in Nat
    BY <1>6, <1>7 DEF Deeper, IsClean
  <2> QED BY <2>1, StepsAgree
<1>9. g = [visit \in CauseCalls |-> CleanStep(g, visit)]
  <2> DEFINE h == [visit \in CauseCalls |-> CleanStep(g, visit)]
  <2>1. \A visit \in CauseCalls : g[visit] = h[visit]
    BY <1>8
  <2> QED BY <1>8
<1> QED BY <1>9

(* Whatever solves it answers what it should.                             *)
LEMMA SolutionIsClean ==
  ASSUME RedactionAssumption, GraphOK, NEW f, f = [visit \in CauseCalls |-> CleanStep(f, visit)], NEW visit \in CauseCalls
  PROVE  IsClean(visit, f[visit])
<1> DEFINE Bad == {k \in Nat : ~ \A c \in Within(k) : IsClean(c, f[c])}
<1>0. \A c \in CauseCalls : f[c] = CleanStep(f, c)
  OBVIOUS
<1>1. 0 \notin Bad
  <2>1. ASSUME NEW c \in Within(0) PROVE IsClean(c, f[c])
    <3>1. c \in CauseCalls /\ ~(Cardinality(c.path) < MAX_CAUSE_DEPTH)
      BY WithinDeeper DEF Within
    <3> QED BY <1>0, <3>1, StepIsClean
  <2> QED BY <2>1
<1>2. ASSUME NEW k \in Nat, k \notin Bad PROVE k + 1 \notin Bad
  <2>1. \A c \in Within(k) : IsClean(c, f[c])
    BY <1>2
  <2>2. ASSUME NEW c \in Within(k + 1) PROVE IsClean(c, f[c])
    <3>1. c \in CauseCalls /\ \A d \in Deeper(c) : IsClean(d, f[d])
      BY <2>1, WithinDeeper
    <3> QED BY <1>0, <3>1, StepIsClean
  <2> QED BY <2>2
<1>3. Bad = {}
  <2>1. Bad \in SUBSET Nat
    OBVIOUS
  <2> HIDE DEF Bad
  <2> QED BY <1>1, <1>2, <2>1, NoCounterexample
<1>4. MAX_CAUSE_DEPTH \in Nat /\ MAX_CAUSE_DEPTH \notin Bad
  BY <1>3 DEF RedactionAssumption
<1> QED BY <1>4, WithinDeeper

(* sanitizeCause: safe; of an object never just a leaf; and the very object *)
(* when it is harmless and nothing was cut off.                           *)
LEMMA CauseIsClean ==
  ASSUME RedactionAssumption, GraphOK, NEW v \in Objects
  PROVE  /\ Safe(SanitizeCause(v), TRUE)
         /\ \A l \in Leaves : SanitizeCause(v) # Kept(l)
         /\ Harmless(v) => SanitizeCause(v) = Kept(v) \/ CutOff(SanitizeCause(v))
<1> DEFINE F == CHOOSE f : f = [visit \in CauseCalls |-> CleanStep(f, visit)]
           c == CauseCall(v, {}, 0)
<1>1. SanitizeCause(v) = F[c].out
  BY DEF SanitizeCause
<1>2. F = [visit \in CauseCalls |-> CleanStep(F, visit)]
  BY CleanExists
<1>3. c \in CauseCalls /\ c.of = v
  BY DEF CauseCall, CauseCalls
<1> HIDE DEF F, c
<1>4. IsClean(c, F[c])
  BY <1>2, <1>3, SolutionIsClean
<1> QED BY <1>1, <1>3, <1>4 DEF IsClean

-----------------------------------------------------------------------------
(* Payloads and details: sanitize.                                        *)

(* Where no key is masked, only data is looked at.                        *)
OnlyData == \A o \in Objects : graph[o].kind = "plain"

IsCopied(visit, a, raw) ==
  (raw => OnlyData) =>
    /\ Safe(a, ~raw)
    /\ ~raw /\ visit.of \in Objects => \A l \in Leaves : a # Kept(l)

DataDeeper(visit) == {d \in DataCalls : Cardinality(d.seen) = Cardinality(visit.seen) + 1}

Copies(visit) ==
  /\ visit.of \in Objects /\ graph[visit.of].kind = "plain"
  /\ ~(visit.of \in visit.seen \/ Cardinality(visit.seen) >= MAX_DEPTH)

(* The calls on the fields of an object that is copied, one level deeper. *)
LEMMA DataFieldCalls ==
  ASSUME RedactionAssumption, GraphOK, NEW visit \in DataCalls, Copies(visit), NEW i \in 1 .. 2
  PROVE  /\ DataCall(graph[visit.of].fields[i], visit.seen \cup {visit.of}) \in DataDeeper(visit)
         /\ Cardinality(visit.seen) \in Nat /\ Cardinality(visit.seen) < MAX_DEPTH
<1>1. visit.of \in Objects /\ visit.of \notin visit.seen /\ visit.seen \in SUBSET Objects
  BY DEF Copies, DataCalls
<1>2. IsFiniteSet(visit.seen)
  BY <1>1, FS_Subset DEF RedactionAssumption
<1>3. Cardinality(visit.seen \cup {visit.of}) = Cardinality(visit.seen) + 1 /\ Cardinality(visit.seen) \in Nat
  BY <1>1, <1>2, FS_AddElement, FS_CardinalityType
<1>4. graph[visit.of].fields[i] \in Objects \cup Leaves
  BY <1>1, FieldsAre DEF Nodes
<1>5. DataCall(graph[visit.of].fields[i], visit.seen \cup {visit.of}) \in DataCalls
  BY <1>1, <1>4 DEF DataCall, DataCalls
<1>6. DataCall(graph[visit.of].fields[i], visit.seen \cup {visit.of}).seen = visit.seen \cup {visit.of}
  BY DEF DataCall
<1>7. Cardinality(visit.seen) < MAX_DEPTH
  BY <1>3 DEF Copies, RedactionAssumption
<1> QED BY <1>3, <1>5, <1>6, <1>7 DEF DataDeeper

(* One field of what is copied.                                           *)
LEMMA CopyFieldIs ==
  ASSUME RedactionAssumption, GraphOK, NEW visit \in DataCalls, Copies(visit), NEW i \in 1 .. 2, NEW f, NEW raw \in BOOLEAN,
         \A d \in DataDeeper(visit) : IsCopied(d, f[d], raw), raw => OnlyData,
         NEW a, a = CopyField(f, visit, i, raw)
  PROVE  Safe(a, ~raw) /\ (~raw /\ i = 2 => \A l \in Leaves : a # Kept(l))
<1> DEFINE v == graph[visit.of].fields[i]
           d == DataCall(v, visit.seen \cup {visit.of})
<1>1. d \in DataDeeper(visit) /\ d.of = v
  BY DataFieldCalls DEF DataCall
<1>2. v \in Objects \/ v \in Leaves
  BY FieldsAre DEF Copies, Nodes
<1>3. Names[1] = "link" /\ Names[2] = "token"
  BY DEF Names
<1>4. CASE ~raw /\ SecretUnderKey(Names[i], v)
  <2>1. a = Kept("***")
    BY <1>4 DEF CopyField
  <2>2. Safe(Kept("***"), ~raw)
    BY LeafIsSafe DEF Marks
  <2>3. \A l \in Leaves : Kept("***") # Kept(l)
    BY KeptAre DEF Leaves
  <2> QED BY <2>1, <2>2, <2>3
<1>5. CASE ~(~raw /\ SecretUnderKey(Names[i], v))
  <2>1. a = f[d]
    BY <1>5 DEF CopyField
  <2>2. IsCopied(d, a, raw)
    BY <1>1, <2>1
  <2>3. ~raw /\ i = 2 => v \in Objects
    BY <1>2, <1>3, <1>5 DEF SecretUnderKey
  <2>4. d.of = v
    BY <1>1
  <2> HIDE DEF d, v
  <2> QED BY <2>2, <2>3, <2>4 DEF IsCopied
<1> QED BY <1>4, <1>5

(* One step of sanitize on clean answers for the fields has a clean answer.  *)
LEMMA StepIsCopied ==
  ASSUME RedactionAssumption, GraphOK, NEW visit \in DataCalls, NEW f, NEW raw \in BOOLEAN,
         Cardinality(visit.seen) < MAX_DEPTH => \A d \in DataDeeper(visit) : IsCopied(d, f[d], raw),
         NEW a, a = SanitizeStep(f, visit, raw)
  PROVE  IsCopied(visit, a, raw)
<1> SUFFICES ASSUME raw => OnlyData
             PROVE  Safe(a, ~raw) /\ (~raw /\ visit.of \in Objects => \A l \in Leaves : a # Kept(l))
  BY DEF IsCopied
<1> DEFINE v == visit.of
<1>1. v \in Objects \cup Leaves
  BY DEF DataCalls
<1>2. CASE v \in Leaves
  <2>1. a = Redacted(v) /\ v \notin Objects
    BY <1>2 DEF SanitizeStep, RedactionAssumption
  <2>2. Safe(Redacted(v), ~raw)
    BY <1>2, LeafIsSafe DEF Redacted, Marks, Leaves
  <2> QED BY <2>1, <2>2
<1>3. CASE v \notin Leaves /\ graph[v].kind # "plain"
  <2>1. ~raw /\ v \in Objects
    BY <1>1, <1>3 DEF OnlyData
  <2>2. a = SanitizeCause(v)
    BY <1>3, <2>1 DEF SanitizeStep
  <2> QED BY <2>1, <2>2, CauseIsClean
<1>4. CASE v \notin Leaves /\ graph[v].kind = "plain" /\ ~Copies(visit)
  <2>1. a = Kept("[Circular]")
    BY <1>1, <1>4 DEF SanitizeStep, Copies
  <2>2. Safe(Kept("[Circular]"), ~raw)
    BY LeafIsSafe DEF Marks
  <2>3. \A l \in Leaves : Kept("[Circular]") # Kept(l)
    BY KeptAre DEF Leaves
  <2> QED BY <2>1, <2>2, <2>3
<1>5. CASE v \notin Leaves /\ Copies(visit)
  <2> DEFINE first == CopyField(f, visit, 1, raw)
             second == CopyField(f, visit, 2, raw)
  <2>1. a = Copy(v, first, second)
    BY <1>5 DEF SanitizeStep, Copies
  <2>2. 1 \in 1 .. 2 /\ 2 \in 1 .. 2 /\ Copies(visit)
    BY <1>5
  <2>3. \A d \in DataDeeper(visit) : IsCopied(d, f[d], raw)
    <3>1. Cardinality(visit.seen) < MAX_DEPTH
      BY <2>2, DataFieldCalls
    <3> QED BY <3>1
  <2>4. Safe(first, ~raw)
    BY <2>2, <2>3, CopyFieldIs
  <2>5. Safe(second, ~raw) /\ (~raw => \A l \in Leaves : second # Kept(l))
    BY <2>2, <2>3, CopyFieldIs
  <2> HIDE DEF first, second
  <2>6. Safe(Copy(v, first, second), ~raw) /\ \A l : Copy(v, first, second) # Kept(l)
    BY <2>4, <2>5, CopyIsSafe
  <2> QED BY <2>1, <2>6
<1> QED BY <1>2, <1>3, <1>4, <1>5

(* The recursion of sanitize, by the same induction on the depth.         *)
DataWithin(k) == {visit \in DataCalls : Cardinality(visit.seen) + k >= MAX_DEPTH}

(* One level down, one level less is left.                                *)
LEMMA DataWithinLower ==
  ASSUME RedactionAssumption
  PROVE  /\ DataWithin(MAX_DEPTH) = DataCalls
         /\ \A visit \in DataWithin(0) : ~(Cardinality(visit.seen) < MAX_DEPTH)
         /\ \A k \in Nat : \A visit \in DataWithin(k + 1) : visit \in DataCalls /\ DataDeeper(visit) \subseteq DataWithin(k)
<1>1. \A visit \in DataCalls : Cardinality(visit.seen) \in Nat
  <2> SUFFICES ASSUME NEW visit \in DataCalls PROVE Cardinality(visit.seen) \in Nat
    OBVIOUS
  <2>1. visit.seen \in SUBSET Objects
    BY DEF DataCalls
  <2> QED BY <2>1, FS_Subset, FS_CardinalityType DEF RedactionAssumption
<1>2. MAX_DEPTH \in Nat
  BY DEF RedactionAssumption
<1>3. DataWithin(MAX_DEPTH) = DataCalls
  BY <1>1, <1>2 DEF DataWithin
<1>4. \A visit \in DataWithin(0) : ~(Cardinality(visit.seen) < MAX_DEPTH)
  BY <1>1, <1>2 DEF DataWithin
<1>5. \A k \in Nat : \A visit \in DataWithin(k + 1) : visit \in DataCalls /\ DataDeeper(visit) \subseteq DataWithin(k)
  BY <1>1, <1>2 DEF DataWithin, DataDeeper
<1> QED BY <1>3, <1>4, <1>5

(* A step of sanitize looks at the answers for the fields and at no others.  *)
LEMMA DataStepsAgree ==
  ASSUME RedactionAssumption, GraphOK, NEW visit \in DataCalls, NEW f, NEW g, NEW raw \in BOOLEAN,
         Cardinality(visit.seen) < MAX_DEPTH => \A d \in DataDeeper(visit) : f[d] = g[d]
  PROVE  SanitizeStep(f, visit, raw) = SanitizeStep(g, visit, raw)
<1> DEFINE v == visit.of
<1>1. v \in Objects \cup Leaves
  BY DEF DataCalls
<1>2. CASE v \in Leaves \/ ~Copies(visit)
  BY <1>1, <1>2 DEF SanitizeStep, Copies
<1>3. CASE v \notin Leaves /\ Copies(visit)
  <2>1. ASSUME NEW i \in 1 .. 2 PROVE CopyField(f, visit, i, raw) = CopyField(g, visit, i, raw)
    <3> DEFINE d == DataCall(graph[v].fields[i], visit.seen \cup {v})
    <3>1. d \in DataDeeper(visit) /\ Cardinality(visit.seen) < MAX_DEPTH
      BY <1>3, DataFieldCalls
    <3>2. f[d] = g[d]
      BY <3>1
    <3> HIDE DEF d
    <3>3. ASSUME NEW h PROVE CopyField(h, visit, i, raw) = IF ~raw /\ SecretUnderKey(Names[i], graph[v].fields[i]) THEN Kept("***") ELSE h[d]
      BY DEF CopyField, d
    <3> QED BY <3>2, <3>3
  <2> QED BY <1>3, <2>1 DEF SanitizeStep, Copies
<1> QED BY <1>2, <1>3

(* So there is a function that answers every call: one step at a time, from  *)
(* the deepest calls up.                                                  *)
LEMMA SanitizeExists ==
  ASSUME RedactionAssumption, GraphOK, NEW raw \in BOOLEAN
  PROVE  \E f : f = [visit \in DataCalls |-> SanitizeStep(f, visit, raw)]
<1> DEFINE Solves(f, k) == \A visit \in DataWithin(k) : f[visit] = SanitizeStep(f, visit, raw)
           Bad == {k \in Nat : ~ \E f : Solves(f, k)}
<1>1. 0 \notin Bad
  <2> DEFINE f == [visit \in DataCalls |-> SanitizeStep(<<>>, visit, raw)]
  <2>1. ASSUME NEW visit \in DataWithin(0) PROVE f[visit] = SanitizeStep(f, visit, raw)
    <3>1. visit \in DataCalls /\ ~(Cardinality(visit.seen) < MAX_DEPTH)
      BY DataWithinLower DEF DataWithin
    <3>2. f[visit] = SanitizeStep(<<>>, visit, raw)
      BY <3>1
    <3> HIDE DEF f
    <3>3. SanitizeStep(<<>>, visit, raw) = SanitizeStep(f, visit, raw)
      BY <3>1, DataStepsAgree
    <3> QED BY <3>2, <3>3
  <2> HIDE DEF f
  <2>2. Solves(f, 0)
    BY <2>1
  <2> QED BY <2>2
<1>2. ASSUME NEW k \in Nat, k \notin Bad PROVE k + 1 \notin Bad
  <2>1. PICK f : Solves(f, k)
    BY <1>2
  <2> DEFINE g == [visit \in DataCalls |-> SanitizeStep(f, visit, raw)]
  <2>2. \A visit \in DataCalls : g[visit] = SanitizeStep(f, visit, raw)
    OBVIOUS
  <2> HIDE DEF g
  <2>3. \A visit \in DataWithin(k) : g[visit] = f[visit]
    BY <2>1, <2>2 DEF DataWithin
  <2>4. ASSUME NEW visit \in DataWithin(k + 1) PROVE g[visit] = SanitizeStep(g, visit, raw)
    <3>1. visit \in DataCalls /\ \A d \in DataDeeper(visit) : d \in DataWithin(k)
      BY DataWithinLower
    <3>2. \A d \in DataDeeper(visit) : f[d] = g[d]
      BY <2>3, <3>1
    <3>3. SanitizeStep(f, visit, raw) = SanitizeStep(g, visit, raw)
      BY <3>1, <3>2, DataStepsAgree
    <3> QED BY <2>2, <3>1, <3>3
  <2>5. Solves(g, k + 1)
    BY <2>4
  <2> HIDE DEF Solves
  <2> QED BY <2>5
<1>3. Bad = {}
  <2>1. Bad \in SUBSET Nat
    OBVIOUS
  <2> HIDE DEF Bad
  <2> QED BY <1>1, <1>2, <2>1, NoCounterexample
<1>4. MAX_DEPTH \in Nat /\ MAX_DEPTH \notin Bad
  BY <1>3 DEF RedactionAssumption
<1>5. PICK f : Solves(f, MAX_DEPTH)
  BY <1>4
<1> DEFINE g == [visit \in DataCalls |-> SanitizeStep(f, visit, raw)]
<1>6. \A visit \in DataCalls : f[visit] = SanitizeStep(f, visit, raw)
  BY <1>5, DataWithinLower
<1>7. \A visit \in DataCalls : g[visit] = f[visit]
  BY <1>6
<1>8. \A visit \in DataCalls : SanitizeStep(f, visit, raw) = SanitizeStep(g, visit, raw)
  <2> HIDE DEF g
  <2> SUFFICES ASSUME NEW visit \in DataCalls PROVE SanitizeStep(f, visit, raw) = SanitizeStep(g, visit, raw)
    OBVIOUS
  <2>1. \A d \in DataDeeper(visit) : f[d] = g[d]
    BY <1>7 DEF DataDeeper
  <2> QED BY <2>1, DataStepsAgree
<1>9. g = [visit \in DataCalls |-> SanitizeStep(g, visit, raw)]
  BY <1>8
<1> QED BY <1>9

(* And every answer of it is clean, by the same induction.                *)
LEMMA SolutionIsCopied ==
  ASSUME RedactionAssumption, GraphOK, NEW raw \in BOOLEAN, NEW visit \in DataCalls,
         NEW f, f = [c \in DataCalls |-> SanitizeStep(f, c, raw)]
  PROVE  IsCopied(visit, f[visit], raw)
<1> DEFINE Bad == {k \in Nat : ~ \A c \in DataWithin(k) : IsCopied(c, f[c], raw)}
<1>0. \A c \in DataCalls : f[c] = SanitizeStep(f, c, raw)
  OBVIOUS
<1>1. 0 \notin Bad
  <2>1. ASSUME NEW c \in DataWithin(0) PROVE IsCopied(c, f[c], raw)
    <3>1. c \in DataCalls /\ ~(Cardinality(c.seen) < MAX_DEPTH)
      BY DataWithinLower DEF DataWithin
    <3> QED BY <1>0, <3>1, StepIsCopied
  <2> QED BY <2>1
<1>2. ASSUME NEW k \in Nat, k \notin Bad PROVE k + 1 \notin Bad
  <2>1. \A c \in DataWithin(k) : IsCopied(c, f[c], raw)
    BY <1>2
  <2>2. ASSUME NEW c \in DataWithin(k + 1) PROVE IsCopied(c, f[c], raw)
    <3>1. c \in DataCalls /\ \A d \in DataDeeper(c) : IsCopied(d, f[d], raw)
      BY <2>1, DataWithinLower
    <3> QED BY <1>0, <3>1, StepIsCopied
  <2> QED BY <2>2
<1>3. Bad = {}
  <2>1. Bad \in SUBSET Nat
    OBVIOUS
  <2> HIDE DEF Bad
  <2> QED BY <1>1, <1>2, <2>1, NoCounterexample
<1>4. MAX_DEPTH \in Nat /\ MAX_DEPTH \notin Bad
  BY <1>3 DEF RedactionAssumption
<1> QED BY <1>4, DataWithinLower

(* What sanitize makes of an object, from outside or raw, shows no secret.*)
LEMMA CopyIsClean ==
  ASSUME RedactionAssumption, GraphOK, NEW v \in Objects, NEW raw \in BOOLEAN, raw => OnlyData
  PROVE  Safe(Sanitize(v, raw), ~raw)
<1> DEFINE F == CHOOSE f : f = [visit \in DataCalls |-> SanitizeStep(f, visit, raw)]
           c == DataCall(v, {})
<1>1. Sanitize(v, raw) = F[c]
  BY DEF Sanitize
<1>2. F = [visit \in DataCalls |-> SanitizeStep(F, visit, raw)]
  BY SanitizeExists
<1>3. c \in DataCalls
  BY DEF DataCall, DataCalls
<1> HIDE DEF F, c
<1>4. IsCopied(c, F[c], raw)
  BY <1>2, <1>3, SolutionIsCopied
<1> QED BY <1>1, <1>4 DEF IsCopied

-----------------------------------------------------------------------------
(* Whatever graph of objects an error is given as its cause or its details, *)
(* of any size and with any cycles, and whatever the limits on depth and  *)
(* objects: nothing secret can be reached from what it keeps, and a cause *)
(* with nothing to hide stays the very object it was unless it was cut off*)
(* (errors/redact.ts:431-458, 1079-1116); the entries of a Map inside an  *)
(* object that is printed as a text are excepted.                         *)
THEOREM CausesAreClean == RedactionSpec => []CausesComeOutClean
<1>1. GraphOK => CausesComeOutClean
  <2> SUFFICES ASSUME GraphOK, NEW v \in Objects
               PROVE  /\ Safe(SanitizeCause(v), TRUE) /\ Safe(Sanitize(v, FALSE), TRUE)
                      /\ OnlyData => Safe(Sanitize(v, TRUE), FALSE)
                      /\ Harmless(v) => SanitizeCause(v) = Kept(v) \/ CutOff(SanitizeCause(v))
    BY DEF CausesComeOutClean, NeweggError, OnlyData
  <2>1. /\ Safe(SanitizeCause(v), TRUE)
        /\ Harmless(v) => SanitizeCause(v) = Kept(v) \/ CutOff(SanitizeCause(v))
    BY RedactionAssumption, CauseIsClean
  <2>2. Safe(Sanitize(v, FALSE), TRUE)
    <3>1. Safe(Sanitize(v, FALSE), ~FALSE)
      BY RedactionAssumption, CopyIsClean
    <3> QED BY <3>1
  <2>3. OnlyData => Safe(Sanitize(v, TRUE), FALSE)
    <3>1. OnlyData => Safe(Sanitize(v, TRUE), ~TRUE)
      BY RedactionAssumption, CopyIsClean
    <3> QED BY <3>1
  <2> QED BY <2>1, <2>2, <2>3
<1> QED BY <1>1, GraphStays, PTL

-----------------------------------------------------------------------------
(* What a pass tries: "reserved" and "schemeless" as the code does, the     *)
(* others with nothing remembered.                                          *)
TryOf(p, t, i, copied, memo) ==
  IF p = "reserved" THEN ReservedTry(t, i, copied, memo)
  ELSE IF p = "reservedAlone" THEN ReservedAlone(t, i, copied, memo)
  ELSE IF p = "schemeless" THEN SchemelessTry(t, i, copied, memo)
  ELSE SchemelessAlone(t, i, copied, memo)

CandidateOf(p, t, i) == IF p \in {"reserved", "reservedAlone"} THEN SchemeColon(t, i) ELSE TokenStart(t, i)

PassStart == [out |-> <<>>, copied |-> 1, from |-> 1, memo |-> NoMemo]

Advance(t, s, i, candidate, r) ==
  IF i < s.from \/ ~candidate THEN s
  ELSE IF r.hit = Miss THEN [s EXCEPT !.memo = r.memo]
  ELSE [out |-> s.out \o SubSeq(t, s.copied, r.hit.start - 1) \o r.hit.by,
        copied |-> r.hit.end, from |-> Max({r.hit.end, i + 1}), memo |-> r.memo]

PassStep(p, t, s, i) == Advance(t, s, i, CandidateOf(p, t, i), TryOf(p, t, i, s.copied, s.memo))

IsScan(g, p, t, k) == g = [i \in 0 .. k |-> IF i = 0 THEN PassStart ELSE PassStep(p, t, g[i - 1], i)]

(* A pass takes its steps one after the other.                              *)
LEMMA ScanExists ==
  ASSUME NEW p, NEW t, NEW n \in Nat
  PROVE  \E g : IsScan(g, p, t, n)
<1> DEFINE Bad == {k \in Nat : ~ \E g : IsScan(g, p, t, k)}
<1>1. 0 \notin Bad
  <2> DEFINE g == [i \in 0 .. 0 |-> PassStart]
  <2>1. IsScan(g, p, t, 0)
    BY DEF IsScan
  <2> HIDE DEF g
  <2> QED BY <2>1
<1>2. ASSUME NEW k \in Nat, k \notin Bad PROVE k + 1 \notin Bad
  <2>1. PICK g : IsScan(g, p, t, k)
    BY <1>2
  <2> DEFINE h == [i \in 0 .. k + 1 |-> IF i <= k THEN g[i] ELSE PassStep(p, t, g[k], k + 1)]
  <2>2. \A i \in 0 .. k : g[i] = IF i = 0 THEN PassStart ELSE PassStep(p, t, g[i - 1], i)
    BY <2>1 DEF IsScan
  <2>3. /\ \A i \in 0 .. k : h[i] = g[i]
        /\ h[k + 1] = PassStep(p, t, h[k], k + 1)
        /\ h = [i \in 0 .. k + 1 |-> h[i]]
    OBVIOUS
  <2> HIDE DEF h
  <2>4. \A i \in 0 .. k + 1 : h[i] = IF i = 0 THEN PassStart ELSE PassStep(p, t, h[i - 1], i)
    <3> SUFFICES ASSUME NEW i \in 0 .. k + 1 PROVE h[i] = IF i = 0 THEN PassStart ELSE PassStep(p, t, h[i - 1], i)
      OBVIOUS
    <3>1. CASE i = k + 1
      <4>1. i - 1 = k /\ i # 0
        BY <3>1
      <4> QED BY <2>3, <3>1, <4>1
    <3>2. CASE i \in 0 .. k
      <4>1. i = 0 \/ (i # 0 /\ i - 1 \in 0 .. k)
        BY <3>2
      <4> QED BY <2>2, <2>3, <3>2, <4>1
    <3> QED BY <3>1, <3>2
  <2>5. IsScan(h, p, t, k + 1)
    BY <2>3, <2>4 DEF IsScan
  <2> QED BY <2>5
<1>3. Bad = {}
  <2>1. Bad \in SUBSET Nat
    OBVIOUS
  <2> HIDE DEF Bad
  <2> QED BY <1>1, <1>2, <2>1, NoCounterexample
<1> QED BY <1>3

(* What a pass leaves of a text.                                            *)
IsPass(out, p, t) ==
  \E g : IsScan(g, p, t, Len(t)) /\ out = g[Len(t)].out \o SubSeq(t, g[Len(t)].copied, Len(t))

(* The pass for addresses with a scheme is such a pass.                     *)
LEMMA ReservedScan ==
  ASSUME NEW t, Len(t) \in Nat
  PROVE  IsPass(Pass(t, SchemeColon, ReservedTry), "reserved", t)
<1> DEFINE Step(s, i) == Advance(t, s, i, SchemeColon(t, i), ReservedTry(t, i, s.copied, s.memo))
           Eq(f) == f = [i \in 0 .. Len(t) |-> IF i = 0 THEN PassStart ELSE Step(f[i - 1], i)]
           scan == CHOOSE f : Eq(f)
<1>1. ASSUME NEW s, NEW i PROVE Step(s, i) = PassStep("reserved", t, s, i)
  BY DEF PassStep, CandidateOf, TryOf
<1>2. \A f : Eq(f) <=> IsScan(f, "reserved", t, Len(t))
  <2> HIDE DEF Step
  <2> QED BY <1>1 DEF IsScan
<1>3. Pass(t, SchemeColon, ReservedTry) = scan[Len(t)].out \o SubSeq(t, scan[Len(t)].copied, Len(t))
  BY DEF Pass, Advance, PassStart
<1>4. Eq(scan)
  <2>1. \E f : Eq(f)
    <3> HIDE DEF Eq
    <3> QED BY <1>2, ScanExists
  <2> HIDE DEF Step
  <2> QED BY <2>1
<1> HIDE DEF scan, Eq
<1> QED BY <1>2, <1>3, <1>4 DEF IsPass

(* The same with nothing remembered.                                        *)
LEMMA ReservedAloneScan ==
  ASSUME NEW t, Len(t) \in Nat
  PROVE  IsPass(Pass(t, SchemeColon, ReservedAlone), "reservedAlone", t)
<1> DEFINE Step(s, i) == Advance(t, s, i, SchemeColon(t, i), ReservedAlone(t, i, s.copied, s.memo))
           Eq(f) == f = [i \in 0 .. Len(t) |-> IF i = 0 THEN PassStart ELSE Step(f[i - 1], i)]
           scan == CHOOSE f : Eq(f)
<1>1. ASSUME NEW s, NEW i PROVE Step(s, i) = PassStep("reservedAlone", t, s, i)
  BY DEF PassStep, CandidateOf, TryOf
<1>2. \A f : Eq(f) <=> IsScan(f, "reservedAlone", t, Len(t))
  <2> HIDE DEF Step
  <2> QED BY <1>1 DEF IsScan
<1>3. Pass(t, SchemeColon, ReservedAlone) = scan[Len(t)].out \o SubSeq(t, scan[Len(t)].copied, Len(t))
  BY DEF Pass, Advance, PassStart
<1>4. Eq(scan)
  <2>1. \E f : Eq(f)
    <3> HIDE DEF Eq
    <3> QED BY <1>2, ScanExists
  <2> HIDE DEF Step
  <2> QED BY <2>1
<1> HIDE DEF scan, Eq
<1> QED BY <1>2, <1>3, <1>4 DEF IsPass

(* The pass for addresses without a scheme.                                 *)
LEMMA SchemelessScan ==
  ASSUME NEW t, Len(t) \in Nat
  PROVE  IsPass(Pass(t, TokenStart, SchemelessTry), "schemeless", t)
<1> DEFINE Step(s, i) == Advance(t, s, i, TokenStart(t, i), SchemelessTry(t, i, s.copied, s.memo))
           Eq(f) == f = [i \in 0 .. Len(t) |-> IF i = 0 THEN PassStart ELSE Step(f[i - 1], i)]
           scan == CHOOSE f : Eq(f)
<1>1. ASSUME NEW s, NEW i PROVE Step(s, i) = PassStep("schemeless", t, s, i)
  BY DEF PassStep, CandidateOf, TryOf
<1>2. \A f : Eq(f) <=> IsScan(f, "schemeless", t, Len(t))
  <2> HIDE DEF Step
  <2> QED BY <1>1 DEF IsScan
<1>3. Pass(t, TokenStart, SchemelessTry) = scan[Len(t)].out \o SubSeq(t, scan[Len(t)].copied, Len(t))
  BY DEF Pass, Advance, PassStart
<1>4. Eq(scan)
  <2>1. \E f : Eq(f)
    <3> HIDE DEF Eq
    <3> QED BY <1>2, ScanExists
  <2> HIDE DEF Step
  <2> QED BY <2>1
<1> HIDE DEF scan, Eq
<1> QED BY <1>2, <1>3, <1>4 DEF IsPass

(* And the same with nothing remembered.                                    *)
LEMMA SchemelessAloneScan ==
  ASSUME NEW t, Len(t) \in Nat
  PROVE  IsPass(Pass(t, TokenStart, SchemelessAlone), "schemelessAlone", t)
<1> DEFINE Step(s, i) == Advance(t, s, i, TokenStart(t, i), SchemelessAlone(t, i, s.copied, s.memo))
           Eq(f) == f = [i \in 0 .. Len(t) |-> IF i = 0 THEN PassStart ELSE Step(f[i - 1], i)]
           scan == CHOOSE f : Eq(f)
<1>1. ASSUME NEW s, NEW i PROVE Step(s, i) = PassStep("schemelessAlone", t, s, i)
  BY DEF PassStep, CandidateOf, TryOf
<1>2. \A f : Eq(f) <=> IsScan(f, "schemelessAlone", t, Len(t))
  <2> HIDE DEF Step
  <2> QED BY <1>1 DEF IsScan
<1>3. Pass(t, TokenStart, SchemelessAlone) = scan[Len(t)].out \o SubSeq(t, scan[Len(t)].copied, Len(t))
  BY DEF Pass, Advance, PassStart
<1>4. Eq(scan)
  <2>1. \E f : Eq(f)
    <3> HIDE DEF Eq
    <3> QED BY <1>2, ScanExists
  <2> HIDE DEF Step
  <2> QED BY <2>1
<1> HIDE DEF scan, Eq
<1> QED BY <1>2, <1>3, <1>4 DEF IsPass

(* The least member of a set of numbers.                                    *)
LEMMA MinIs ==
  ASSUME NEW S \in SUBSET Nat, S # {}
  PROVE  Min(S) \in S /\ \A x \in S : Min(S) <= x
<1>1. \E n \in S : \A m \in S : n <= m
  BY LeastNumber
<1> QED BY <1>1 DEF Min

(* And the greatest.                                                        *)
LEMMA MaxIs ==
  ASSUME NEW m \in Nat, NEW S \in SUBSET (0 .. m), S # {}
  PROVE  Max(S) \in S /\ \A x \in S : x <= Max(S)
<1>1. \E n \in S : \A x \in S : x <= n
  BY GreatestNumber
<1>2. \E n \in S : \A x \in S : n >= x
  BY <1>1
<1> QED BY <1>2 DEF Max

(* The greater of two numbers.                                              *)
LEMMA MaxOfTwo ==
  ASSUME NEW a \in Nat, NEW b \in Nat
  PROVE  Max({a, b}) = IF a < b THEN b ELSE a
<1> DEFINE S == {a, b}
<1>1. S \in SUBSET (0 .. a + b) /\ S # {} /\ a + b \in Nat
  OBVIOUS
<1>2. Max(S) \in S /\ \A x \in S : x <= Max(S)
  <2> HIDE DEF S
  <2> QED BY <1>1, MaxIs
<1> QED BY <1>2

(* The end of a run.                                                        *)
IsRunEnd(e, t, i, ends) ==
  /\ e \in Nat /\ i <= e
  /\ \A j \in i .. Len(t) : j < e => t[j] \notin ends
  /\ (e <= Len(t) /\ t[e] \in ends) \/ (e >= Len(t) + 1 /\ (e = i \/ e = Len(t) + 1))

(* Where a run ends is where its first delimiter is.                        *)
LEMMA RunEndIs ==
  ASSUME NEW t, Len(t) \in Nat, NEW i \in Nat, NEW ends
  PROVE  IsRunEnd(RunEnd(t, i, ends), t, i, ends)
<1> DEFINE A == {j \in i .. Len(t) : t[j] \in ends}
           last == Max({i, Len(t) + 1})
           S == A \cup {last}
<1>1. last = IF i < Len(t) + 1 THEN Len(t) + 1 ELSE i
  BY MaxOfTwo
<1> HIDE DEF last
<1>2. S \in SUBSET Nat /\ S # {}
  BY <1>1
<1>3. RunEnd(t, i, ends) = Min(S)
  BY DEF RunEnd, last
<1>4. Min(S) \in S /\ \A x \in S : Min(S) <= x
  <2> HIDE DEF S
  <2> QED BY <1>2, MinIs
<1> DEFINE e == Min(S)
<1>5. e \in S /\ \A x \in S : e <= x
  BY <1>4
<1> HIDE DEF e
<1>6. e \in Nat /\ i <= e
  BY <1>1, <1>2, <1>5
<1>7. \A j \in i .. Len(t) : j < e => t[j] \notin ends
  BY <1>5, <1>6
<1>8. (e <= Len(t) /\ t[e] \in ends) \/ (e >= Len(t) + 1 /\ (e = i \/ e = Len(t) + 1))
  BY <1>1, <1>5, <1>6
<1> QED BY <1>3, <1>6, <1>7, <1>8 DEF IsRunEnd, e

(* A place of a run has the end of the run.                                 *)
LEMMA OneRunOneEnd ==
  ASSUME NEW t, Len(t) \in Nat, NEW i \in Nat, NEW ends, NEW begin \in i .. RunEnd(t, i, ends)
  PROVE  RunEnd(t, begin, ends) = RunEnd(t, i, ends)
<1>1. IsRunEnd(RunEnd(t, i, ends), t, i, ends)
  BY RunEndIs
<1>2. begin \in Nat /\ i <= begin /\ begin <= RunEnd(t, i, ends)
  BY <1>1 DEF IsRunEnd
<1>3. IsRunEnd(RunEnd(t, begin, ends), t, begin, ends)
  BY <1>2, RunEndIs
<1> DEFINE e == RunEnd(t, i, ends)
           f == RunEnd(t, begin, ends)
<1>4. /\ e \in Nat /\ i <= e /\ f \in Nat /\ begin <= f /\ begin <= e
      /\ \A j \in i .. Len(t) : j < e => t[j] \notin ends
      /\ \A j \in begin .. Len(t) : j < f => t[j] \notin ends
      /\ (e <= Len(t) /\ t[e] \in ends) \/ (e >= Len(t) + 1 /\ (e = i \/ e = Len(t) + 1))
      /\ (f <= Len(t) /\ t[f] \in ends) \/ (f >= Len(t) + 1 /\ (f = begin \/ f = Len(t) + 1))
  BY <1>1, <1>2, <1>3 DEF IsRunEnd
<1> HIDE DEF e, f
<1>5. ~(e < f)
  BY <1>2, <1>4
<1>6. ~(f < e)
  BY <1>2, <1>4
<1>7. e = f
  BY <1>4, <1>5, <1>6
<1> QED BY <1>7 DEF e, f

(* An @ with a report host after it, between two places.                    *)
NeweggAts(t, i, end) == {k \in i .. end - 1 : t[k] = "@" /\ At(t, k + 1) = "N"}

(* The first of them, and a place past the text when there is none.         *)
LEMMA FirstIs ==
  ASSUME NEW t, Len(t) \in Nat, NEW i \in Nat, NEW end \in Nat
  PROVE  /\ FirstNeweggAt(t, i, end) \in NeweggAts(t, i, end) \cup {Len(t) + 2}
         /\ FirstNeweggAt(t, i, end) <= Len(t) + 2
         /\ \A k \in NeweggAts(t, i, end) : FirstNeweggAt(t, i, end) <= k
<1> DEFINE A == NeweggAts(t, i, end)
           S == A \cup {Len(t) + 2}
<1>1. FirstNeweggAt(t, i, end) = Min(S)
  BY DEF FirstNeweggAt, NeweggAts
<1>2. S \in SUBSET Nat /\ S # {}
  BY DEF NeweggAts
<1>3. Min(S) \in S /\ \A x \in S : Min(S) <= x
  <2> HIDE DEF S
  <2> QED BY <1>2, MinIs
<1> QED BY <1>1, <1>3

(* And the last, 0 when there is none.                                      *)
LEMMA LastIs ==
  ASSUME NEW t, NEW i \in Nat, NEW end \in Nat
  PROVE  /\ LastNeweggAt(t, i, end) \in NeweggAts(t, i, end) \cup {0}
         /\ \A k \in NeweggAts(t, i, end) : k <= LastNeweggAt(t, i, end)
<1> DEFINE A == NeweggAts(t, i, end)
           S == A \cup {0}
<1>1. LastNeweggAt(t, i, end) = Max(S)
  BY DEF LastNeweggAt, NeweggAts
<1>2. S \in SUBSET (0 .. end) /\ S # {}
  BY DEF NeweggAts
<1>3. Max(S) \in S /\ \A x \in S : x <= Max(S)
  <2> HIDE DEF S
  <2> QED BY <1>2, MaxIs
<1> QED BY <1>1, <1>3

(* What was found from the start of a run answers a later place too, as     *)
(* long as that place is not past it.                                       *)
LEMMA FirstAgain ==
  ASSUME NEW t, Len(t) \in Nat, NEW i \in Nat, NEW end \in Nat, NEW begin \in i .. end,
         end <= Len(t) + 1 \/ end = i,
         ~(FirstNeweggAt(t, i, end) <= Len(t) /\ begin > FirstNeweggAt(t, i, end))
  PROVE  FirstNeweggAt(t, begin, end) = FirstNeweggAt(t, i, end)
<1> DEFINE f == FirstNeweggAt(t, i, end)
           g == FirstNeweggAt(t, begin, end)
           A == NeweggAts(t, i, end)
           B == NeweggAts(t, begin, end)
<1>1. f \in A \cup {Len(t) + 2} /\ f <= Len(t) + 2 /\ \A k \in A : f <= k
  BY FirstIs
<1>2. g \in B \cup {Len(t) + 2} /\ g <= Len(t) + 2 /\ \A k \in B : g <= k
  <2>1. begin \in Nat
    OBVIOUS
  <2> QED BY <2>1, FirstIs
<1>3. \A k \in Nat : /\ k \in B <=> (k \in A /\ begin <= k)
                     /\ k \in A => k <= Len(t)
  BY DEF NeweggAts
<1>4. A \subseteq Nat /\ B \subseteq Nat
  BY DEF NeweggAts
<1>5. ~(f <= Len(t) /\ begin > f) /\ begin \in Nat
  OBVIOUS
<1> HIDE DEF f, g, A, B
<1>6. f \in Nat /\ g \in Nat
  BY <1>1, <1>2, <1>4
<1>7. f <= g
  BY <1>1, <1>2, <1>3, <1>4, <1>6
<1>8. g <= f
  BY <1>1, <1>2, <1>3, <1>4, <1>5, <1>6
<1>9. f = g
  BY <1>6, <1>7, <1>8
<1> QED BY <1>9 DEF f, g

(* The last one answers every later place: with itself, or with none.       *)
LEMMA LastAgain ==
  ASSUME NEW t, NEW i \in Nat, NEW end \in Nat, NEW begin \in i .. end, 0 < begin
  PROVE  IF LastNeweggAt(t, i, end) < begin
         THEN LastNeweggAt(t, begin, end) < begin
         ELSE LastNeweggAt(t, begin, end) = LastNeweggAt(t, i, end)
<1> DEFINE f == LastNeweggAt(t, i, end)
           g == LastNeweggAt(t, begin, end)
           A == NeweggAts(t, i, end)
           B == NeweggAts(t, begin, end)
<1>1. f \in A \cup {0} /\ \A k \in A : k <= f
  BY LastIs
<1>2. g \in B \cup {0} /\ \A k \in B : k <= g
  <2>1. begin \in Nat
    OBVIOUS
  <2> QED BY <2>1, LastIs
<1>3. \A k \in Nat : k \in B <=> (k \in A /\ begin <= k)
  BY DEF NeweggAts
<1>4. A \subseteq Nat /\ B \subseteq Nat
  BY DEF NeweggAts
<1>5. begin \in Nat /\ 0 < begin
  OBVIOUS
<1> HIDE DEF f, g, A, B
<1>6. f \in Nat /\ g \in Nat
  BY <1>1, <1>2, <1>4
<1>7. CASE f < begin
  <2>1. g < begin
    BY <1>1, <1>2, <1>3, <1>4, <1>5, <1>6, <1>7
  <2> QED BY <1>7, <2>1 DEF f, g
<1>8. CASE ~(f < begin)
  <2>1. f \in B
    BY <1>1, <1>3, <1>4, <1>5, <1>6, <1>8
  <2>2. f <= g
    BY <1>2, <2>1
  <2>3. g \in A
    BY <1>2, <1>3, <1>4, <1>5, <1>6, <1>8, <2>2
  <2>4. g <= f
    BY <1>1, <2>3
  <2>5. g = f
    BY <1>6, <2>2, <2>4
  <2> QED BY <1>8, <2>5 DEF f, g
<1> QED BY <1>7, <1>8

(* What is remembered of a run is what its start would find.                *)
IsMemo(m) == m = [from |-> m.from, end |-> m.end, found |-> m.found] /\ m.from \in Nat

ReservedMemo(t, m) ==
  /\ IsMemo(m)
  /\ m.from > 0 => m.end = RunEnd(t, m.from, ReservedEnd) /\ m.found = FirstNeweggAt(t, m.from, m.end)

SchemelessMemo(t, m) ==
  /\ IsMemo(m)
  /\ m.from > 0 => m.end = RunEnd(t, m.from, SchemelessPasswordEnd) /\ m.found = LastNeweggAt(t, m.from, m.end)

(* The end of a run is past its start, and not past the end of the text.    *)
LEMMA RunEndBounds ==
  ASSUME NEW t, Len(t) \in Nat, NEW i \in Nat, NEW ends
  PROVE  /\ RunEnd(t, i, ends) \in Nat /\ i <= RunEnd(t, i, ends)
         /\ RunEnd(t, i, ends) <= Len(t) + 1 \/ RunEnd(t, i, ends) = i
<1>1. IsRunEnd(RunEnd(t, i, ends), t, i, ends)
  BY RunEndIs
<1> QED BY <1>1 DEF IsRunEnd

(* What is measured for a place is what is known of it without a memo.      *)
LEMMA MeasuredIsMeasuredAnew ==
  ASSUME NEW t, Len(t) \in Nat, NEW begin \in Nat, 0 < begin, NEW m, ReservedMemo(t, m)
  PROVE  /\ ReservedMemo(t, Measured(t, begin, m))
         /\ Measured(t, begin, m).found = Measured(t, begin, NoMemo).found
<1> DEFINE end == RunEnd(t, begin, ReservedEnd)
           anew == [from |-> begin, end |-> end, found |-> FirstNeweggAt(t, begin, end)]
           same == m.from > 0 /\ begin \in m.from .. m.end
           past == m.found <= Len(t) /\ begin > m.found
<1>1. Measured(t, begin, NoMemo) = anew
  BY DEF Measured, NoMemo
<1>2. ReservedMemo(t, anew)
  BY DEF ReservedMemo, IsMemo
<1>3. CASE ~same
  <2>1. Measured(t, begin, m) = anew
    BY <1>3 DEF Measured
  <2> QED BY <1>1, <1>2, <2>1
<1>4. CASE same
  <2>1. m.from \in Nat /\ m.end = RunEnd(t, m.from, ReservedEnd) /\ m.found = FirstNeweggAt(t, m.from, m.end)
    BY <1>4 DEF ReservedMemo, IsMemo
  <2>2. m.end = end
    BY <1>4, <2>1, OneRunOneEnd
  <2>3. CASE past
    <3>1. Measured(t, begin, m) = anew
      BY <1>4, <2>2, <2>3 DEF Measured
    <3> QED BY <1>1, <1>2, <3>1
  <2>4. CASE ~past
    <3>1. Measured(t, begin, m) = m
      BY <1>4, <2>4 DEF Measured
    <3>2. m.end \in Nat /\ (m.end <= Len(t) + 1 \/ m.end = m.from)
      BY <2>1, RunEndBounds
    <3>3. FirstNeweggAt(t, begin, m.end) = FirstNeweggAt(t, m.from, m.end)
      BY <1>4, <2>1, <2>4, <3>2, FirstAgain
    <3>4. m.found = anew.found
      BY <2>1, <2>2, <3>3
    <3> QED BY <1>1, <3>1, <3>4
  <2> QED BY <2>3, <2>4
<1> QED BY <1>3, <1>4

(* The slashes after a colon end.                                           *)
LEMMA AfterSlashesIs ==
  ASSUME NEW t, Len(t) \in Nat, NEW colon \in 1 .. Len(t)
  PROVE  AfterSlashes(t, colon) \in Nat /\ colon < AfterSlashes(t, colon)
<1> DEFINE S == {j \in colon + 1 .. Len(t) + 1 : At(t, j) \notin Slashes}
<1>1. Len(t) + 1 \in S
  BY DEF At, Slashes
<1>2. S \in SUBSET Nat /\ S # {}
  BY <1>1
<1>3. Min(S) \in S
  <2> HIDE DEF S
  <2> QED BY <1>2, MinIs
<1>4. AfterSlashes(t, colon) = Min(S)
  BY DEF AfterSlashes
<1> QED BY <1>3, <1>4

(* A candidate with a scheme is answered as if nothing were remembered.     *)
LEMMA ReservedAloneIsShared ==
  ASSUME NEW t, Len(t) \in Nat, NEW colon \in 1 .. Len(t), NEW copied, NEW m, ReservedMemo(t, m)
  PROVE  /\ ReservedMemo(t, ReservedTry(t, colon, copied, m).memo)
         /\ ReservedAlone(t, colon, copied, NoMemo) = [hit |-> ReservedTry(t, colon, copied, m).hit, memo |-> NoMemo]
<1> DEFINE start == SchemeStart(t, colon, copied)
           begin == Min({AfterSlashes(t, colon), colon + 1 + MAX_SLASHES})
           shared == Measured(t, begin, m)
           own    == Measured(t, begin, NoMemo)
           cut    == start = colon \/ begin < colon + 3
           HitOf(k) == IF cut THEN Miss ELSE IF k.found > Len(t) THEN Miss ELSE Masked(t, start, colon, begin, k.found)
<1>1. begin \in Nat /\ 0 < begin
  <2> DEFINE S == {AfterSlashes(t, colon), colon + 1 + MAX_SLASHES}
  <2>1. S \in SUBSET Nat /\ S # {} /\ \A x \in S : 0 < x
    BY AfterSlashesIs, RedactionAssumption
  <2>2. Min(S) \in S
    <3> HIDE DEF S
    <3> QED BY <2>1, MinIs
  <2> QED BY <2>1, <2>2
<1>2. ReservedMemo(t, shared) /\ shared.found = own.found
  <2> HIDE DEF begin
  <2> QED BY <1>1, MeasuredIsMeasuredAnew
<1>3. ReservedTry(t, colon, copied, m) = IF cut THEN [hit |-> Miss, memo |-> m] ELSE [hit |-> HitOf(shared), memo |-> shared]
  <2>1. ReservedTry(t, colon, copied, m)
          = IF cut THEN [hit |-> Miss, memo |-> m]
            ELSE [hit |-> IF shared.found > Len(t) THEN Miss ELSE Masked(t, start, colon, begin, shared.found), memo |-> shared]
    BY DEF ReservedTry
  <2> HIDE DEF start, begin, shared, cut
  <2> QED BY <2>1
<1>4. ReservedTry(t, colon, copied, NoMemo).hit = HitOf(own)
  <2>1. ReservedTry(t, colon, copied, NoMemo)
          = IF cut THEN [hit |-> Miss, memo |-> NoMemo]
            ELSE [hit |-> IF own.found > Len(t) THEN Miss ELSE Masked(t, start, colon, begin, own.found), memo |-> own]
    BY DEF ReservedTry
  <2> HIDE DEF start, begin, own, cut
  <2> QED BY <2>1
<1>5. HitOf(shared) = HitOf(own)
  <2> HIDE DEF start, begin, shared, own, cut
  <2> QED BY <1>2
<1>6. cut => HitOf(own) = Miss
  <2> HIDE DEF start, begin, own, cut
  <2> QED OBVIOUS
<1> HIDE DEF start, begin, shared, own, cut, HitOf
<1>7. ReservedTry(t, colon, copied, m).hit = HitOf(own)
  BY <1>3, <1>5, <1>6
<1>8. ReservedMemo(t, ReservedTry(t, colon, copied, m).memo)
  BY <1>2, <1>3
<1> QED BY <1>4, <1>7, <1>8 DEF ReservedAlone

(* And so is one without.                                                   *)
LEMMA SchemelessAloneIsShared ==
  ASSUME NEW t, Len(t) \in Nat, NEW i \in 1 .. Len(t), NEW copied, NEW m, SchemelessMemo(t, m)
  PROVE  /\ SchemelessMemo(t, SchemelessTry(t, i, copied, m).memo)
         /\ SchemelessAlone(t, i, copied, NoMemo) = [hit |-> SchemelessTry(t, i, copied, m).hit, memo |-> NoMemo]
<1> DEFINE userEnd == RunEnd(t, i, SchemelessUserEnd)
           begin == userEnd + 1
           end   == RunEnd(t, begin, SchemelessPasswordEnd)
           own   == [from |-> begin, end |-> end, found |-> LastNeweggAt(t, begin, end)]
           same  == m.from > 0 /\ begin \in m.from .. m.end
           shared == IF same THEN m ELSE own
           cut    == userEnd = i \/ At(t, userEnd) # ":"
           HitOf(k) == IF k.found < begin THEN Miss ELSE Hit(i, k.found + 1, <<"***", "@">>)
<1>1. begin \in Nat /\ 0 < begin
  BY RunEndBounds
<1>2. SchemelessTry(t, i, copied, m) = IF cut THEN [hit |-> Miss, memo |-> m] ELSE [hit |-> HitOf(shared), memo |-> shared]
  BY DEF SchemelessTry
<1>3. SchemelessTry(t, i, copied, NoMemo) = IF cut THEN [hit |-> Miss, memo |-> NoMemo] ELSE [hit |-> HitOf(own), memo |-> own]
  <2>1. ~(NoMemo.from > 0)
    BY DEF NoMemo
  <2>2. SchemelessTry(t, i, copied, NoMemo)
          = LET k == IF NoMemo.from > 0 /\ begin \in NoMemo.from .. NoMemo.end THEN NoMemo ELSE own
            IN IF cut THEN [hit |-> Miss, memo |-> NoMemo] ELSE [hit |-> HitOf(k), memo |-> k]
    BY DEF SchemelessTry
  <2> HIDE DEF userEnd, begin, end, own, cut, HitOf
  <2> QED BY <2>1, <2>2
<1>4. SchemelessMemo(t, own)
  <2> HIDE DEF userEnd, begin
  <2> QED BY <1>1 DEF SchemelessMemo, IsMemo
<1>5. SchemelessMemo(t, shared) /\ HitOf(shared) = HitOf(own)
  <2>1. CASE ~same
    BY <1>4, <2>1
  <2>2. CASE same
    <3>1. m.from \in Nat /\ m.end = RunEnd(t, m.from, SchemelessPasswordEnd) /\ m.found = LastNeweggAt(t, m.from, m.end)
      BY <2>2 DEF SchemelessMemo, IsMemo
    <3> HIDE DEF userEnd, begin
    <3>2. m.end = end
      BY <2>2, <3>1, OneRunOneEnd
    <3>3. m.end \in Nat
      BY <3>1, RunEndBounds
    <3>4. IF LastNeweggAt(t, m.from, m.end) < begin THEN LastNeweggAt(t, begin, m.end) < begin
          ELSE LastNeweggAt(t, begin, m.end) = LastNeweggAt(t, m.from, m.end)
      BY <1>1, <2>2, <3>1, <3>3, LastAgain
    <3>5. IF m.found < begin THEN own.found < begin ELSE own.found = m.found
      BY <3>1, <3>2, <3>4
    <3>6. shared = m
      BY <2>2
    <3> HIDE DEF own, shared, end
    <3> QED BY <3>5, <3>6
  <2> QED BY <2>1, <2>2
<1> HIDE DEF userEnd, begin, end, own, same, shared, cut, HitOf
<1> QED BY <1>2, <1>3, <1>5 DEF SchemelessAlone

(* A pass, and the same pass without a memo.                                *)
AloneOf(p)     == IF p = "reserved" THEN "reservedAlone" ELSE "schemelessAlone"
MemoOf(p, t, m) == IF p = "reserved" THEN ReservedMemo(t, m) ELSE SchemelessMemo(t, m)

IsState(s) == s = [out |-> s.out, copied |-> s.copied, from |-> s.from, memo |-> s.memo]

(* Two states of them that agree on all but what is remembered.             *)
Follows(p, t, s, u) ==
  /\ IsState(s) /\ IsState(u)
  /\ s.out = u.out /\ s.copied = u.copied /\ s.from = u.from
  /\ MemoOf(p, t, s.memo) /\ u.memo = NoMemo

(* A step of the one keeps step with the same step of the other.            *)
LEMMA StepsFollow ==
  ASSUME NEW p \in {"reserved", "schemeless"}, NEW t, Len(t) \in Nat, NEW i \in 1 .. Len(t),
         NEW s, NEW u, Follows(p, t, s, u)
  PROVE  Follows(p, t, PassStep(p, t, s, i), PassStep(AloneOf(p), t, u, i))
<1> DEFINE r == TryOf(p, t, i, s.copied, s.memo)
           q == TryOf(AloneOf(p), t, i, u.copied, u.memo)
           c == CandidateOf(p, t, i)
<1>1. MemoOf(p, t, r.memo) /\ q = [hit |-> r.hit, memo |-> NoMemo]
  <2>1. s.copied = u.copied /\ u.memo = NoMemo /\ MemoOf(p, t, s.memo)
    BY DEF Follows
  <2>2. CASE p = "reserved"
    <3>1. r = ReservedTry(t, i, s.copied, s.memo) /\ q = ReservedAlone(t, i, s.copied, NoMemo)
      BY <2>1, <2>2 DEF TryOf, AloneOf
    <3>2. ReservedMemo(t, s.memo)
      BY <2>1, <2>2 DEF MemoOf
    <3> HIDE DEF r, q
    <3>3. /\ ReservedMemo(t, ReservedTry(t, i, s.copied, s.memo).memo)
          /\ ReservedAlone(t, i, s.copied, NoMemo) = [hit |-> ReservedTry(t, i, s.copied, s.memo).hit, memo |-> NoMemo]
      BY <3>2, ReservedAloneIsShared
    <3> QED BY <2>2, <3>1, <3>3 DEF MemoOf
  <2>3. CASE p = "schemeless"
    <3>1. r = SchemelessTry(t, i, s.copied, s.memo) /\ q = SchemelessAlone(t, i, s.copied, NoMemo)
      BY <2>1, <2>3 DEF TryOf, AloneOf
    <3>2. SchemelessMemo(t, s.memo)
      BY <2>1, <2>3 DEF MemoOf
    <3> HIDE DEF r, q
    <3>3. /\ SchemelessMemo(t, SchemelessTry(t, i, s.copied, s.memo).memo)
          /\ SchemelessAlone(t, i, s.copied, NoMemo) = [hit |-> SchemelessTry(t, i, s.copied, s.memo).hit, memo |-> NoMemo]
      BY <3>2, SchemelessAloneIsShared
    <3> QED BY <2>3, <3>1, <3>3 DEF MemoOf
  <2> QED BY <2>2, <2>3
<1>2. CandidateOf(AloneOf(p), t, i) = c
  BY DEF CandidateOf, AloneOf
<1>3. PassStep(p, t, s, i) = Advance(t, s, i, c, r) /\ PassStep(AloneOf(p), t, u, i) = Advance(t, u, i, c, q)
  BY <1>2 DEF PassStep
<1> HIDE DEF r, q, c
<1>4. CASE i < s.from \/ ~c
  <2>1. i < u.from \/ ~c
    BY <1>4 DEF Follows
  <2>2. Advance(t, s, i, c, r) = s /\ Advance(t, u, i, c, q) = u
    BY <1>4, <2>1 DEF Advance
  <2> QED BY <1>3, <2>2
<1>5. CASE ~(i < s.from \/ ~c) /\ r.hit = Miss
  <2>1. ~(i < u.from \/ ~c) /\ q.hit = Miss
    BY <1>1, <1>5 DEF Follows
  <2>2. Advance(t, s, i, c, r) = [s EXCEPT !.memo = r.memo] /\ Advance(t, u, i, c, q) = [u EXCEPT !.memo = NoMemo]
    BY <1>1, <1>5, <2>1 DEF Advance
  <2>3. /\ [s EXCEPT !.memo = r.memo] = [out |-> s.out, copied |-> s.copied, from |-> s.from, memo |-> r.memo]
        /\ [u EXCEPT !.memo = NoMemo] = [out |-> u.out, copied |-> u.copied, from |-> u.from, memo |-> NoMemo]
    BY DEF Follows, IsState
  <2> QED BY <1>1, <1>3, <2>2, <2>3 DEF Follows, IsState
<1>6. CASE ~(i < s.from \/ ~c) /\ r.hit # Miss
  <2>1. ~(i < u.from \/ ~c) /\ q.hit = r.hit /\ q.memo = NoMemo /\ s.out = u.out /\ s.copied = u.copied
    BY <1>1, <1>6 DEF Follows
  <2> DEFINE out == s.out \o SubSeq(t, s.copied, r.hit.start - 1) \o r.hit.by
             from == Max({r.hit.end, i + 1})
  <2>2. /\ Advance(t, s, i, c, r) = [out |-> out, copied |-> r.hit.end, from |-> from, memo |-> r.memo]
        /\ Advance(t, u, i, c, q) = [out |-> out, copied |-> r.hit.end, from |-> from, memo |-> NoMemo]
    BY <1>6, <2>1 DEF Advance
  <2> HIDE DEF out, from
  <2> QED BY <1>1, <1>3, <2>2 DEF Follows, IsState
<1> QED BY <1>4, <1>5, <1>6

(* So do all of them, and the two passes leave the same.                    *)
LEMMA PassesFollow ==
  ASSUME NEW p \in {"reserved", "schemeless"}, NEW t, Len(t) \in Nat,
         NEW a, NEW b, IsPass(a, p, t), IsPass(b, AloneOf(p), t)
  PROVE  a = b
<1>1. PICK g : IsScan(g, p, t, Len(t)) /\ a = g[Len(t)].out \o SubSeq(t, g[Len(t)].copied, Len(t))
  BY DEF IsPass
<1>2. PICK h : IsScan(h, AloneOf(p), t, Len(t)) /\ b = h[Len(t)].out \o SubSeq(t, h[Len(t)].copied, Len(t))
  BY DEF IsPass
<1> DEFINE Bad == {k \in Nat : k <= Len(t) /\ ~Follows(p, t, g[k], h[k])}
<1>3. 0 \notin Bad
  <2>1. g[0] = PassStart /\ h[0] = PassStart
    <3>1. 0 \in 0 .. Len(t)
      OBVIOUS
    <3> QED BY <1>1, <1>2, <3>1 DEF IsScan
  <2>2. MemoOf(p, t, NoMemo)
    BY DEF MemoOf, ReservedMemo, SchemelessMemo, IsMemo, NoMemo
  <2>3. Follows(p, t, PassStart, PassStart)
    BY <2>2 DEF Follows, IsState, PassStart
  <2> QED BY <2>1, <2>3
<1>4. ASSUME NEW k \in Nat, k \notin Bad PROVE k + 1 \notin Bad
  <2> SUFFICES ASSUME k + 1 <= Len(t) PROVE Follows(p, t, g[k + 1], h[k + 1])
    OBVIOUS
  <2>1. Follows(p, t, g[k], h[k])
    BY <1>4
  <2>2. k + 1 \in 1 .. Len(t)
    OBVIOUS
  <2>3. Follows(p, t, PassStep(p, t, g[k], k + 1), PassStep(AloneOf(p), t, h[k], k + 1))
    BY <2>1, <2>2, StepsFollow
  <2>4. g[k + 1] = PassStep(p, t, g[k], k + 1) /\ h[k + 1] = PassStep(AloneOf(p), t, h[k], k + 1)
    <3>1. k + 1 \in 0 .. Len(t) /\ k + 1 # 0 /\ (k + 1) - 1 = k
      BY <2>2
    <3> QED BY <1>1, <1>2, <3>1 DEF IsScan
  <2> QED BY <2>3, <2>4
<1>5. Bad = {}
  <2>1. Bad \in SUBSET Nat
    OBVIOUS
  <2> HIDE DEF Bad
  <2> QED BY <1>3, <1>4, <2>1, NoCounterexample
<1>6. Follows(p, t, g[Len(t)], h[Len(t)])
  BY <1>5
<1> QED BY <1>1, <1>2, <1>6 DEF Follows

(* What holds of every text.                                                *)
LEMMA NoTextTellsTheMemo ==
  ASSUME NEW t \in Texts
  PROVE  SharingChangesNothing(t)
<1>1. Len(t) \in Nat
  BY DEF Texts
<1>2. Pass(t, SchemeColon, ReservedTry) = Pass(t, SchemeColon, ReservedAlone)
  <2>1. IsPass(Pass(t, SchemeColon, ReservedAlone), AloneOf("reserved"), t)
    BY <1>1, ReservedAloneScan DEF AloneOf
  <2> QED BY <1>1, <2>1, ReservedScan, PassesFollow
<1>3. Pass(t, TokenStart, SchemelessTry) = Pass(t, TokenStart, SchemelessAlone)
  <2>1. IsPass(Pass(t, TokenStart, SchemelessAlone), AloneOf("schemeless"), t)
    BY <1>1, SchemelessAloneScan DEF AloneOf
  <2> QED BY <1>1, <2>1, SchemelessScan, PassesFollow
<1> QED BY <1>2, <1>3 DEF SharingChangesNothing

(* A layer of encoding makes tokens of tokens.                              *)
LEMMA LayersAreTokens ==
  ASSUME NEW x \in DOMAIN Layer
  PROVE  Layer[x] \in Tokens
<1> DEFINE T == {":", "/", "@", "%:", "%/", "%@"}
<1>1. DOMAIN Peel = {"%:", "%/", "%@", "%%:", "%%/", "%%@"}
  BY DEF Peel
<1>2. Layer = [y \in T |-> CHOOSE s \in DOMAIN Peel : y \in Range(Peel) => Peel[s] = y]
  BY DEF Layer, Inverse
<1> HIDE DEF T
<1>3. \E s \in DOMAIN Peel : x \in Range(Peel) => Peel[s] = x
  BY <1>1 DEF Range
<1>4. Layer[x] \in DOMAIN Peel
  BY <1>2, <1>3
<1> QED BY <1>4 DEF Tokens

(* A text that is encoded is a text.                                        *)
LEMMA EncodingIsText ==
  ASSUME NEW t \in Texts, NEW n
  PROVE  Encoded(t, n) \in Texts
<1>1. ASSUME NEW u \in Texts PROVE EncodeOnce(u) \in Texts
  <2>1. u \in Seq(Tokens) /\ DOMAIN u = 1 .. Len(u) /\ Len(u) \in Nat
    BY DEF Texts
  <2>2. \A i \in 1 .. Len(u) : (IF u[i] \in DOMAIN Layer THEN Layer[u[i]] ELSE u[i]) \in Tokens
    BY <2>1, LayersAreTokens
  <2>3. EncodeOnce(u) = [i \in 1 .. Len(u) |-> IF u[i] \in DOMAIN Layer THEN Layer[u[i]] ELSE u[i]]
    BY <2>1 DEF EncodeOnce
  <2>4. EncodeOnce(u) \in [1 .. Len(u) -> Tokens]
    BY <2>2, <2>3
  <2> QED BY <2>1, <2>4 DEF Texts
<1> QED BY <1>1 DEF Encoded

(* A list of one token; and of two to five.                                 *)
LEMMA OfOne == ASSUME NEW S, NEW a \in S PROVE <<a>> \in Seq(S)
OBVIOUS

(* Two tokens.                                                              *)
LEMMA OfTwo == ASSUME NEW S, NEW a \in S, NEW b \in S PROVE <<a, b>> \in Seq(S)
OBVIOUS

(* Three.                                                                   *)
LEMMA OfThree == ASSUME NEW S, NEW a \in S, NEW b \in S, NEW c \in S PROVE <<a, b, c>> \in Seq(S)
OBVIOUS

(* Four.                                                                    *)
LEMMA OfFour == ASSUME NEW S, NEW a \in S, NEW b \in S, NEW c \in S, NEW d \in S PROVE <<a, b, c, d>> \in Seq(S)
OBVIOUS

(* Five.                                                                    *)
LEMMA OfFive ==
  ASSUME NEW S, NEW a \in S, NEW b \in S, NEW c \in S, NEW d \in S, NEW e \in S
  PROVE  <<a, b, c, d, e>> \in Seq(S)
OBVIOUS

(* The text of every state.                                                 *)
TextOK == text = [tokens |-> text.tokens, listed |-> text.listed] /\ text.tokens \in Texts

(* The text of every state is one.                                          *)
LEMMA TextsAreTexts == RedactionSpec => []TextOK
<1>1. RedactionInit => TextOK
  BY DEF RedactionInit, TextOK, Empty, Texts
<1>2. TextOK /\ [RedactionNext]_redactionVars => TextOK'
  <2> SUFFICES ASSUME TextOK, [RedactionNext]_redactionVars PROVE TextOK'
    OBVIOUS
  <2>1. CASE TakeUrl
    <3>1. PICK before \in {<<>>, <<" ">>, <<"w", ",">>}, head \in Heads, pass \in Passwords,
               host \in {"N", "h"}, tail \in Tails, n \in 0 .. 2 :
            /\ ListedUrl(head, pass, host)
            /\ text' = [tokens |-> Encoded(before \o head \o <<"w", ":">> \o pass \o <<"@", host>> \o tail, n),
                        listed |-> TRUE]
      BY <2>1 DEF TakeUrl
    <3> DEFINE S == Tokens
               u == before \o head \o <<"w", ":">> \o pass \o <<"@", host>> \o tail
    <3>2. /\ "w" \in S /\ "p" \in S /\ "q" \in S /\ ":" \in S /\ "/" \in S /\ "\\" \in S
          /\ "@" \in S /\ "?" \in S /\ " " \in S /\ "," \in S /\ host \in S
      BY DEF Tokens
    <3> HIDE DEF S
    <3>3. <<>> \in Seq(S) /\ <<" ">> \in Seq(S) /\ <<"p">> \in Seq(S)
      <4>1. <<>> \in Seq(S)
        BY EmptySeq
      <4>2. <<" ">> \in Seq(S)
        BY <3>2, OfOne
      <4>3. <<"p">> \in Seq(S)
        BY <3>2, OfOne
      <4> QED BY <4>1, <4>2, <4>3
    <3>4. /\ <<"w", ":">> \in Seq(S) /\ <<"w", ",">> \in Seq(S) /\ <<"/", "/">> \in Seq(S)
          /\ <<"/", "w">> \in Seq(S) /\ <<" ", "w">> \in Seq(S) /\ <<"@", host>> \in Seq(S)
      BY <3>2, OfTwo
    <3>5. /\ <<"w", ":", "/">> \in Seq(S) /\ <<"p", "@", "p">> \in Seq(S) /\ <<"p", ":", "p">> \in Seq(S)
          /\ <<"p", "/", "p">> \in Seq(S) /\ <<"p", "?", "p">> \in Seq(S)
      BY <3>2, OfThree
    <3>6. /\ <<"w", ":", "/", "/">> \in Seq(S) /\ <<"w", ":", "\\", "\\">> \in Seq(S)
          /\ <<"/", "w", "?", "q">> \in Seq(S) /\ <<"w", ":", "/", "/", "/">> \in Seq(S)
      BY <3>2, OfFour, OfFive
    <3>7. before \in Seq(S)
      BY <3>3, <3>4
    <3>8. head \in Seq(S)
      BY <3>3, <3>4, <3>5, <3>6 DEF Heads
    <3>9. pass \in Seq(S)
      BY <3>3, <3>5 DEF Passwords
    <3>10. tail \in Seq(S)
      BY <3>3, <3>4, <3>6 DEF Tails
    <3>11. u \in Seq(S)
      BY <3>4, <3>7, <3>8, <3>9, <3>10, ConcatProperties
    <3> HIDE DEF u
    <3>12. Encoded(u, n) \in Texts
      BY <3>11, EncodingIsText DEF S, Texts
    <3>13. text' = [tokens |-> Encoded(u, n), listed |-> TRUE]
      BY <3>1 DEF u
    <3> QED BY <3>12, <3>13 DEF TextOK
  <2>2. CASE TakePiece
    <3>1. PICK p \in Pieces : text' = [text EXCEPT !.tokens = @ \o p]
      BY <2>2 DEF TakePiece
    <3>2. text.tokens \o p \in Texts
      BY PiecesAssumption DEF TextOK, Texts
    <3>3. text' = [tokens |-> text.tokens \o p, listed |-> text.listed]
      BY <3>1 DEF TextOK
    <3> QED BY <3>2, <3>3 DEF TextOK
  <2>3. CASE TakeCause
    BY <2>3 DEF TakeCause, TextOK
  <2>4. CASE UNCHANGED redactionVars
    BY <2>4 DEF redactionVars, TextOK
  <2> QED BY <2>1, <2>2, <2>3, <2>4 DEF RedactionNext
<1> QED BY <1>1, <1>2, PTL DEF RedactionSpec

(* What the candidates of one run share saves work and nothing else: in    *)
(* every text, each of them is answered as if it measured the run itself   *)
(* (errors/redact.ts:250-287, 329-356). UrlsRedacted asks this of every    *)
(* text too.                                                               *)
THEOREM MemosChangeNothing == RedactionSpec => [](SharingChangesNothing(text.tokens))
<1>1. TextOK => SharingChangesNothing(text.tokens)
  BY NoTextTellsTheMemo DEF TextOK
<1> QED BY <1>1, TextsAreTexts, PTL

=============================================================================
