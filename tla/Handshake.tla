----------------------------- MODULE Handshake -----------------------------
(***************************************************************************)
(* How a Client or an AsyncClient comes to be: the transport is opened     *)
(* (client.rs, async_client.rs), TLS is negotiated (tls.rs), the startup   *)
(* message is answered by an authentication exchange (connection.rs,       *)
(* async_connection.rs, auth.rs), and a cancel later opens a connection of *)
(* its own.                                                                *)
(*                                                                         *)
(* The server is external: it answers with any message at any time, in     *)
(* pieces and as slowly as it likes.  Certificates, nonces and proofs are  *)
(* what the checks on them tell apart: fit or not.                         *)
(***************************************************************************)
EXTENDS Integers, Sequences, FiniteSets

CONSTANTS
    Budget,          \* connect_timeout, in ticks of the clock
    MaxMessages      \* bound: messages of the server in one startup

\* A Duration is never negative
ASSUME BudgetAssumption == Budget \in Nat

VARIABLES
    conf,            \* what the caller asked for
    phase,           \* the step of the connect
    cert,            \* the server's certificate: [chain, name]
    stream,          \* what carries the connection: "none", "plain", "tls"
    clock,           \* ticks since the negotiation began
    armed,           \* the read timeout of the socket; 0 for none
    authState,       \* auth_state: "none", "first" or "final"
    sent,            \* the frames the client sent in the startup
    keyData,         \* BackendKeyData was received
    received,        \* bound counter
    cancelStream     \* what carried the cancel: "none", "plain", "tls", "failed"

hsVars == <<conf, phase, cert, stream, clock, armed, authState, sent, keyData,
            received, cancelStream>>

SslModes == {"disable", "prefer", "require", "verifyCa", "verifyFull"}
Confs == [api : {"sync", "async"}, endpoint : {"tcp", "unix", "pipe"},
          mode : SslModes, roots : BOOLEAN, password : BOOLEAN, timeout : {0, Budget}]

HandshakeInit ==
    /\ conf \in Confs
    /\ cert \in [chain : BOOLEAN, name : BOOLEAN]
    /\ phase = "new"
    /\ stream = "none"
    /\ clock = 0
    /\ armed = 0
    /\ authState = "none"
    /\ sent = <<>>
    /\ keyData = FALSE
    /\ received = 0
    /\ cancelStream = "none"

Proceed(p) == phase' = p
FailConnect == Proceed("failed") /\ armed' = 0
auth == <<authState, sent, keyData, received>>

-----------------------------------------------------------------------------
(* Opening the transport.                                                  *)

\* TlsConnector::build: VerifyCa needs a root certificate
BuildConnector == conf.mode = "verifyCa" => conf.roots

\* reject_on_ipc
RejectOnIpc == conf.mode \notin {"disable", "prefer"}

Open(api) ==
    /\ phase = "new"
    /\ conf.api = api /\ conf.endpoint = "tcp"
    /\ \/ ~BuildConnector /\ Proceed("failed") /\ UNCHANGED stream
       \/ BuildConnector /\ Proceed("failed") /\ UNCHANGED stream
       \/ /\ BuildConnector
          /\ stream' = IF conf.mode = "disable" THEN "plain" ELSE "none"
          /\ Proceed(IF conf.mode = "disable" THEN "startup" ELSE "sslRequest")
    /\ UNCHANGED <<conf, cert, clock, armed, auth, cancelStream>>

Connect == Open("sync")
AsyncConnect == Open("async")

OpenIpc(endpoint, api) ==
    /\ phase = "new"
    /\ conf.endpoint = endpoint /\ conf.api = api
    /\ \/ Proceed("failed") /\ UNCHANGED stream
       \/ ~RejectOnIpc /\ Proceed("startup") /\ stream' = "plain"
    /\ UNCHANGED <<conf, cert, clock, armed, auth, cancelStream>>

ConnectUnix == OpenIpc("unix", "sync")
AsyncConnectUnix == OpenIpc("unix", "async")
ConnectNamedPipe == OpenIpc("pipe", "sync")
AsyncConnectNamedPipe == OpenIpc("pipe", "async")

\* connect_endpoint
ConnectEndpoint == Connect \/ ConnectUnix \/ ConnectNamedPipe
AsyncConnectEndpoint == AsyncConnect \/ AsyncConnectUnix \/ AsyncConnectNamedPipe

-----------------------------------------------------------------------------
(* SSLRequest and the TLS handshake.                                       *)

Fallback == IF conf.mode = "prefer" THEN "allowPlaintext" ELSE "deny"

\* Mutant: every read gets the whole timeout.
ArmsAfresh == armed' = conf.timeout

\* arm: the socket waits for what is left of the budget (0: no limit).  The
\* tokio timeout of negotiate_async bounds the same whole.
Arm == armed' = IF conf.timeout = 0 THEN 0 ELSE conf.timeout - clock

\* Time passes in a read; past the limit it fails with TimedOut.
Waits(n) == clock' = IF conf.timeout = 0 THEN clock ELSE clock + n
TimesOut ==
    /\ armed > 0
    /\ Waits(armed)
    /\ FailConnect
    /\ UNCHANGED <<conf, cert, stream, auth, cancelStream>>
InTime(n) == n = 0 \/ (conf.timeout > 0 /\ n < armed)

\* The budget is spent before the read begins
BudgetSpent ==
    /\ phase \in {"sslRequest", "handshake"}
    /\ conf.timeout > 0 /\ clock >= conf.timeout
    /\ FailConnect
    /\ UNCHANGED <<conf, cert, stream, clock, auth, cancelStream>>

SendSslRequest ==
    /\ phase = "sslRequest"
    /\ conf.timeout = 0 \/ clock < conf.timeout
    /\ Arm
    /\ Proceed("sslReply")
    /\ UNCHANGED <<conf, cert, stream, clock, auth, cancelStream>>

\* Mutant: the plaintext branch returns the socket as it is.
ReplyKeepsTimeout ==
    /\ phase = "sslReply"
    /\ \E n \in 0 .. Budget :
         /\ InTime(n) /\ Waits(n)
         /\ \/ Proceed("handshake") /\ UNCHANGED <<armed, stream>>
            \/ Fallback = "allowPlaintext" /\ Proceed("startup") /\ stream' = "plain"
                 /\ UNCHANGED armed
            \/ FailConnect /\ UNCHANGED stream
    /\ UNCHANGED <<conf, cert, auth, cancelStream>>

\* 'S', 'N', or anything else
ReadSslReply ==
    /\ phase = "sslReply"
    /\ \E n \in 0 .. Budget :
         /\ InTime(n) /\ Waits(n)
         /\ \/ Proceed("handshake") /\ UNCHANGED <<armed, stream>>
            \/ Fallback = "allowPlaintext" /\ Proceed("startup") /\ stream' = "plain"
                 /\ armed' = 0
            \/ FailConnect /\ UNCHANGED stream
    /\ UNCHANGED <<conf, cert, auth, cancelStream>>

\* The verifier that the mode and the root certificate select
CertificateFits ==
    CASE conf.mode \in {"prefer", "require"} /\ ~conf.roots -> TRUE
      [] conf.mode = "verifyFull" -> cert.chain /\ cert.name
      [] OTHER -> cert.chain

\* One round of the handshake loop: write what there is, or read
HandshakeRound ==
    /\ phase = "handshake"
    /\ conf.timeout = 0 \/ clock < conf.timeout
    /\ Arm
    /\ Proceed("handshakeRead")
    /\ UNCHANGED <<conf, cert, stream, clock, auth, cancelStream>>

\* A record arrives: more to come, the end of the handshake, an alert or an
\* early close
HandshakeRead ==
    /\ phase = "handshakeRead"
    /\ \E n \in 0 .. Budget :
         /\ InTime(n) /\ Waits(n)
         /\ \/ Proceed("handshake") /\ UNCHANGED <<armed, stream>>
            \/ CertificateFits /\ Proceed("startup") /\ stream' = "tls" /\ armed' = 0
            \/ FailConnect /\ UNCHANGED stream
    /\ UNCHANGED <<conf, cert, auth, cancelStream>>

NegotiationTimesOut ==
    /\ phase \in {"sslReply", "handshakeRead"}
    /\ TimesOut

-----------------------------------------------------------------------------
(* startup: the loop over the server's messages.                           *)

Sends(frame) == sent' = Append(sent, frame)

StartupMessage ==
    /\ phase = "startup"
    /\ Sends("startup")
    /\ Proceed("auth")
    /\ UNCHANGED <<conf, cert, stream, clock, armed, authState, keyData, received,
                   cancelStream>>

Message ==
    /\ phase = "auth"
    /\ received < MaxMessages
    /\ received' = received + 1
    /\ UNCHANGED <<conf, cert, stream, clock, armed, cancelStream>>

Refused == Proceed("failed") /\ UNCHANGED <<authState, sent, keyData>>
Accepted == UNCHANGED <<phase, keyData>>

AuthenticationOk == Message /\ Accepted /\ UNCHANGED <<authState, sent>>

\* AuthenticationCleartextPassword, AuthenticationMd5Password (compute_md5_password)
AuthenticationPassword ==
    /\ Message
    /\ \/ conf.password /\ Accepted /\ Sends("password") /\ UNCHANGED authState
       \/ ~conf.password /\ Refused

\* scram_client_first never fails
ScramClientFirst == Sends("clientFirst") /\ authState' = "first"

\* A mechanism that is not SCRAM-SHA-256 is refused
AuthenticationSasl ==
    /\ Message
    /\ \/ conf.password /\ Accepted /\ ScramClientFirst
       \/ Refused

\* scram_client_final: the fields and the nonce of the server-first message are
\* checked.  A state that already went through is taken as it is.
ScramClientFinal(fits) == authState \in {"first", "final"} /\ fits

AuthenticationSaslContinue ==
    /\ Message
    /\ \E fits \in BOOLEAN :
         \/ ScramClientFinal(fits) /\ Accepted /\ Sends("clientFinal")
              /\ authState' = "final"
         \/ ~ScramClientFinal(fits) /\ Refused

\* scram_verify_server: needs the key that scram_client_final left in the state
ScramVerifyServer(fits) == authState = "final" /\ fits

AuthenticationSaslFinal ==
    /\ Message
    /\ \E fits \in BOOLEAN :
         \/ ScramVerifyServer(fits) /\ Accepted /\ authState' = "none" /\ UNCHANGED sent
         \/ ~ScramVerifyServer(fits) /\ Refused

BackendKeyData == /\ Message
                  /\ keyData' = TRUE
                  /\ UNCHANGED <<phase, authState, sent>>
ParameterStatus == Message /\ Accepted /\ UNCHANGED <<authState, sent>>

ReadyForQuery ==
    /\ Message
    /\ Proceed("established")
    /\ UNCHANGED <<authState, sent, keyData>>

\* ErrorResponse, a message that has no place here, or a lost connection
StartupFails ==
    /\ phase = "auth"
    /\ Proceed("failed")
    /\ UNCHANGED <<conf, cert, stream, clock, armed, auth, cancelStream>>

Startup ==
    \/ StartupMessage \/ AuthenticationOk \/ AuthenticationPassword
    \/ AuthenticationSasl \/ AuthenticationSaslContinue \/ AuthenticationSaslFinal
    \/ BackendKeyData \/ ParameterStatus \/ ReadyForQuery \/ StartupFails

-----------------------------------------------------------------------------
(* A cancel of the established client.                                     *)

\* Mutant: the cancel falls back as the connect did.
CancelFallsBack(api) ==
    /\ phase = "established"
    /\ conf.api = api
    /\ cancelStream = "none"
    /\ \/ stream = "plain" /\ cancelStream' \in {"plain", "failed"}
       \/ stream = "tls" /\ cancelStream' \in {"tls", "plain", "failed"}
    /\ UNCHANGED <<conf, phase, cert, stream, clock, armed, auth>>

\* The cancel request goes over a connection of its own, and over TLS, with no
\* fallback, exactly when the client does.
CancelOver(api) ==
    /\ phase = "established"
    /\ conf.api = api
    /\ cancelStream = "none"
    /\ cancelStream' \in {IF stream = "tls" /\ ~CertificateFits THEN "failed" ELSE stream,
                          "failed"}
    /\ UNCHANGED <<conf, phase, cert, stream, clock, armed, auth>>

SendCancelSync == CancelOver("sync")
SendCancelAsync == CancelOver("async")

Done == phase \in {"failed", "established"} /\ UNCHANGED hsVars

HandshakeNext ==
    \/ ConnectEndpoint \/ AsyncConnectEndpoint
    \/ SendSslRequest \/ ReadSslReply \/ HandshakeRound \/ HandshakeRead
    \/ BudgetSpent \/ NegotiationTimesOut
    \/ Startup
    \/ SendCancelSync \/ SendCancelAsync
    \/ Done
    \/ received = MaxMessages /\ UNCHANGED hsVars

HandshakeSpec == HandshakeInit /\ [][HandshakeNext]_hsVars

-----------------------------------------------------------------------------
\* However slowly the server feeds the negotiation, byte by byte or record by
\* record, all of its reads together take no longer than connect_timeout.
NegotiationWithinBudget == conf.timeout > 0 => clock <= conf.timeout

\* The timeout is the negotiation's: no path leaves it on the socket, where it
\* would fail the first query that takes longer.
TimeoutIsCleared == phase \in {"startup", "auth", "established"} => armed = 0

\* What an established client runs over is what its mode promises, whichever
\* way the negotiation went, and its cancel runs over the same.
CarriesWhatWasAsked ==
    /\ stream = "plain" => conf.mode \in {"disable", "prefer"}
    /\ stream = "tls" => CertificateFits
    /\ cancelStream \in {"none", "failed", stream}

\* However slowly the server answers, the negotiation ends within its budget and
\* leaves no timeout behind, and every connection opened, a cancel's too, has the
\* protection the caller asked for.
ConnectIsSound == NegotiationWithinBudget /\ TimeoutIsCleared /\ CarriesWhatWasAsked
=============================================================================
