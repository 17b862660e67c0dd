------------------------------ MODULE Control ------------------------------
(***************************************************************************)
(* The control channel between `vbox-client ctl` and vbox-controld: how    *)
(* the daemon is installed, with TLS or with a token, and what makes it    *)
(* accept a call.  The code is in controld's main.rs and tls.rs, the       *)
(* client's ctl/ and the controld-install commands of runtime.rs.          *)
(*                                                                         *)
(* Every .pem is a file of its own.  Key pairs are numbered; a certificate *)
(* names its own pair and the pair that has signed it, a key file its      *)
(* pair.  A write that fails or is killed leaves the file as it was, cut   *)
(* or complete.                                                            *)
(***************************************************************************)
EXTENDS Cli

VARIABLES
    tls,      \* the host's tls directory
    guest,    \* what scp has copied of it to the guest
    minted,   \* how many key pairs there have been
    secret,   \* the guest's token file: 0 or the token
    token,    \* the host's copy, which VBOX_CONTROL_TOKEN_FILE names
    daemon    \* vbox-controld: its mode and the certificates it has loaded

controlVars == <<tls, guest, minted, secret, token, daemon>>
tlsFiles == <<tls, guest, minted>>

Cert(by, pair) == [by |-> by, pair |-> pair]
Key(pair) == Cert(0, pair)
NoFile == Cert(0, 0)
Cut == Cert(-1, -1)

(* ca.pem, ca.key.pem, server.pem, server.key.pem, client.pem,             *)
(* client.key.pem; a step that writes a file has the name of its field.    *)
NoFiles ==
    [ca |-> NoFile, key |-> NoFile, server |-> NoFile, serverkey |-> NoFile,
     client |-> NoFile, clientkey |-> NoFile]
Sent == <<"server", "serverkey", "ca">>

\* with_single_cert and with_client_auth_cert refuse another pair's key.
Match(cert, key) == key.pair > 0 /\ cert.pair = key.pair

(* The daemon: "failing" while systemd restarts it every two seconds       *)
(* because it cannot load its certificates.  The unit on disk is what it   *)
(* will be restarted with.                                                 *)
Daemon(mode, unit, server, ca) == [mode |-> mode, unit |-> unit, server |-> server, ca |-> ca]
Down == Daemon("down", "none", NoFile, NoFile)
Plain == Daemon("plain", "plain", NoFile, NoFile)
WithTls ==
    IF Match(guest.server, guest.serverkey) /\ guest.ca.pair > 0
    THEN Daemon("tls", "tls", guest.server, guest.ca)
    ELSE Daemon("failing", "tls", NoFile, NoFile)

\* main: TLS first, then ensure_token, which keeps the token it finds.
Boot(new) ==
    /\ daemon' = new
    /\ secret' = IF new.mode \in {"plain", "tls"} THEN 1 ELSE secret

\* What Restart=always starts: the unit that is there, with the guest's files.
Restarted ==
    CASE daemon.unit = "plain" -> Plain
      [] daemon.unit = "tls" -> WithTls
      [] OTHER -> Down

-----------------------------------------------------------------------------
(* A call.  The client uses TLS when the host has the three files, be they *)
(* right or not.                                                           *)

add_default_tls_env == NoFile \notin {tls.ca, tls.client, tls.clientkey}

(* Each side checks the other's certificate against its own CA; a TLS      *)
(* client and a plain daemon do not understand each other.                 *)
Handshake ==
    \/ ~add_default_tls_env /\ daemon.mode = "plain"
    \/ /\ add_default_tls_env /\ daemon.mode = "tls"
       /\ Match(tls.client, tls.clientkey)
       /\ daemon.server.by = tls.ca.pair /\ tls.client.by = daemon.ca.pair

load_token == token # 0
authenticate == token = secret

(* Before it has authenticated, a session may only do that.                *)
dispatch(method, authenticated) == method = "Authenticate" \/ authenticated

(* The hello, the token unless there is TLS, one request.                  *)
handle_session(method) ==
    /\ Handshake
    /\ dispatch(method, daemon.mode = "tls" \/ (load_token /\ authenticate))

-----------------------------------------------------------------------------
(* ctl tls-bootstrap: a CA unless there is one, two certificates from it.  *)

WritePem(t, field, pem) ==
    \/ Go(t) /\ tls' = [tls EXCEPT ![field] = pem]
    \/ Bail(t) /\ \E left \in {tls[field], Cut, pem} : tls' = [tls EXCEPT ![field] = left]

Mint(t) ==
    /\ minted' = minted + 1 /\ loc' = [loc EXCEPT ![t].ca = minted + 1]
    /\ WritePem(t, "ca", Cert(minted + 1, minted + 1))

\* Mutant: each time there is a new CA.
tls_bootstrap_anew(t) ==
    /\ At(t, "ca") /\ Mint(t)
    /\ UNCHANGED <<mem, file, tmp, others, guest, secret, token, daemon>>

\* tls_bootstrap: the CA is kept if both its files are there, and the command
\* fails if one of them cannot be parsed.
tls_bootstrap(t) ==
    /\ At(t, "ca")
    /\ \/ NoFile \in {tls.ca, tls.key} /\ Mint(t)
       \/ /\ NoFile \notin {tls.ca, tls.key} /\ Cut \notin {tls.ca, tls.key} /\ Skip(t, 2)
          /\ loc' = [loc EXCEPT ![t].ca = tls.key.pair] /\ UNCHANGED <<tls, minted>>
       \/ NoFile \notin {tls.ca, tls.key} /\ Bail(t) /\ UNCHANGED <<loc, tls, minted>>
    /\ UNCHANGED <<mem, file, tmp, others, guest, secret, token, daemon>>

\* KeyPair::generate, signed_by, and the write of the certificate.
WriteCert(t, leaf) ==
    /\ At(t, leaf) /\ minted' = minted + 1 /\ loc' = [loc EXCEPT ![t].pair = minted + 1]
    /\ WritePem(t, leaf, Cert(loc[t].ca, minted + 1))
    /\ UNCHANGED <<mem, file, tmp, others, guest, secret, token, daemon>>

\* Mutant: a key file that is there is kept.
write_secret_once(t, field) ==
    /\ At(t, field)
    /\ IF tls[field] # NoFile THEN Go(t) /\ UNCHANGED tls
       ELSE WritePem(t, field, Key(IF field = "key" THEN loc[t].ca ELSE loc[t].pair))
    /\ UNCHANGED <<loc, mem, file, tmp, others, guest, minted, secret, token, daemon>>

\* write_secret: the key of the CA or of the last certificate, then its mode.
write_secret(t, field) ==
    /\ At(t, field)
    /\ WritePem(t, field, Key(IF field = "key" THEN loc[t].ca ELSE loc[t].pair))
    /\ UNCHANGED <<loc, mem, file, tmp, others, guest, minted, secret, token, daemon>>

-----------------------------------------------------------------------------
(* controld-install and controld-uninstall, over ssh.                      *)

\* The guest's files when n of them have been copied, and the next one in part.
Copied(n) == [f \in DOMAIN guest |-> IF \E k \in 1 .. n : Sent[k] = f THEN tls[f] ELSE guest[f]]
CutShort(n) == IF n < Len(Sent) THEN [Copied(n) EXCEPT ![Sent[n + 1]] = Cut] ELSE Copied(n)

\* mkdir, then scp, which stops where the connection is lost.
CopyTls(t) ==
    /\ At(t, "scp")
    /\ \/ Go(t) /\ guest' = Copied(Len(Sent))
       \/ Bail(t) /\ \E n \in 0 .. Len(Sent) : guest' \in {Copied(n), CutShort(n)}
    /\ UNCHANGED <<loc, mem, file, tmp, others, tls, minted, secret, token, daemon>>

\* The daemon is killed, the unit rewritten and restarted (KillMode=process:
\* servers and apps stay).  A script that is cut off may leave the new daemon,
\* or the old one, the old unit restarted or no daemon, with either unit.
controld_install(t) ==
    /\ \E s \in {"install-plain", "install-tls"} :
          /\ At(t, s)
          /\ LET new == IF s = "install-tls" THEN WithTls ELSE Plain
             IN \/ Go(t) /\ Boot(new)
                \/ Bail(t) /\ Boot(new)
                \/ Bail(t) /\ \E d \in {daemon, Restarted, Down}, unit \in {daemon.unit, new.unit} :
                                 Boot(Daemon(d.mode, unit, d.server, d.ca))
    /\ UNCHANGED <<loc, mem, file, tmp, others, tlsFiles, token>>

fetch_control_token(t) ==
    /\ At(t, "token")
    /\ \/ Go(t) /\ token' = secret
       \/ Bail(t) /\ UNCHANGED token
    /\ UNCHANGED <<loc, mem, file, tmp, others, tlsFiles, secret, daemon>>

controld_uninstall(t) ==
    /\ At(t, "uninstall") /\ Run(t) /\ daemon' \in {daemon, Down}
    /\ UNCHANGED <<loc, mem, file, tmp, others, tlsFiles, secret, token>>

\* The daemon has crashed or the guest's session has begun anew.
DaemonRestarts ==
    /\ Boot(Restarted)
    /\ UNCHANGED <<cliVars, tlsFiles, token>>

bootstrap == <<"ca", "key", "server", "serverkey", "client", "clientkey">>
install_with_tls == <<"build">> \o bootstrap \o <<"scp", "install-tls", "token">>
install_plain == <<"build", "install-plain", "token">>

ControlStep(t) ==
    \/ tls_bootstrap(t) \/ \E leaf \in {"server", "client"} : WriteCert(t, leaf)
    \/ \E field \in {"key", "serverkey", "clientkey"} : write_secret(t, field)
    \/ CopyTls(t) \/ controld_install(t) \/ fetch_control_token(t) \/ controld_uninstall(t)

(* A guest on which nothing has run yet, or a daemon with a token.         *)
ControlInit(fresh) ==
    /\ tls = NoFiles /\ guest = [f \in {"server", "serverkey", "ca"} |-> NoFile] /\ minted = 0
    /\ secret = IF fresh THEN 0 ELSE 1
    /\ token = secret /\ daemon = IF fresh THEN Down ELSE Plain
=============================================================================
