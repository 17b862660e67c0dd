--------------------------- MODULE CommandsProofs ---------------------------
(***************************************************************************)
(* The invariants of Commands, for any number of processes, instances,     *)
(* machines and apps, any commands in any order and any number of faults.  *)
(*                                                                         *)
(* A command is a list of steps, so the invariants go by what a thread has *)
(* still to do.  Only a few commands have steps that touch the TLS files,  *)
(* the stores of the machines or the source of vbox.app; Formed says which *)
(* steps there are, Solo that at most one thread has such steps to take    *)
(* while commands have not overlapped.  Keyed, Built and Kept say, for     *)
(* each list of such steps, what holds when it is reached.                 *)
(*                                                                         *)
(* The commands on an instance have many lists of steps, which are not     *)
(* listed one by one: Fit says in which order the steps come in each, and  *)
(* Situated that a command is about an instance.  OwnServers says who      *)
(* answers to a command that has started its server, Tidy who has the pid  *)
(* of a process that runs and what `stop` has ended.                       *)
(***************************************************************************)
EXTENDS Commands, SequenceTheorems, TLAPS

-----------------------------------------------------------------------------
(* What a thread has still to do.                                          *)

\* The steps that touch what the invariants are about.
KeySteps == {"ca", "key", "server", "serverkey", "client", "clientkey", "scp", "install-tls"}
SwiftSteps == {"swift", "swiftc"}
StoreSteps ==
    {"find", "keychain.set", "keychain.delete", "forget", "load", "load-overrides",
     "save", "save-overrides", "start-vm", "stop-vm", "delete-vm"} \cup Edits
Marked == KeySteps \cup SwiftSteps \cup StoreSteps
\* All the others, and the ones with which a command that has marked steps
\* may begin.
Early == {"build", "cache", "try-cache", "resources"}
Usual ==
    {"ports", "ports.write", "ports.rename", "control", "tunnel", "viewer",
     "pid.viewer", "pid.tunnel", "pid.control", "kill.viewer", "kill.tunnel",
     "kill.control", "kill.own", "readviewer", "waitviewer", "start", "ping", "count",
     "socket", "launch", "stop", "ctl-status", "keep", "view", "app-id", "row",
     "install-plain", "token", "uninstall", "refresh", "rows", "icons", "try-icons",
     "bundle", "bundle.app", "bundle.context", "unbundle", "sign", "open", "exit"} \cup Early
Words == Usual \cup Marked

\* The rest of controld-install with TLS and of tls-bootstrap.
KeyLists ==
    { <<"build", "ca", "key", "server", "serverkey", "client", "clientkey", "scp", "install-tls", "token", "exit">>,
      <<"ca", "key", "server", "serverkey", "client", "clientkey", "scp", "install-tls", "token", "exit">>,
      <<"key", "server", "serverkey", "client", "clientkey", "scp", "install-tls", "token", "exit">>,
      <<"server", "serverkey", "client", "clientkey", "scp", "install-tls", "token", "exit">>,
      <<"serverkey", "client", "clientkey", "scp", "install-tls", "token", "exit">>,
      <<"client", "clientkey", "scp", "install-tls", "token", "exit">>,
      <<"clientkey", "scp", "install-tls", "token", "exit">>,
      <<"scp", "install-tls", "token", "exit">>,
      <<"install-tls", "token", "exit">>,
      <<"ca", "key", "server", "serverkey", "client", "clientkey", "exit">>,
      <<"key", "server", "serverkey", "client", "clientkey", "exit">>,
      <<"server", "serverkey", "client", "clientkey", "exit">>,
      <<"serverkey", "client", "clientkey", "exit">>,
      <<"client", "clientkey", "exit">>,
      <<"clientkey", "exit">> }

\* The rest of library-ui and of install-apps.
SwiftLists ==
    { <<"try-cache", "resources", "swift", "swiftc", "sign", "open", "exit">>,
      <<"resources", "swift", "swiftc", "sign", "open", "exit">>,
      <<"swift", "swiftc", "sign", "open", "exit">>,
      <<"swiftc", "sign", "open", "exit">>,
      <<"cache", "build", "resources", "swift", "swiftc", "sign", "try-icons", "rows", "bundle", "exit">>,
      <<"build", "resources", "swift", "swiftc", "sign", "try-icons", "rows", "bundle", "exit">>,
      <<"resources", "swift", "swiftc", "sign", "try-icons", "rows", "bundle", "exit">>,
      <<"swift", "swiftc", "sign", "try-icons", "rows", "bundle", "exit">>,
      <<"swiftc", "sign", "try-icons", "rows", "bundle", "exit">> }

\* The rest of a command on machines that edits a store, by the edit.
ToLoad(e) == <<"load", e, "save", "exit">>
ToEdit(e) == <<e, "save", "exit">>
ToSave == <<"save", "exit">>
\* Of one that removes a remote host.
ToLoadDrop == <<"load", "drop", "save", "forget", "exit">>
ToDrop == <<"drop", "save", "forget", "exit">>
ToSaveDrop == <<"save", "forget", "exit">>
ToForget == <<"forget", "exit">>
\* Of one that edits the overrides.
ToLoadOverrides(e) == <<"load-overrides", e, "save-overrides", "exit">>
ToEditOverrides(e) == <<e, "save-overrides", "exit">>
ToSaveOverrides == <<"save-overrides", "exit">>
\* What comes before.
ToSet(e) == <<"keychain.set", "load", e, "save", "exit">>
ToDelete(e) == <<"keychain.delete", "load", e, "save", "exit">>
ToDeleteVm == <<"delete-vm", "load", "drop", "save", "exit">>
ToControl(s) == <<s, "exit">>
ToFindVm == <<"find", "delete-vm", "load", "drop", "save", "exit">>
ToFind ==
    { <<"find", "keychain.set", "load", "mark", "save", "exit">>,
      <<"find", "keychain.delete", "load", "unmark", "save", "exit">>,
      <<"find", "load", "drop", "save", "forget", "exit">>,
      ToFindVm,
      <<"find", "load-overrides", "set-key", "save-overrides", "exit">>,
      <<"find", "load-overrides", "unset-key", "save-overrides", "exit">>,
      <<"find", "start-vm", "exit">>, <<"find", "stop-vm", "exit">>, <<"find", "exit">> }

StoreEdits == {"put-plain", "put-password", "mark", "unmark", "drop"}

-----------------------------------------------------------------------------
(* The inductive invariant.                                                *)

Sides == Procs \X {2}
Stores == {"ports", "remotes", "machines"}
Fields == {"inst", "port", "pid", "ca", "pair", "flag", "rows"}

Formed ==
    /\ todo \in [Threads -> Seq(Words)] /\ \A t \in Sides : todo[t] \in Seq(Usual)
    /\ DOMAIN loc = Threads /\ \A t \in Threads : DOMAIN loc[t] = Fields
    /\ DOMAIN mem = Threads /\ DOMAIN file = Stores /\ DOMAIN tmp = Stores

\* Commands run one at a time: at most one has marked steps to take.
Solo ==
    "overlap" \notin history =>
        \A t \in Threads : \A u \in Threads :
            todo[t] \notin Seq(Usual) /\ todo[u] \notin Seq(Usual) => t = u

Lined == Formed /\ Solo

\* The argument of a command on a machine is one, that of another an instance.
Arguments == \A c \in mix : c[2] \in IF c[1] \in HostCommands THEN Machines ELSE Insts

\* A file of the TLS directory: none, cut, a certificate or a key.
Pem == {NoFile, Cut} \cup [by: Nat, pair: Nat \ {0}]
Pems == {"ca", "key", "server", "serverkey", "client", "clientkey"}
K == tls.key.pair

\* All certificates are of the one CA whose key there is.
OneCa ==
    /\ tls \in [Pems -> Pem] /\ guest \in [{"server", "serverkey", "ca"} -> Pem] /\ minted \in Nat
    /\ K > 0 => tls.ca.pair = K
    /\ tls.server.pair > 0 => K > 0 /\ tls.server.by = K
    /\ tls.client.pair > 0 => K > 0 /\ tls.client.by = K
    /\ guest.server.pair > 0 => K > 0 /\ guest.server.by = K
    /\ guest.ca.pair > 0 => K > 0 /\ guest.ca.pair = K
    /\ daemon.mode = "tls" => K > 0 /\ daemon.server.by = K /\ daemon.ca.pair = K

\* How far a bootstrap has come.
CaAt(t) ==
    /\ At(t, "key") => loc[t].ca = tls.ca.pair /\ tls.ca.pair > 0 /\ ~(K > 0)
    /\ At(t, "server") => loc[t].ca = K /\ K > 0
    /\ At(t, "serverkey") => loc[t].ca = K /\ K > 0 /\ loc[t].pair \in Nat \ {0} /\ tls.server.pair = loc[t].pair
    /\ At(t, "client") => loc[t].ca = K /\ K > 0 /\ Match(tls.server, tls.serverkey)
    /\ At(t, "clientkey") => /\ loc[t].ca = K /\ K > 0 /\ Match(tls.server, tls.serverkey)
                             /\ loc[t].pair \in Nat \ {0} /\ tls.client.pair = loc[t].pair
    /\ At(t, "scp") => K > 0 /\ Match(tls.server, tls.serverkey) /\ Match(tls.client, tls.clientkey)
    /\ At(t, "install-tls") => /\ K > 0 /\ Match(guest.server, guest.serverkey) /\ guest.ca.pair = K
                               /\ Match(tls.client, tls.clientkey)

Keyed ==
    "overlap" \notin history =>
        /\ OneCa
        /\ \A t \in Threads :
              todo[t] \in Seq(Words \ KeySteps) \/ (todo[t] \in KeyLists /\ CaAt(t))

\* The binary is that of the source, except between the two steps that make
\* it so, where the flag tells whether the source is new.
Current == bin \in {0, src} /\ (bin = 0 => src = 0)
Built ==
    ~mixed /\ ~broken =>
        /\ \A t \in Threads : todo[t] \in Seq(Words \ SwiftSteps) \/ todo[t] \in SwiftLists
        /\ (\A t \in Threads : ~At(t, "swiftc")) => Current
        /\ \A t \in Threads : At(t, "swiftc") => loc[t].flag \/ bin \in {0, src}

Entry == {"absent", "plain", "password"}
StoreTypes ==
    /\ file["remotes"] \in [Remotes -> Entry] /\ file["machines"] \in [Machines -> Entry]
    /\ DOMAIN vm = Vms

\* The copy that is about to replace a store has another entry for one machine.
Replaces(f, m, e) == tmp[f] = <<[file[f] EXCEPT ![m] = e]>>

\* What an edit relies on: the password is stored before it is recorded.
Ready(m, e) == e \in {"put-password", "mark"} => m \in keychain

\* How far a command of thread t on machine m has come: it is before a
\* search, a change to the keychain or to prlctl's machines,
AtFind(t, m, s) == s \in ToFind /\ (s = ToFindVm => m \notin Remotes)
AtSet(t, m, s) == \E e \in {"put-password", "mark"} : s = ToSet(e)
AtDelete(t, m, s) == \E e \in {"put-plain", "unmark"} : s = ToDelete(e)
AtDeleteVm(t, m, s) == s = ToDeleteVm /\ m \notin Remotes
AtControl(t, m, s) == \E c \in {"start-vm", "stop-vm"} : s = ToControl(c)
\* in the middle of an edit of the store,
AtLoad(t, m, s) == \E e \in StoreEdits : s = ToLoad(e) /\ Ready(m, e)
AtEdit(t, m, s) == \E e \in StoreEdits : s = ToEdit(e) /\ Ready(m, e) /\ mem[t] = file[StoreOf(m)]
AtSave(t, m, s) ==
    s = ToSave /\ \E e \in Entry : Replaces(StoreOf(m), m, e) /\ (e = "password" => m \in keychain)
\* of the removal of a machine,
AtLoadDrop(t, m, s) == s = ToLoadDrop
AtDrop(t, m, s) == s = ToDrop /\ mem[t] = file[StoreOf(m)]
AtSaveDrop(t, m, s) == s = ToSaveDrop /\ Replaces(StoreOf(m), m, "absent")
AtForget(t, m, s) == s = ToForget
\* or of an edit of the overrides.
AtLoadOverrides(t, m, s) == \E e \in OfOverrides : s = ToLoadOverrides(e)
AtEditOverrides(t, m, s) == \E e \in OfOverrides : s = ToEditOverrides(e) /\ mem[t] = file["machines"]
AtSaveOverrides(t, m, s) ==
    /\ s = ToSaveOverrides
    /\ \E e \in Entry : Replaces("machines", m, e) /\ (e = "password" => file["machines"][m] = "password")

StoreAt(t, m, s) ==
    \/ AtFind(t, m, s) \/ AtSet(t, m, s) \/ AtDelete(t, m, s) \/ AtDeleteVm(t, m, s) \/ AtControl(t, m, s)
    \/ AtLoad(t, m, s) \/ AtEdit(t, m, s) \/ AtSave(t, m, s)
    \/ AtLoadDrop(t, m, s) \/ AtDrop(t, m, s) \/ AtSaveDrop(t, m, s) \/ AtForget(t, m, s)
    \/ AtLoadOverrides(t, m, s) \/ AtEditOverrides(t, m, s) \/ AtSaveOverrides(t, m, s)

Storeless(t) == todo[t] \in Seq(Words \ StoreSteps)
Kept ==
    "overlap" \notin history =>
        /\ StoreTypes
        /\ \A t \in Threads : Storeless(t) \/ (M(t) \in Machines /\ StoreAt(t, M(t), todo[t]))

-----------------------------------------------------------------------------
(* Lists of steps.                                                         *)

\* Two lists with the same steps are the same.
LEMMA SameList ==
    ASSUME NEW S, NEW s \in Seq(S), NEW r \in Seq(S), Len(s) = Len(r),
           \A i \in 1 .. Len(s) : s[i] = r[i]
    PROVE  s = r
  OBVIOUS

\* A list of some steps is one of more steps.
LEMMA MoreSteps ==
    ASSUME NEW S, NEW T, S \subseteq T, NEW s \in Seq(S)
    PROVE  s \in Seq(T)
  <1>1. Len(s) \in Nat /\ s = [i \in 1 .. Len(s) |-> s[i]] /\ \A i \in 1 .. Len(s) : s[i] \in T
    OBVIOUS
  <1> QED BY <1>1

\* What Go, Skip and Jump leave of a list.
LEMMA Rests ==
    ASSUME NEW S, NEW s \in Seq(S), s # <<>>
    PROVE  /\ Tail(s) \in Seq(S) /\ Head(s) \in S
           /\ SubSeq(s, 3, Len(s)) \in Seq(S) /\ SubSeq(s, 4, Len(s)) \in Seq(S)
           /\ \A r \in Seq(S) : r \o Tail(s) \in Seq(S)
  OBVIOUS

\* A marked step is not a usual one, and a step is marked for one reason.
LEMMA Kinds4 ==
    /\ KeySteps \cap Usual = {} /\ SwiftSteps \cap Usual = {} /\ StoreSteps \cap Usual = {}
    /\ KeySteps \cap SwiftSteps = {} /\ KeySteps \cap StoreSteps = {} /\ SwiftSteps \cap StoreSteps = {}
  <1>1. KeySteps \cap Usual = {}
    BY DEF KeySteps, Usual, Early
  <1>2. SwiftSteps \cap Usual = {}
    BY DEF SwiftSteps, Usual, Early
  <1>3. StoreSteps \cap Usual = {}
    BY DEF StoreSteps, Usual, Early, Edits
  <1>4. KeySteps \cap SwiftSteps = {} /\ KeySteps \cap StoreSteps = {} /\ SwiftSteps \cap StoreSteps = {}
    BY DEF KeySteps, SwiftSteps, StoreSteps, Edits
  <1> QED BY <1>1, <1>2, <1>3, <1>4

\* What is left when the marked steps are done.
LEMMA UsualEnds ==
    /\ <<>> \in Seq(Usual) /\ <<"exit">> \in Seq(Usual) /\ <<"token", "exit">> \in Seq(Usual)
    /\ <<"sign", "open", "exit">> \in Seq(Usual)
    /\ <<"sign", "try-icons", "rows", "bundle", "exit">> \in Seq(Usual)
  <1>1. /\ "exit" \in Usual /\ "token" \in Usual /\ "sign" \in Usual /\ "open" \in Usual
        /\ "try-icons" \in Usual /\ "rows" \in Usual /\ "bundle" \in Usual
    BY DEF Usual
  <1> QED BY <1>1

\* The list that follows one of a bootstrap.
KeyNext(s, r, q) ==
    /\ s # <<>> /\ Head(s) \in KeySteps \cup {"build"} /\ s \in Seq(Usual \cup KeySteps)
    /\ r \in KeyLists \/ r \in Seq(Usual)
    /\ Head(s) = "build" => Head(r) = "ca"
    /\ Head(s) = "ca" => /\ Head(r) = "key"
                         /\ q \in KeyLists /\ Head(q) = "server"
    /\ Head(s) = "key" => Head(r) = "server"
    /\ Head(s) = "server" => Head(r) = "serverkey"
    /\ Head(s) = "serverkey" => Head(r) = "client"
    /\ Head(s) = "client" => Head(r) = "clientkey"
    /\ Head(s) = "clientkey" => Head(r) \in {"scp", "exit"}
    /\ Head(s) = "scp" => Head(r) = "install-tls"
    /\ Head(s) = "install-tls" => Head(r) = "token"

\* Which is of a bootstrap again, or has only usual steps.
LEMMA KeyFollows ==
    ASSUME NEW s \in KeyLists, NEW r, NEW q, r = Tail(s), q = SubSeq(s, 3, Len(s))
    PROVE  KeyNext(s, r, q)
  <1>1. /\ "build" \in Usual /\ "token" \in Usual /\ "exit" \in Usual
    BY DEF Usual, Early
  <1>2. /\ "ca" \in KeySteps /\ "key" \in KeySteps /\ "server" \in KeySteps /\ "serverkey" \in KeySteps
        /\ "client" \in KeySteps /\ "clientkey" \in KeySteps /\ "scp" \in KeySteps /\ "install-tls" \in KeySteps
    BY DEF KeySteps
  <1> DEFINE S == Usual \cup KeySteps
  <1>3. /\ "build" \in S /\ "token" \in S /\ "exit" \in S
        /\ "ca" \in S /\ "key" \in S /\ "server" \in S /\ "serverkey" \in S
        /\ "client" \in S /\ "clientkey" \in S /\ "scp" \in S /\ "install-tls" \in S
    BY <1>1, <1>2
  <1> HIDE DEF S
  <1>4. CASE s = <<"build", "ca", "key", "server", "serverkey", "client", "clientkey", "scp", "install-tls", "token", "exit">>
    <2>1. s # <<>> /\ s \in Seq(S) /\ Head(s) = "build"
      BY <1>3, <1>4
    <2>5. r = <<"ca", "key", "server", "serverkey", "client", "clientkey", "scp", "install-tls", "token", "exit">>
      BY <1>4
    <2>2. Head(r) = "ca"
      BY <1>4
    <2>3. r \in KeyLists
      BY <2>5 DEF KeyLists
    <2> QED BY <1>2, <2>1, <2>2, <2>3 DEF KeyNext, S
  <1>5. CASE s = <<"ca", "key", "server", "serverkey", "client", "clientkey", "scp", "install-tls", "token", "exit">>
    <2>1. s # <<>> /\ s \in Seq(S) /\ Head(s) = "ca"
      BY <1>3, <1>5
    <2>5. r = <<"key", "server", "serverkey", "client", "clientkey", "scp", "install-tls", "token", "exit">>
      BY <1>5
    <2>2. Head(r) = "key"
      BY <1>5
    <2>3. r \in KeyLists
      BY <2>5 DEF KeyLists
    <2>4. /\ q \in KeyLists /\ Head(q) = "server"
      <3> DEFINE x == <<"server", "serverkey", "client", "clientkey", "scp", "install-tls", "token", "exit">>
      <3>1. /\ q \in Seq(S) /\ x \in Seq(S) /\ Len(q) = 8 /\ Len(x) = 8
            /\ \A i \in 1 .. 8 : q[i] = x[i]
        BY <1>3, <1>5
      <3> HIDE DEF x
      <3>2. q = x
        BY <3>1, SameList
      <3>3. x \in KeyLists /\ Head(x) = "server"
        BY DEF x, KeyLists
      <3> QED BY <3>2, <3>3
    <2> QED BY <1>2, <2>1, <2>2, <2>3, <2>4 DEF KeyNext, S
  <1>6. CASE s = <<"key", "server", "serverkey", "client", "clientkey", "scp", "install-tls", "token", "exit">>
    <2>1. s # <<>> /\ s \in Seq(S) /\ Head(s) = "key"
      BY <1>3, <1>6
    <2>5. r = <<"server", "serverkey", "client", "clientkey", "scp", "install-tls", "token", "exit">>
      BY <1>6
    <2>2. Head(r) = "server"
      BY <1>6
    <2>3. r \in KeyLists
      BY <2>5 DEF KeyLists
    <2> QED BY <1>2, <2>1, <2>2, <2>3 DEF KeyNext, S
  <1>7. CASE s = <<"server", "serverkey", "client", "clientkey", "scp", "install-tls", "token", "exit">>
    <2>1. s # <<>> /\ s \in Seq(S) /\ Head(s) = "server"
      BY <1>3, <1>7
    <2>5. r = <<"serverkey", "client", "clientkey", "scp", "install-tls", "token", "exit">>
      BY <1>7
    <2>2. Head(r) = "serverkey"
      BY <1>7
    <2>3. r \in KeyLists
      BY <2>5 DEF KeyLists
    <2> QED BY <1>2, <2>1, <2>2, <2>3 DEF KeyNext, S
  <1>8. CASE s = <<"serverkey", "client", "clientkey", "scp", "install-tls", "token", "exit">>
    <2>1. s # <<>> /\ s \in Seq(S) /\ Head(s) = "serverkey"
      BY <1>3, <1>8
    <2>5. r = <<"client", "clientkey", "scp", "install-tls", "token", "exit">>
      BY <1>8
    <2>2. Head(r) = "client"
      BY <1>8
    <2>3. r \in KeyLists
      BY <2>5 DEF KeyLists
    <2> QED BY <1>2, <2>1, <2>2, <2>3 DEF KeyNext, S
  <1>9. CASE s = <<"client", "clientkey", "scp", "install-tls", "token", "exit">>
    <2>1. s # <<>> /\ s \in Seq(S) /\ Head(s) = "client"
      BY <1>3, <1>9
    <2>5. r = <<"clientkey", "scp", "install-tls", "token", "exit">>
      BY <1>9
    <2>2. Head(r) = "clientkey"
      BY <1>9
    <2>3. r \in KeyLists
      BY <2>5 DEF KeyLists
    <2> QED BY <1>2, <2>1, <2>2, <2>3 DEF KeyNext, S
  <1>10. CASE s = <<"clientkey", "scp", "install-tls", "token", "exit">>
    <2>1. s # <<>> /\ s \in Seq(S) /\ Head(s) = "clientkey"
      BY <1>3, <1>10
    <2>5. r = <<"scp", "install-tls", "token", "exit">>
      BY <1>10
    <2>2. Head(r) = "scp"
      BY <1>10
    <2>3. r \in KeyLists
      BY <2>5 DEF KeyLists
    <2> QED BY <1>2, <2>1, <2>2, <2>3 DEF KeyNext, S
  <1>11. CASE s = <<"scp", "install-tls", "token", "exit">>
    <2>1. s # <<>> /\ s \in Seq(S) /\ Head(s) = "scp"
      BY <1>3, <1>11
    <2>5. r = <<"install-tls", "token", "exit">>
      BY <1>11
    <2>2. Head(r) = "install-tls"
      BY <1>11
    <2>3. r \in KeyLists
      BY <2>5 DEF KeyLists
    <2> QED BY <1>2, <2>1, <2>2, <2>3 DEF KeyNext, S
  <1>12. CASE s = <<"install-tls", "token", "exit">>
    <2>1. s # <<>> /\ s \in Seq(S) /\ Head(s) = "install-tls"
      BY <1>3, <1>12
    <2>5. r = <<"token", "exit">>
      BY <1>12
    <2>2. Head(r) = "token"
      BY <1>12
    <2>3. r \in Seq(Usual)
      BY <2>5, UsualEnds
    <2> QED BY <1>2, <2>1, <2>2, <2>3 DEF KeyNext, S
  <1>13. CASE s = <<"ca", "key", "server", "serverkey", "client", "clientkey", "exit">>
    <2>1. s # <<>> /\ s \in Seq(S) /\ Head(s) = "ca"
      BY <1>3, <1>13
    <2>5. r = <<"key", "server", "serverkey", "client", "clientkey", "exit">>
      BY <1>13
    <2>2. Head(r) = "key"
      BY <1>13
    <2>3. r \in KeyLists
      BY <2>5 DEF KeyLists
    <2>4. /\ q \in KeyLists /\ Head(q) = "server"
      <3> DEFINE x == <<"server", "serverkey", "client", "clientkey", "exit">>
      <3>1. /\ q \in Seq(S) /\ x \in Seq(S) /\ Len(q) = 5 /\ Len(x) = 5
            /\ \A i \in 1 .. 5 : q[i] = x[i]
        BY <1>3, <1>13
      <3> HIDE DEF x
      <3>2. q = x
        BY <3>1, SameList
      <3>3. x \in KeyLists /\ Head(x) = "server"
        BY DEF x, KeyLists
      <3> QED BY <3>2, <3>3
    <2> QED BY <1>2, <2>1, <2>2, <2>3, <2>4 DEF KeyNext, S
  <1>14. CASE s = <<"key", "server", "serverkey", "client", "clientkey", "exit">>
    <2>1. s # <<>> /\ s \in Seq(S) /\ Head(s) = "key"
      BY <1>3, <1>14
    <2>5. r = <<"server", "serverkey", "client", "clientkey", "exit">>
      BY <1>14
    <2>2. Head(r) = "server"
      BY <1>14
    <2>3. r \in KeyLists
      BY <2>5 DEF KeyLists
    <2> QED BY <1>2, <2>1, <2>2, <2>3 DEF KeyNext, S
  <1>15. CASE s = <<"server", "serverkey", "client", "clientkey", "exit">>
    <2>1. s # <<>> /\ s \in Seq(S) /\ Head(s) = "server"
      BY <1>3, <1>15
    <2>5. r = <<"serverkey", "client", "clientkey", "exit">>
      BY <1>15
    <2>2. Head(r) = "serverkey"
      BY <1>15
    <2>3. r \in KeyLists
      BY <2>5 DEF KeyLists
    <2> QED BY <1>2, <2>1, <2>2, <2>3 DEF KeyNext, S
  <1>16. CASE s = <<"serverkey", "client", "clientkey", "exit">>
    <2>1. s # <<>> /\ s \in Seq(S) /\ Head(s) = "serverkey"
      BY <1>3, <1>16
    <2>5. r = <<"client", "clientkey", "exit">>
      BY <1>16
    <2>2. Head(r) = "client"
      BY <1>16
    <2>3. r \in KeyLists
      BY <2>5 DEF KeyLists
    <2> QED BY <1>2, <2>1, <2>2, <2>3 DEF KeyNext, S
  <1>17. CASE s = <<"client", "clientkey", "exit">>
    <2>1. s # <<>> /\ s \in Seq(S) /\ Head(s) = "client"
      BY <1>3, <1>17
    <2>5. r = <<"clientkey", "exit">>
      BY <1>17
    <2>2. Head(r) = "clientkey"
      BY <1>17
    <2>3. r \in KeyLists
      BY <2>5 DEF KeyLists
    <2> QED BY <1>2, <2>1, <2>2, <2>3 DEF KeyNext, S
  <1>18. CASE s = <<"clientkey", "exit">>
    <2>1. s # <<>> /\ s \in Seq(S) /\ Head(s) = "clientkey"
      BY <1>3, <1>18
    <2>5. r = <<"exit">>
      BY <1>18
    <2>2. Head(r) = "exit"
      BY <1>18
    <2>3. r \in Seq(Usual)
      BY <2>5, UsualEnds
    <2> QED BY <1>2, <2>1, <2>2, <2>3 DEF KeyNext, S
  <1> QED
    BY <1>4, <1>5, <1>6, <1>7, <1>8, <1>9, <1>10, <1>11, <1>12, <1>13, <1>14, <1>15, <1>16, <1>17, <1>18 DEF KeyLists

\* The list that follows one that compiles vbox.app.
SwiftNext(s, r) ==
    /\ s # <<>> /\ Head(s) \in SwiftSteps \cup Early /\ s \in Seq(Usual \cup SwiftSteps)
    /\ Head(s) = "swiftc" => r \in Seq(Usual)
    /\ Head(s) # "swiftc" => r \in SwiftLists
    /\ Head(s) = "swift" <=> Head(r) = "swiftc"

\* Which compiles it again, or has only usual steps.
LEMMA SwiftFollows ==
    ASSUME NEW s \in SwiftLists, NEW r, r = Tail(s)
    PROVE  SwiftNext(s, r)
  <1> DEFINE S == Usual \cup SwiftSteps
             H == SwiftSteps \cup Early
  <1>1. /\ "try-cache" \in S /\ "cache" \in S /\ "build" \in S /\ "resources" \in S
        /\ "sign" \in S /\ "open" \in S /\ "try-icons" \in S /\ "rows" \in S
        /\ "bundle" \in S /\ "exit" \in S
    BY DEF Usual, Early
  <1>2. "swift" \in S /\ "swiftc" \in S
    BY DEF SwiftSteps
  <1>3. /\ "try-cache" \in H /\ "cache" \in H /\ "build" \in H /\ "resources" \in H
        /\ "swift" \in H /\ "swiftc" \in H
    BY DEF Early, SwiftSteps
  <1> HIDE DEF S, H
  <1>4. CASE s = <<"try-cache", "resources", "swift", "swiftc", "sign", "open", "exit">>
    <2>1. s # <<>> /\ s \in Seq(S) /\ Head(s) = "try-cache"
      BY <1>1, <1>2, <1>4
    <2>5. r = <<"resources", "swift", "swiftc", "sign", "open", "exit">>
      BY <1>4
    <2>2. Head(r) = "resources"
      BY <1>4
    <2>3. r \in SwiftLists
      BY <2>5 DEF SwiftLists
    <2> QED BY <1>3, <2>1, <2>2, <2>3 DEF SwiftNext, S, H
  <1>5. CASE s = <<"resources", "swift", "swiftc", "sign", "open", "exit">>
    <2>1. s # <<>> /\ s \in Seq(S) /\ Head(s) = "resources"
      BY <1>1, <1>2, <1>5
    <2>5. r = <<"swift", "swiftc", "sign", "open", "exit">>
      BY <1>5
    <2>2. Head(r) = "swift"
      BY <1>5
    <2>3. r \in SwiftLists
      BY <2>5 DEF SwiftLists
    <2> QED BY <1>3, <2>1, <2>2, <2>3 DEF SwiftNext, S, H
  <1>6. CASE s = <<"swift", "swiftc", "sign", "open", "exit">>
    <2>1. s # <<>> /\ s \in Seq(S) /\ Head(s) = "swift"
      BY <1>1, <1>2, <1>6
    <2>5. r = <<"swiftc", "sign", "open", "exit">>
      BY <1>6
    <2>2. Head(r) = "swiftc"
      BY <1>6
    <2>3. r \in SwiftLists
      BY <2>5 DEF SwiftLists
    <2> QED BY <1>3, <2>1, <2>2, <2>3 DEF SwiftNext, S, H
  <1>7. CASE s = <<"swiftc", "sign", "open", "exit">>
    <2>1. s # <<>> /\ s \in Seq(S) /\ Head(s) = "swiftc"
      BY <1>1, <1>2, <1>7
    <2>5. r = <<"sign", "open", "exit">>
      BY <1>7
    <2>2. Head(r) = "sign"
      BY <1>7
    <2>3. r \in Seq(Usual)
      BY <2>5, UsualEnds
    <2> QED BY <1>3, <2>1, <2>2, <2>3 DEF SwiftNext, S, H
  <1>8. CASE s = <<"cache", "build", "resources", "swift", "swiftc", "sign", "try-icons", "rows", "bundle", "exit">>
    <2>1. s # <<>> /\ s \in Seq(S) /\ Head(s) = "cache"
      BY <1>1, <1>2, <1>8
    <2>5. r = <<"build", "resources", "swift", "swiftc", "sign", "try-icons", "rows", "bundle", "exit">>
      BY <1>8
    <2>2. Head(r) = "build"
      BY <1>8
    <2>3. r \in SwiftLists
      BY <2>5 DEF SwiftLists
    <2> QED BY <1>3, <2>1, <2>2, <2>3 DEF SwiftNext, S, H
  <1>9. CASE s = <<"build", "resources", "swift", "swiftc", "sign", "try-icons", "rows", "bundle", "exit">>
    <2>1. s # <<>> /\ s \in Seq(S) /\ Head(s) = "build"
      BY <1>1, <1>2, <1>9
    <2>5. r = <<"resources", "swift", "swiftc", "sign", "try-icons", "rows", "bundle", "exit">>
      BY <1>9
    <2>2. Head(r) = "resources"
      BY <1>9
    <2>3. r \in SwiftLists
      BY <2>5 DEF SwiftLists
    <2> QED BY <1>3, <2>1, <2>2, <2>3 DEF SwiftNext, S, H
  <1>10. CASE s = <<"resources", "swift", "swiftc", "sign", "try-icons", "rows", "bundle", "exit">>
    <2>1. s # <<>> /\ s \in Seq(S) /\ Head(s) = "resources"
      BY <1>1, <1>2, <1>10
    <2>5. r = <<"swift", "swiftc", "sign", "try-icons", "rows", "bundle", "exit">>
      BY <1>10
    <2>2. Head(r) = "swift"
      BY <1>10
    <2>3. r \in SwiftLists
      BY <2>5 DEF SwiftLists
    <2> QED BY <1>3, <2>1, <2>2, <2>3 DEF SwiftNext, S, H
  <1>11. CASE s = <<"swift", "swiftc", "sign", "try-icons", "rows", "bundle", "exit">>
    <2>1. s # <<>> /\ s \in Seq(S) /\ Head(s) = "swift"
      BY <1>1, <1>2, <1>11
    <2>5. r = <<"swiftc", "sign", "try-icons", "rows", "bundle", "exit">>
      BY <1>11
    <2>2. Head(r) = "swiftc"
      BY <1>11
    <2>3. r \in SwiftLists
      BY <2>5 DEF SwiftLists
    <2> QED BY <1>3, <2>1, <2>2, <2>3 DEF SwiftNext, S, H
  <1>12. CASE s = <<"swiftc", "sign", "try-icons", "rows", "bundle", "exit">>
    <2>1. s # <<>> /\ s \in Seq(S) /\ Head(s) = "swiftc"
      BY <1>1, <1>2, <1>12
    <2>5. r = <<"sign", "try-icons", "rows", "bundle", "exit">>
      BY <1>12
    <2>2. Head(r) = "sign"
      BY <1>12
    <2>3. r \in Seq(Usual)
      BY <2>5, UsualEnds
    <2> QED BY <1>3, <2>1, <2>2, <2>3 DEF SwiftNext, S, H
  <1> QED
    BY <1>4, <1>5, <1>6, <1>7, <1>8, <1>9, <1>10, <1>11, <1>12 DEF SwiftLists

\* The commands without marked steps.
LEMMA UsualCommands ==
    /\ \A c \in DOMAIN StackCommands \ {"installtls", "bootstrap"} :
          StackCommands[c] \o <<"exit">> \in Seq(Usual)
    /\ run_launch \o <<"exit">> \in Seq(Usual) /\ app_id \o <<"exit">> \in Seq(Usual)
    /\ instance_context \o <<"bundle.app", "bundle.context", "bundle">> \in Seq(Usual)
    /\ \A c \in DOMAIN LibraryCommands \ {"ui", "apps"} :
          LibraryCommands[c] \o <<"exit">> \in Seq(Usual)
  <1>0. \A r \in Seq(Usual) : \A s \in Seq(Usual) : r \o s \in Seq(Usual)
    OBVIOUS
  <1>1. /\ "ports" \in Usual /\ "ports.write" \in Usual /\ "ports.rename" \in Usual
        /\ "control" \in Usual /\ "tunnel" \in Usual /\ "viewer" \in Usual
        /\ "pid.viewer" \in Usual /\ "pid.tunnel" \in Usual /\ "pid.control" \in Usual
        /\ "kill.viewer" \in Usual /\ "kill.tunnel" \in Usual /\ "kill.control" \in Usual
    BY DEF Usual
  <1>2. /\ "kill.own" \in Usual /\ "readviewer" \in Usual /\ "waitviewer" \in Usual
        /\ "start" \in Usual /\ "ping" \in Usual /\ "count" \in Usual /\ "socket" \in Usual
        /\ "launch" \in Usual /\ "stop" \in Usual /\ "ctl-status" \in Usual /\ "keep" \in Usual
        /\ "view" \in Usual /\ "app-id" \in Usual /\ "row" \in Usual
    BY DEF Usual
  <1>3. /\ "install-plain" \in Usual /\ "token" \in Usual /\ "uninstall" \in Usual
        /\ "refresh" \in Usual /\ "rows" \in Usual /\ "icons" \in Usual /\ "bundle" \in Usual
        /\ "bundle.app" \in Usual /\ "bundle.context" \in Usual /\ "unbundle" \in Usual
        /\ "exit" \in Usual /\ "build" \in Usual /\ "cache" \in Usual
    BY DEF Usual, Early
  <1>4. instance_context \in Seq(Usual) /\ app_id \in Seq(Usual)
    BY <1>1, <1>2, <1>3 DEF instance_context, app_id
  <1>5. start_stack \in Seq(Usual) /\ viewer \in Seq(Usual) /\ waiting \in Seq(Usual)
    BY <1>1, <1>2, <1>3 DEF start_stack, viewer, waiting
  <1>6. stop \in Seq(Usual) /\ status \in Seq(Usual) /\ install_plain \in Seq(Usual)
    BY <1>1, <1>2, <1>3 DEF stop, status, install_plain
  <1>7. /\ <<"launch">> \in Seq(Usual) /\ <<"keep">> \in Seq(Usual) /\ <<"count">> \in Seq(Usual)
        /\ <<"cache", "row">> \in Seq(Usual) /\ <<"socket", "launch">> \in Seq(Usual)
        /\ <<"app-id", "view", "waitviewer">> \in Seq(Usual) /\ <<"uninstall">> \in Seq(Usual)
        /\ <<"exit">> \in Seq(Usual)
        /\ <<"bundle.app", "bundle.context", "bundle">> \in Seq(Usual)
    BY <1>1, <1>2, <1>3
  <1> HIDE DEF instance_context, app_id, start_stack, viewer, waiting, stop, status, install_plain
  <1>8. /\ run_app \in Seq(Usual) /\ view \in Seq(Usual) /\ launch \in Seq(Usual)
    BY <1>5, <1>6, <1>7 DEF run_app, view, launch
  <1>9. /\ prepare_app \in Seq(Usual) /\ bench_data_plane \in Seq(Usual)
    BY <1>4, <1>5, <1>7 DEF prepare_app, bench_data_plane
  <1> HIDE DEF launch, prepare_app
  <1>10. launch_id \in Seq(Usual) /\ run_launch \in Seq(Usual)
    BY <1>6, <1>7, <1>8, <1>9 DEF launch_id, run_launch
  <1> HIDE DEF run_app, view, bench_data_plane, launch_id, run_launch
  <1>11. \A c \in DOMAIN StackCommands \ {"installtls", "bootstrap"} : StackCommands[c] \in Seq(Usual)
    <2>1. DOMAIN StackCommands =
            {"run", "view", "launch", "prepare", "launchid", "app", "bench", "stop", "status",
             "bundle", "install", "installtls", "bootstrap", "uninstall"}
      BY DEF StackCommands
    <2>2. /\ StackCommands["run"] = run_app /\ StackCommands["view"] = view
          /\ StackCommands["launch"] = launch /\ StackCommands["prepare"] = prepare_app
          /\ StackCommands["launchid"] = launch_id /\ StackCommands["app"] = <<"socket", "launch">>
          /\ StackCommands["bench"] = bench_data_plane /\ StackCommands["stop"] = stop
          /\ StackCommands["status"] = status /\ StackCommands["bundle"] = run_launch
          /\ StackCommands["install"] = install_plain /\ StackCommands["uninstall"] = <<"uninstall">>
      BY DEF StackCommands
    <2> HIDE DEF StackCommands
    <2> QED BY <1>6, <1>7, <1>8, <1>9, <1>10, <2>1, <2>2
  <1>12. \A c \in DOMAIN LibraryCommands \ {"ui", "apps"} : LibraryCommands[c] \in Seq(Usual)
    <2>1. /\ <<"cache">> \in Seq(Usual) /\ <<"refresh">> \in Seq(Usual) /\ <<"cache", "icons">> \in Seq(Usual)
          /\ <<"cache", "row", "bundle">> \in Seq(Usual) /\ <<"cache", "rows", "unbundle">> \in Seq(Usual)
          /\ <<"cache", "row", "unbundle">> \in Seq(Usual)
      BY <1>1, <1>2, <1>3
    <2>2. DOMAIN LibraryCommands =
            {"library", "refresh", "ui", "icons", "apps", "launcher", "removeapps", "removelauncher"}
      BY DEF LibraryCommands
    <2>3. /\ LibraryCommands["library"] = <<"cache">> /\ LibraryCommands["refresh"] = <<"refresh">>
          /\ LibraryCommands["icons"] = <<"cache", "icons">>
          /\ LibraryCommands["launcher"] = <<"cache", "row", "bundle">>
          /\ LibraryCommands["removeapps"] = <<"cache", "rows", "unbundle">>
          /\ LibraryCommands["removelauncher"] = <<"cache", "row", "unbundle">>
      BY DEF LibraryCommands
    <2> HIDE DEF LibraryCommands
    <2> QED BY <2>1, <2>2, <2>3
  <1>13. /\ run_launch \o <<"exit">> \in Seq(Usual) /\ app_id \o <<"exit">> \in Seq(Usual)
         /\ instance_context \o <<"bundle.app", "bundle.context", "bundle">> \in Seq(Usual)
    BY <1>4, <1>7, <1>10
  <1> QED BY <1>0, <1>7, <1>11, <1>12, <1>13, Zenon

\* The commands that bootstrap TLS.
LEMMA KeyCommands ==
    /\ install_with_tls \o <<"exit">> \in KeyLists /\ Head(install_with_tls \o <<"exit">>) = "build"
    /\ bootstrap \o <<"exit">> \in KeyLists /\ Head(bootstrap \o <<"exit">>) = "ca"
    /\ StackCommands["installtls"] = install_with_tls /\ StackCommands["bootstrap"] = bootstrap
  <1> DEFINE S == Usual \cup KeySteps
  <1>1. /\ "build" \in S /\ "token" \in S /\ "exit" \in S
        /\ "ca" \in S /\ "key" \in S /\ "server" \in S /\ "serverkey" \in S
        /\ "client" \in S /\ "clientkey" \in S /\ "scp" \in S /\ "install-tls" \in S
    BY DEF Usual, Early, KeySteps
  <1> HIDE DEF S
  <1>2. install_with_tls \o <<"exit">> = <<"build", "ca", "key", "server", "serverkey", "client", "clientkey", "scp", "install-tls", "token", "exit">>
    <2> DEFINE q == install_with_tls \o <<"exit">>
                x == <<"build", "ca", "key", "server", "serverkey", "client", "clientkey", "scp", "install-tls", "token", "exit">>
    <2>1. /\ q \in Seq(S) /\ x \in Seq(S) /\ Len(q) = 11 /\ Len(x) = 11
          /\ \A i \in 1 .. 11 : q[i] = x[i]
      BY <1>1 DEF install_with_tls, bootstrap
    <2> HIDE DEF q, x
    <2>2. q = x
      BY <2>1, SameList
    <2> QED BY <2>2 DEF q, x
  <1>3. bootstrap \o <<"exit">> = <<"ca", "key", "server", "serverkey", "client", "clientkey", "exit">>
    <2> DEFINE q == bootstrap \o <<"exit">>
                x == <<"ca", "key", "server", "serverkey", "client", "clientkey", "exit">>
    <2>1. /\ q \in Seq(S) /\ x \in Seq(S) /\ Len(q) = 7 /\ Len(x) = 7
          /\ \A i \in 1 .. 7 : q[i] = x[i]
      BY <1>1 DEF bootstrap
    <2> HIDE DEF q, x
    <2>2. q = x
      BY <2>1, SameList
    <2> QED BY <2>2 DEF q, x
  <1>4. StackCommands["installtls"] = install_with_tls /\ StackCommands["bootstrap"] = bootstrap
    BY DEF StackCommands
  <1> DEFINE x == <<"build", "ca", "key", "server", "serverkey", "client", "clientkey", "scp", "install-tls", "token", "exit">>
             y == <<"ca", "key", "server", "serverkey", "client", "clientkey", "exit">>
  <1>5. x \in KeyLists /\ Head(x) = "build" /\ y \in KeyLists /\ Head(y) = "ca"
    BY DEF KeyLists
  <1> HIDE DEF x, y
  <1>6. install_with_tls \o <<"exit">> = x /\ bootstrap \o <<"exit">> = y
    BY <1>2, <1>3, Zenon DEF x, y
  <1> QED BY <1>4, <1>5, <1>6, Zenon

\* The commands that compile vbox.app.
LEMMA SwiftCommands ==
    /\ library_ui \o <<"exit">> \in SwiftLists /\ Head(library_ui \o <<"exit">>) \in Early
    /\ install_apps \o <<"exit">> \in SwiftLists /\ Head(install_apps \o <<"exit">>) \in Early
    /\ LibraryCommands["ui"] = library_ui /\ LibraryCommands["apps"] = install_apps
  <1> DEFINE S == Usual \cup SwiftSteps
  <1>1. /\ "try-cache" \in S /\ "cache" \in S /\ "build" \in S /\ "resources" \in S
        /\ "sign" \in S /\ "open" \in S /\ "try-icons" \in S /\ "rows" \in S
        /\ "bundle" \in S /\ "exit" \in S /\ "swift" \in S /\ "swiftc" \in S
    BY DEF Usual, Early, SwiftSteps
  <1> HIDE DEF S
  <1>2. library_ui \o <<"exit">> = <<"try-cache", "resources", "swift", "swiftc", "sign", "open", "exit">>
    <2> DEFINE q == library_ui \o <<"exit">>
                x == <<"try-cache", "resources", "swift", "swiftc", "sign", "open", "exit">>
    <2>1. /\ q \in Seq(S) /\ x \in Seq(S) /\ Len(q) = 7 /\ Len(x) = 7
          /\ \A i \in 1 .. 7 : q[i] = x[i]
      BY <1>1 DEF library_ui, build_main_library_app
    <2> HIDE DEF q, x
    <2>2. q = x
      BY <2>1, SameList
    <2> QED BY <2>2 DEF q, x
  <1>3. install_apps \o <<"exit">> = <<"cache", "build", "resources", "swift", "swiftc", "sign", "try-icons", "rows", "bundle", "exit">>
    <2> DEFINE q == install_apps \o <<"exit">>
                x == <<"cache", "build", "resources", "swift", "swiftc", "sign", "try-icons", "rows", "bundle", "exit">>
    <2>1. /\ q \in Seq(S) /\ x \in Seq(S) /\ Len(q) = 10 /\ Len(x) = 10
          /\ \A i \in 1 .. 10 : q[i] = x[i]
      BY <1>1 DEF install_apps, build_main_library_app
    <2> HIDE DEF q, x
    <2>2. q = x
      BY <2>1, SameList
    <2> QED BY <2>2 DEF q, x
  <1>4. LibraryCommands["ui"] = library_ui /\ LibraryCommands["apps"] = install_apps
    BY DEF LibraryCommands
  <1> DEFINE x == <<"try-cache", "resources", "swift", "swiftc", "sign", "open", "exit">>
             y == <<"cache", "build", "resources", "swift", "swiftc", "sign", "try-icons", "rows", "bundle", "exit">>
  <1>5. x \in SwiftLists /\ Head(x) = "try-cache" /\ y \in SwiftLists /\ Head(y) = "cache"
    BY DEF SwiftLists
  <1> HIDE DEF x, y
  <1>6. library_ui \o <<"exit">> = x /\ install_apps \o <<"exit">> = y
    BY <1>2, <1>3, Zenon DEF x, y
  <1>7. "try-cache" \in Early /\ "cache" \in Early
    BY DEF Early
  <1> QED BY <1>4, <1>5, <1>6, <1>7

\* What a command on machine m begins with.
StoreFirst(m, s) ==
    \/ s \in ToFind /\ (s = ToFindVm => m \notin Remotes)
    \/ s \in {ToSet("put-password"), ToDelete("put-plain"), ToLoadDrop}

\* The commands on machines.
LEMMA StoreCommands ==
    ASSUME NEW c \in HostCommands, NEW m, NEW s, s = HostSteps(c, m) \o <<"exit">>
    PROVE  StoreFirst(m, s) /\ s \in Seq(Usual \cup StoreSteps)
  <1> DEFINE S == Usual \cup StoreSteps
  <1>1. /\ "find" \in S /\ "keychain.set" \in S /\ "keychain.delete" \in S /\ "forget" \in S
        /\ "load" \in S /\ "load-overrides" \in S /\ "save" \in S /\ "save-overrides" \in S
        /\ "start-vm" \in S /\ "stop-vm" \in S /\ "delete-vm" \in S
    BY DEF StoreSteps
  <1>2. /\ "put-plain" \in S /\ "put-password" \in S /\ "drop" \in S /\ "mark" \in S
        /\ "unmark" \in S /\ "set-key" \in S /\ "unset-key" \in S
    BY DEF StoreSteps, Edits
  <1>3. "exit" \in S
    BY DEF Usual
  <1> HIDE DEF S
  <1>4. CASE c = "add"
    <2>1. HostSteps(c, m) = add_cmd
      BY <1>4, Zenon DEF HostSteps
    <2> DEFINE q == add_cmd \o <<"exit">>
                x == <<"keychain.delete", "load", "put-plain", "save", "exit">>
    <2>2. /\ q \in Seq(S) /\ x \in Seq(S) /\ Len(q) = 5 /\ Len(x) = 5
          /\ \A i \in 1 .. 5 : q[i] = x[i]
      BY <1>1, <1>2, <1>3 DEF add_cmd, store
    <2>3. x = ToDelete("put-plain")
      BY DEF ToDelete
    <2> HIDE DEF q, x
    <2>4. q = x
      BY <2>2, SameList
    <2>5. s = x
      BY <2>1, <2>4 DEF q
    <2> QED BY <2>2, <2>3, <2>5 DEF StoreFirst, S
  <1>5. CASE c = "add-password"
    <2>1. HostSteps(c, m) = add_with_password
      BY <1>5, Zenon DEF HostSteps
    <2> DEFINE q == add_with_password \o <<"exit">>
                x == <<"keychain.set", "load", "put-password", "save", "exit">>
    <2>2. /\ q \in Seq(S) /\ x \in Seq(S) /\ Len(q) = 5 /\ Len(x) = 5
          /\ \A i \in 1 .. 5 : q[i] = x[i]
      BY <1>1, <1>2, <1>3 DEF add_with_password, store
    <2>3. x = ToSet("put-password")
      BY DEF ToSet
    <2> HIDE DEF q, x
    <2>4. q = x
      BY <2>2, SameList
    <2>5. s = x
      BY <2>1, <2>4 DEF q
    <2> QED BY <2>2, <2>3, <2>5 DEF StoreFirst, S
  <1>6. CASE c = "remove"
    <2>1. HostSteps(c, m) = remove_name
      BY <1>6, Zenon DEF HostSteps
    <2> DEFINE q == remove_name \o <<"exit">>
                x == <<"load", "drop", "save", "forget", "exit">>
    <2>2. /\ q \in Seq(S) /\ x \in Seq(S) /\ Len(q) = 5 /\ Len(x) = 5
          /\ \A i \in 1 .. 5 : q[i] = x[i]
      BY <1>1, <1>2, <1>3 DEF remove_name, store
    <2>3. x = ToLoadDrop
      BY DEF ToLoadDrop
    <2> HIDE DEF q, x
    <2>4. q = x
      BY <2>2, SameList
    <2>5. s = x
      BY <2>1, <2>4 DEF q
    <2> QED BY <2>2, <2>3, <2>5 DEF StoreFirst, S
  <1>7. CASE c = "password"
    <2>1. HostSteps(c, m) = set
      BY <1>7, Zenon DEF HostSteps
    <2> DEFINE q == set \o <<"exit">>
                x == <<"find", "keychain.set", "load", "mark", "save", "exit">>
    <2>2. /\ q \in Seq(S) /\ x \in Seq(S) /\ Len(q) = 6 /\ Len(x) = 6
          /\ \A i \in 1 .. 6 : q[i] = x[i]
      BY <1>1, <1>2, <1>3 DEF set, store
    <2>3. x \in ToFind /\ x # ToFindVm
      BY DEF ToFind, ToFindVm
    <2> HIDE DEF q, x
    <2>4. q = x
      BY <2>2, SameList
    <2>5. s = x
      BY <2>1, <2>4 DEF q
    <2> QED BY <2>2, <2>3, <2>5 DEF StoreFirst, S
  <1>8. CASE c = "no-password"
    <2>1. HostSteps(c, m) = clear
      BY <1>8, Zenon DEF HostSteps
    <2> DEFINE q == clear \o <<"exit">>
                x == <<"find", "keychain.delete", "load", "unmark", "save", "exit">>
    <2>2. /\ q \in Seq(S) /\ x \in Seq(S) /\ Len(q) = 6 /\ Len(x) = 6
          /\ \A i \in 1 .. 6 : q[i] = x[i]
      BY <1>1, <1>2, <1>3 DEF clear, store
    <2>3. x \in ToFind /\ x # ToFindVm
      BY DEF ToFind, ToFindVm
    <2> HIDE DEF q, x
    <2>4. q = x
      BY <2>2, SameList
    <2>5. s = x
      BY <2>1, <2>4 DEF q
    <2> QED BY <2>2, <2>3, <2>5 DEF StoreFirst, S
  <1>9. CASE c = "set"
    <2>1. HostSteps(c, m) = set_cmd
      BY <1>9, Zenon DEF HostSteps
    <2> DEFINE q == set_cmd \o <<"exit">>
                x == <<"find", "load-overrides", "set-key", "save-overrides", "exit">>
    <2>2. /\ q \in Seq(S) /\ x \in Seq(S) /\ Len(q) = 5 /\ Len(x) = 5
          /\ \A i \in 1 .. 5 : q[i] = x[i]
      BY <1>1, <1>2, <1>3 DEF set_cmd, overrides
    <2>3. x \in ToFind /\ x # ToFindVm
      BY DEF ToFind, ToFindVm
    <2> HIDE DEF q, x
    <2>4. q = x
      BY <2>2, SameList
    <2>5. s = x
      BY <2>1, <2>4 DEF q
    <2> QED BY <2>2, <2>3, <2>5 DEF StoreFirst, S
  <1>10. CASE c = "unset"
    <2>1. HostSteps(c, m) = unset_cmd
      BY <1>10, Zenon DEF HostSteps
    <2> DEFINE q == unset_cmd \o <<"exit">>
                x == <<"find", "load-overrides", "unset-key", "save-overrides", "exit">>
    <2>2. /\ q \in Seq(S) /\ x \in Seq(S) /\ Len(q) = 5 /\ Len(x) = 5
          /\ \A i \in 1 .. 5 : q[i] = x[i]
      BY <1>1, <1>2, <1>3 DEF unset_cmd, overrides
    <2>3. x \in ToFind /\ x # ToFindVm
      BY DEF ToFind, ToFindVm
    <2> HIDE DEF q, x
    <2>4. q = x
      BY <2>2, SameList
    <2>5. s = x
      BY <2>1, <2>4 DEF q
    <2> QED BY <2>2, <2>3, <2>5 DEF StoreFirst, S
  <1>11. CASE c = "start-vm"
    <2>1. HostSteps(c, m) = <<"find", "start-vm">>
      BY <1>11, Zenon DEF HostSteps
    <2> DEFINE q == <<"find", "start-vm">> \o <<"exit">>
                x == <<"find", "start-vm", "exit">>
    <2>2. /\ q \in Seq(S) /\ x \in Seq(S) /\ Len(q) = 3 /\ Len(x) = 3
          /\ \A i \in 1 .. 3 : q[i] = x[i]
      BY <1>1, <1>2, <1>3
    <2>3. x \in ToFind /\ x # ToFindVm
      BY DEF ToFind, ToFindVm
    <2> HIDE DEF q, x
    <2>4. q = x
      BY <2>2, SameList
    <2>5. s = x
      BY <2>1, <2>4 DEF q
    <2> QED BY <2>2, <2>3, <2>5 DEF StoreFirst, S
  <1>12. CASE c = "stop-vm"
    <2>1. HostSteps(c, m) = <<"find", "stop-vm">>
      BY <1>12, Zenon DEF HostSteps
    <2> DEFINE q == <<"find", "stop-vm">> \o <<"exit">>
                x == <<"find", "stop-vm", "exit">>
    <2>2. /\ q \in Seq(S) /\ x \in Seq(S) /\ Len(q) = 3 /\ Len(x) = 3
          /\ \A i \in 1 .. 3 : q[i] = x[i]
      BY <1>1, <1>2, <1>3
    <2>3. x \in ToFind /\ x # ToFindVm
      BY DEF ToFind, ToFindVm
    <2> HIDE DEF q, x
    <2>4. q = x
      BY <2>2, SameList
    <2>5. s = x
      BY <2>1, <2>4 DEF q
    <2> QED BY <2>2, <2>3, <2>5 DEF StoreFirst, S
  <1>13. CASE c = "info"
    <2>1. HostSteps(c, m) = <<"find">>
      BY <1>13, Zenon DEF HostSteps
    <2> DEFINE q == <<"find">> \o <<"exit">>
                x == <<"find", "exit">>
    <2>2. /\ q \in Seq(S) /\ x \in Seq(S) /\ Len(q) = 2 /\ Len(x) = 2
          /\ \A i \in 1 .. 2 : q[i] = x[i]
      BY <1>1, <1>2, <1>3
    <2>3. x \in ToFind /\ x # ToFindVm
      BY DEF ToFind, ToFindVm
    <2> HIDE DEF q, x
    <2>4. q = x
      BY <2>2, SameList
    <2>5. s = x
      BY <2>1, <2>4 DEF q
    <2> QED BY <2>2, <2>3, <2>5 DEF StoreFirst, S
  <1>14. CASE c = "delete" /\ m \in Remotes
    <2>1. HostSteps(c, m) = delete_cmd(m)
      BY <1>14, Zenon DEF HostSteps
    <2> DEFINE q == delete_cmd(m) \o <<"exit">>
                x == <<"find", "load", "drop", "save", "forget", "exit">>
    <2>2. /\ q \in Seq(S) /\ x \in Seq(S) /\ Len(q) = 6 /\ Len(x) = 6
          /\ \A i \in 1 .. 6 : q[i] = x[i]
      BY <1>1, <1>2, <1>3, <1>14 DEF delete_cmd, remove_name, store
    <2>3. x \in ToFind /\ x # ToFindVm
      BY DEF ToFind, ToFindVm
    <2> HIDE DEF q, x
    <2>4. q = x
      BY <2>2, SameList
    <2>5. s = x
      BY <2>1, <2>4 DEF q
    <2> QED BY <2>2, <2>3, <2>5 DEF StoreFirst, S
  <1>15. CASE c = "delete" /\ m \notin Remotes
    <2>1. HostSteps(c, m) = delete_cmd(m)
      BY <1>15, Zenon DEF HostSteps
    <2> DEFINE q == delete_cmd(m) \o <<"exit">>
                x == <<"find", "delete-vm", "load", "drop", "save", "exit">>
    <2>2. /\ q \in Seq(S) /\ x \in Seq(S) /\ Len(q) = 6 /\ Len(x) = 6
          /\ \A i \in 1 .. 6 : q[i] = x[i]
      BY <1>1, <1>2, <1>3, <1>15 DEF delete_cmd, store
    <2>3. x \in ToFind
      BY DEF ToFind, ToFindVm
    <2> HIDE DEF q, x
    <2>4. q = x
      BY <2>2, SameList
    <2>5. s = x
      BY <2>1, <2>4 DEF q
    <2> QED BY <2>2, <2>3, <2>5, <1>15 DEF StoreFirst, S
  <1> QED
    BY <1>4, <1>5, <1>6, <1>7, <1>8, <1>9, <1>10, <1>11, <1>12, <1>13, <1>14, <1>15 DEF HostCommands

-----------------------------------------------------------------------------
(* A step of a thread.                                                     *)

\* The thread's list stays one of the steps it was of; the others keep
\* theirs, but for the second thread of a launcher.
Moves(t) ==
    /\ todo' = [u \in Threads |-> todo'[u]]
    /\ \A S \in SUBSET Words : Usual \subseteq S /\ todo[t] \in Seq(S) => todo'[t] \in Seq(S)
    /\ \A u \in Threads \ {t} : todo'[u] = todo[u] \/ (u \in Sides /\ todo'[u] \in Seq(Usual))

\* The local variables of the other threads are kept, too.
Locals(t) ==
    /\ DOMAIN loc' = Threads /\ DOMAIN mem' = Threads
    /\ \A u \in Threads : DOMAIN loc'[u] = Fields
    /\ \A u \in Threads \ Sides : u # t => loc'[u] = loc[u] /\ mem'[u] = mem[u]

\* The stores of the machines are kept.
StoresKept ==
    /\ DOMAIN file' = Stores /\ DOMAIN tmp' = Stores
    /\ \A f \in {"remotes", "machines"} : file'[f] = file[f] /\ tmp'[f] = tmp[f]

\* What a daemon without new certificates becomes; its unit may have been
\* rewritten.
Rewritten == {Daemon(d.mode, unit, d.server, d.ca) : d \in {daemon, Restarted, Down},
                                                     unit \in {daemon.unit, "plain", "tls"}}
Booted == {daemon, Down, Plain, Restarted} \cup Rewritten

\* What the invariants are about is kept.
Spared ==
    /\ UNCHANGED <<history, tls, guest, minted, keychain, vm, src, bin, broken>>
    /\ daemon' \in Booted

\* A step that is not marked.
Ordinary(t) ==
    /\ todo[t] # <<>> /\ Head(todo[t]) \in Usual
    /\ Spared /\ StoresKept /\ Moves(t) /\ Locals(t)
    /\ Head(todo[t]) \in Early =>
          loc' = loc /\ mem' = mem /\ todo'[t] \in {Tail(todo[t]), <<"exit">>}

\* The ways in which a step changes the list.
LEMMA MovesOn ==
    ASSUME Formed, NEW t \in Threads, todo[t] # <<>>,
           \/ Go(t) \/ Bail(t) \/ Skip(t, 2) \/ Skip(t, 3) \/ UNCHANGED todo
           \/ todo' = [todo EXCEPT ![t] = <<>>]
           \/ \E r \in Seq(Usual) : Jump(t, r)
    PROVE  Moves(t)
  <1>1. todo \in [Threads -> Seq(Words)]
    BY DEF Formed
  <1>2. PICK new : /\ todo' = [todo EXCEPT ![t] = new]
                   /\ \/ new = Tail(todo[t]) \/ new = <<"exit">> \/ new = todo[t] \/ new = <<>>
                      \/ new = SubSeq(todo[t], 3, Len(todo[t])) \/ new = SubSeq(todo[t], 4, Len(todo[t]))
                      \/ \E r \in Seq(Usual) : new = r \o Tail(todo[t])
    <2>1. CASE Go(t) \/ Bail(t)
      BY <2>1 DEF Go, Bail
    <2>2. CASE Skip(t, 2) \/ Skip(t, 3)
      BY <2>2 DEF Skip
    <2>3. CASE UNCHANGED todo
      BY <1>1, <2>3
    <2>4. CASE todo' = [todo EXCEPT ![t] = <<>>]
      BY <2>4
    <2>5. CASE \E r \in Seq(Usual) : Jump(t, r)
      BY <2>5 DEF Jump
    <2> QED BY <2>1, <2>2, <2>3, <2>4, <2>5
  <1>3. todo' = [u \in Threads |-> todo'[u]] /\ todo'[t] = new /\ \A u \in Threads \ {t} : todo'[u] = todo[u]
    BY <1>1, <1>2
  <1>4. ASSUME NEW S \in SUBSET Words, Usual \subseteq S, todo[t] \in Seq(S) PROVE new \in Seq(S)
    <2>1. PICK s : s = todo[t]
      OBVIOUS
    <2>2. s \in Seq(S) /\ s # <<>>
      BY <1>4, <2>1
    <2>3. /\ Tail(s) \in Seq(S) /\ SubSeq(s, 3, Len(s)) \in Seq(S) /\ SubSeq(s, 4, Len(s)) \in Seq(S)
          /\ \A r \in Seq(S) : r \o Tail(s) \in Seq(S)
      BY <2>2, Rests
    <2>4. <<>> \in Seq(S) /\ <<"exit">> \in Seq(S) /\ \A r \in Seq(Usual) : r \in Seq(S)
      BY <1>4, MoreSteps, UsualEnds
    <2> HIDE <2>1
    <2>5. \/ new = Tail(s) \/ new = <<"exit">> \/ new = s \/ new = <<>>
          \/ new = SubSeq(s, 3, Len(s)) \/ new = SubSeq(s, 4, Len(s))
          \/ \E r \in Seq(Usual) : new = r \o Tail(s)
      BY <1>2, <2>1
    <2>6. CASE \E r \in Seq(Usual) : new = r \o Tail(s)
      BY <2>3, <2>4, <2>6
    <2> QED BY <2>2, <2>3, <2>4, <2>5, <2>6
  <1> QED BY <1>3, <1>4 DEF Moves

\* The names of the usual steps.
LEMMA UsualNames ==
    /\ "ports" \in Usual \ Early /\ "ports.write" \in Usual \ Early /\ "ports.rename" \in Usual \ Early
    /\ "control" \in Usual \ Early /\ "tunnel" \in Usual \ Early /\ "viewer" \in Usual \ Early
    /\ "pid.viewer" \in Usual \ Early /\ "pid.tunnel" \in Usual \ Early /\ "pid.control" \in Usual \ Early
    /\ "kill.viewer" \in Usual \ Early /\ "kill.tunnel" \in Usual \ Early /\ "kill.control" \in Usual \ Early
    /\ "kill.own" \in Usual \ Early /\ "readviewer" \in Usual \ Early /\ "waitviewer" \in Usual \ Early
    /\ "start" \in Usual \ Early /\ "ping" \in Usual \ Early /\ "count" \in Usual \ Early
    /\ "socket" \in Usual \ Early /\ "launch" \in Usual \ Early /\ "stop" \in Usual \ Early
    /\ "ctl-status" \in Usual \ Early /\ "keep" \in Usual \ Early /\ "view" \in Usual \ Early
    /\ "app-id" \in Usual \ Early /\ "row" \in Usual \ Early /\ "install-plain" \in Usual \ Early
    /\ "token" \in Usual \ Early /\ "uninstall" \in Usual \ Early /\ "refresh" \in Usual \ Early
    /\ "rows" \in Usual \ Early /\ "icons" \in Usual \ Early /\ "try-icons" \in Usual \ Early
    /\ "bundle" \in Usual \ Early /\ "bundle.app" \in Usual \ Early /\ "bundle.context" \in Usual \ Early
    /\ "unbundle" \in Usual \ Early /\ "sign" \in Usual \ Early /\ "open" \in Usual \ Early
    /\ "exit" \in Usual \ Early
    /\ "build" \in Usual /\ "cache" \in Usual /\ "try-cache" \in Usual /\ "resources" \in Usual
  BY DEF Usual, Early

\* A step that changes no local variable and no store.
LEMMA PlainStep ==
    ASSUME Formed, NEW t \in Threads, todo[t] # <<>>, Head(todo[t]) \in Usual,
           Go(t) \/ Bail(t), UNCHANGED <<loc, mem, file, tmp>>, Spared
    PROVE  Ordinary(t)
  <1>1. Moves(t)
    BY MovesOn
  <1>2. todo'[t] \in {Tail(todo[t]), <<"exit">>}
    BY DEF Go, Bail, Formed
  <1>3. Locals(t) /\ StoresKept
    BY DEF Locals, StoresKept, Formed
  <1> QED BY <1>1, <1>2, <1>3 DEF Ordinary

\* A step with effects on the thread's own variables.
LEMMA LocalStep ==
    ASSUME NEW t \in Threads, todo[t] # <<>>, Head(todo[t]) \in Usual \ Early,
           Moves(t), Locals(t), StoresKept, Spared
    PROVE  Ordinary(t)
  BY DEF Ordinary

\* The steps of the instances' commands and of the control channel that
\* change no local variable.
LEMMA StackPlain ==
    ASSUME Formed, NEW t \in Threads, UNCHANGED <<hostVars, libraryVars>>,
           \/ \E kind \in Kinds : WritePid(t, kind)
           \/ \E kind \in Kinds : KillPid(t, kind)
           \/ KillOwnTunnel(t) \/ wait_viewer(t) \/ start_server(t) \/ wait_ping(t)
           \/ ping(t) \/ wait_socket(t) \/ launch_app(t) \/ StopInstance(t) \/ CtlStatus(t) \/ Tool(t)
    PROVE  Ordinary(t)
  <1> DEFINE P == /\ todo[t] # <<>> /\ Head(todo[t]) \in Usual
                  /\ Go(t) \/ Bail(t)
                  /\ UNCHANGED <<loc, mem, file, tmp>> /\ Spared
  <1> SUFFICES P
    BY PlainStep
  <1>0. ASSUME UNCHANGED <<others, controlVars>> PROVE Spared
    BY <1>0 DEF Spared, Booted, others, controlVars, hostVars, libraryVars
  <1>1. ASSUME NEW kind \in Kinds, WritePid(t, kind) PROVE P
    BY <1>0, <1>1, UsualNames DEF WritePid, At, Kinds, PidSteps
  <1>2. ASSUME NEW kind \in Kinds, KillPid(t, kind) PROVE P
    BY <1>0, <1>2, UsualNames DEF KillPid, At, Kinds, KillSteps
  <1>3. CASE KillOwnTunnel(t)
    BY <1>0, <1>3, UsualNames DEF KillOwnTunnel, At
  <1>4. CASE wait_viewer(t) \/ wait_ping(t) \/ ping(t) \/ CtlStatus(t)
    BY <1>0, <1>4, UsualNames DEF wait_viewer, wait_ping, ping, CtlStatus, At, stackVars
  <1>5. CASE start_server(t)
    BY <1>0, <1>5, UsualNames DEF start_server, At, Call, Run
  <1>6. CASE wait_socket(t) \/ launch_app(t)
    BY <1>0, <1>6, UsualNames DEF wait_socket, launch_app, At, Call, Run
  <1>7. CASE StopInstance(t)
    BY <1>0, <1>7, UsualNames DEF StopInstance, At
  <1>8. CASE Tool(t)
    BY <1>0, <1>8, UsualNames DEF Tool, At, Run, stackVars
  <1> QED BY <1>1, <1>2, <1>3, <1>4, <1>5, <1>6, <1>7, <1>8

\* A step that sets one of the thread's local variables.
LEMMA SetsLocal ==
    ASSUME Formed, NEW t \in Threads, NEW f \in Fields, NEW v,
           loc' = [loc EXCEPT ![t] = [loc[t] EXCEPT ![f] = v]], DOMAIN mem' = Threads,
           \A u \in Threads \ {t} : mem'[u] = mem[u]
    PROVE  Locals(t)
  BY DEF Formed, Locals

\* The other steps of the instances' commands, but for those on the control
\* channel.
LEMMA StackLocal ==
    ASSUME Formed, NEW t \in Threads, UNCHANGED <<hostVars, libraryVars>>,
           \/ ReadPorts(t) \/ WritePorts(t) \/ RenamePorts(t)
           \/ start_control_tunnel(t) \/ start_tunnel(t) \/ start_viewer_bg(t)
           \/ ReadViewer(t) \/ OpenView(t) \/ SpawnAppId(t)
    PROVE  Ordinary(t)
  <1> DEFINE P == /\ todo[t] # <<>> /\ Head(todo[t]) \in Usual \ Early
                  /\ Moves(t) /\ Locals(t) /\ StoresKept /\ Spared
  <1> SUFFICES P
    BY LocalStep
  <1>0. ASSUME UNCHANGED <<others, controlVars>> PROVE Spared
    BY <1>0 DEF Spared, Booted, others, controlVars, hostVars, libraryVars
  <1>a. ASSUME UNCHANGED <<file, tmp>> PROVE StoresKept
    BY <1>a DEF StoresKept, Formed
  <1>b. ASSUME UNCHANGED <<loc, mem>> PROVE Locals(t)
    BY <1>b DEF Locals, Formed
  <1>c. ASSUME todo[t] # <<>>, Go(t) \/ Bail(t) \/ Skip(t, 2) \/ Skip(t, 3) PROVE Moves(t)
    BY <1>c, MovesOn
  <1>f. "port" \in Fields /\ "pid" \in Fields
    BY DEF Fields
  <1>1. CASE ReadPorts(t)
    <2>1. todo[t] # <<>> /\ Head(todo[t]) \in Usual \ Early
      BY <1>1, UsualNames DEF ReadPorts, At
    <2>2. Go(t) \/ Bail(t) \/ Skip(t, 3)
      BY <1>1 DEF ReadPorts
    <2>3. UNCHANGED <<file, tmp, others, controlVars>>
      BY <1>1 DEF ReadPorts, stackVars
    <2>4. DOMAIN mem' = Threads /\ \A u \in Threads \ {t} : mem'[u] = mem[u]
      BY <1>1 DEF ReadPorts, read_instance_ports, Load, Formed
    <2>5. UNCHANGED loc \/ \E v : loc' = [loc EXCEPT ![t] = [loc[t] EXCEPT !["port"] = v]]
      BY <1>1 DEF ReadPorts
    <2>6. CASE UNCHANGED loc
      BY <2>4, <2>6, <1>0, <1>a, <1>c, <2>1, <2>2, <2>3 DEF Locals, Formed
    <2>7. CASE \E v : loc' = [loc EXCEPT ![t] = [loc[t] EXCEPT !["port"] = v]]
      <3>1. Locals(t)
        BY <1>f, <2>4, <2>7, SetsLocal
      <3> QED BY <3>1, <1>0, <1>a, <1>c, <2>1, <2>2, <2>3
    <2> QED BY <2>5, <2>6, <2>7
  <1>2. CASE WritePorts(t)
    <2>1. StoresKept
      BY <1>2 DEF WritePorts, Write, StoresKept, Formed, Stores
    <2> QED BY <2>1, <1>0, <1>2, <1>b, <1>c, UsualNames DEF WritePorts, Write, At, stackVars
  <1>3. CASE RenamePorts(t)
    <2>1. StoresKept
      BY <1>3 DEF RenamePorts, Rename, StoresKept, Formed, Stores
    <2> QED BY <2>1, <1>0, <1>3, <1>b, <1>c, UsualNames DEF RenamePorts, Rename, At, stackVars
  <1>4. CASE start_control_tunnel(t)
    <2>1. UNCHANGED loc \/ \E v : loc' = [loc EXCEPT ![t] = [loc[t] EXCEPT !["pid"] = v]]
      BY <1>4 DEF start_control_tunnel, Spawn
    <2>2. UNCHANGED mem
      BY <1>4 DEF start_control_tunnel
    <2>3. Locals(t)
      BY <1>b, <1>f, <2>1, <2>2, SetsLocal DEF Formed
    <2> QED BY <2>3, <1>0, <1>4, <1>a, <1>c, UsualNames DEF start_control_tunnel, At
  <1>5. CASE start_tunnel(t) \/ start_viewer_bg(t) \/ OpenView(t)
    <2>1. \E v : loc' = [loc EXCEPT ![t] = [loc[t] EXCEPT !["pid"] = v]]
      BY <1>5 DEF start_tunnel, start_viewer_bg, OpenView, Spawn
    <2>2. UNCHANGED mem
      BY <1>5 DEF start_tunnel, start_viewer_bg, OpenView
    <2>3. Locals(t)
      BY <1>f, <2>1, <2>2, SetsLocal DEF Formed
    <2> QED BY <2>3, <1>0, <1>5, <1>a, <1>c, UsualNames DEF start_tunnel, start_viewer_bg, OpenView, At
  <1>6. CASE ReadViewer(t)
    <2>1. \E v : loc' = [loc EXCEPT ![t] = [loc[t] EXCEPT !["pid"] = v]]
      BY <1>6 DEF ReadViewer
    <2>2. UNCHANGED mem
      BY <1>6 DEF ReadViewer
    <2>3. Locals(t)
      BY <1>f, <2>1, <2>2, SetsLocal DEF Formed
    <2> QED BY <2>3, <1>0, <1>6, <1>a, <1>c, UsualNames DEF ReadViewer, At, stackVars
  <1>7. CASE SpawnAppId(t)
    <2>1. todo[t] # <<>> /\ Head(todo[t]) \in Usual \ Early
      BY <1>7, UsualNames DEF SpawnAppId, At
    <2>2. PICK s : s = Side(t)
      OBVIOUS
    <2>3. s \in Sides /\ s \in Threads
      BY <2>2 DEF Side, Sides, Threads
    <2>4. PICK r : r = app_id \o <<"exit">>
      OBVIOUS
    <2>5. r \in Seq(Usual)
      BY <2>4, UsualCommands
    <2>6. todo' = [todo EXCEPT ![t] = Tail(@), ![s] = r] /\ loc' = [loc EXCEPT ![s] = loc[t]]
      BY <1>7, <2>2, <2>4 DEF SpawnAppId
    <2>7. Moves(t)
      <3>1. todo \in [Threads -> Seq(Words)]
        BY DEF Formed
      <3>2. /\ todo' = [u \in Threads |-> todo'[u]] /\ todo'[t] \in {Tail(todo[t]), r}
            /\ \A u \in Threads \ {t} : todo'[u] = todo[u] \/ (u = s /\ todo'[u] = r)
        BY <2>3, <2>6, <3>1
      <3>3. \A S \in SUBSET Words : Usual \subseteq S /\ todo[t] \in Seq(S) =>
               Tail(todo[t]) \in Seq(S) /\ r \in Seq(S)
        BY <2>1, <2>5, Rests, MoreSteps
      <3> QED BY <2>3, <2>5, <3>2, <3>3 DEF Moves
    <2>8. Locals(t)
      BY <1>7, <2>3, <2>6 DEF SpawnAppId, Locals, Formed
    <2> QED BY <1>0, <1>7, <1>a, <2>1, <2>7, <2>8 DEF SpawnAppId, stackVars
  <1> QED BY <1>1, <1>2, <1>3, <1>4, <1>5, <1>6, <1>7

\* The steps on the control channel that touch no certificate.
LEMMA ControlPlain ==
    ASSUME Formed, NEW t \in Threads, UNCHANGED <<hostVars, libraryVars>>,
           \/ controld_install(t) /\ ~At(t, "install-tls")
           \/ fetch_control_token(t) \/ controld_uninstall(t)
    PROVE  Ordinary(t)
  <1> DEFINE P == /\ todo[t] # <<>> /\ Head(todo[t]) \in Usual
                  /\ Go(t) \/ Bail(t)
                  /\ UNCHANGED <<loc, mem, file, tmp>> /\ Spared
  <1> SUFFICES P
    BY PlainStep
  <1>0. ASSUME UNCHANGED <<others, tlsFiles>>, daemon' \in Booted PROVE Spared
    BY <1>0 DEF Spared, others, tlsFiles, hostVars, libraryVars
  <1>1. CASE controld_install(t) /\ ~At(t, "install-tls")
    <2>1. /\ At(t, "install-plain")
          /\ Go(t) \/ Bail(t)
          /\ daemon' \in Booted
          /\ UNCHANGED <<loc, mem, file, tmp, others, tlsFiles, token>>
      <3>2. Plain.unit = "plain"
        BY DEF Plain, Daemon
      <3>3. At(t, "install-plain") /\ UNCHANGED <<loc, mem, file, tmp, others, tlsFiles, token>>
        BY <1>1 DEF controld_install
      <3>4. \/ Go(t) /\ daemon' = Plain
            \/ Bail(t) /\ daemon' = Plain
            \/ Bail(t) /\ \E d \in {daemon, Restarted, Down}, unit \in {daemon.unit, "plain"} :
                             daemon' = Daemon(d.mode, unit, d.server, d.ca)
        BY <1>1, <3>2 DEF controld_install, Boot
      <3> QED BY <3>3, <3>4 DEF Booted, Rewritten
    <2> QED BY <1>0, <2>1, UsualNames DEF At
  <1>2. CASE fetch_control_token(t)
    BY <1>0, <1>2, UsualNames DEF fetch_control_token, At, Booted
  <1>3. CASE controld_uninstall(t)
    BY <1>0, <1>3, UsualNames DEF controld_uninstall, At, Run, Booted
  <1> QED BY <1>1, <1>2, <1>3

\* The steps of the library's commands, but for the two that make vbox.app.
LEMMA LibraryPlain ==
    ASSUME Formed, NEW t \in Threads,
           \/ NeedCache(t) \/ Refresh(t) \/ TryCache(t) \/ fetch_guest_icons(t) \/ TryIcons(t)
           \/ WriteApp(t) \/ WriteContext(t) \/ Finish(t) \/ Open(t)
    PROVE  Ordinary(t)
  <1> DEFINE P == /\ todo[t] # <<>> /\ Head(todo[t]) \in Usual
                  /\ Go(t) \/ Bail(t)
                  /\ UNCHANGED <<loc, mem, file, tmp>> /\ Spared
  <1> SUFFICES P
    BY PlainStep
  <1>0. ASSUME UNCHANGED <<keep, loc, appVars>> PROVE UNCHANGED <<loc, mem, file, tmp>> /\ Spared
    BY <1>0 DEF Spared, Booted, keep, appVars, others, stackVars, controlVars, hostVars
  <1>1. CASE NeedCache(t)
    BY <1>0, <1>1, UsualNames DEF NeedCache, refresh_app_library, At
  <1>2. CASE Refresh(t)
    BY <1>0, <1>2, UsualNames DEF Refresh, refresh_app_library, At
  <1>3. CASE TryCache(t) \/ TryIcons(t)
    BY <1>0, <1>3, UsualNames DEF TryCache, TryIcons, At
  <1>4. CASE fetch_guest_icons(t)
    BY <1>0, <1>4, UsualNames DEF fetch_guest_icons, At
  <1>5. CASE WriteApp(t) \/ WriteContext(t)
    BY <1>0, <1>5, UsualNames DEF WriteApp, WriteContext, At
  <1>6. CASE Finish(t) \/ Open(t)
    <2>1. UNCHANGED <<keep, loc, appVars>>
      BY <1>6 DEF Finish, Open, libraryVars, appVars
    <2> QED BY <1>0, <1>6, <2>1, UsualNames DEF Finish, Open, At, Run
  <1> QED BY <1>1, <1>2, <1>3, <1>4, <1>5, <1>6

\* The ones that set local variables.
LEMMA LibraryLocal ==
    ASSUME Formed, NEW t \in Threads,
           find_app_record(t) \/ selected(t) \/ NextBundle(t) \/ remove_launcher_app(t)
    PROVE  Ordinary(t)
  <1> DEFINE P == /\ todo[t] # <<>> /\ Head(todo[t]) \in Usual \ Early
                  /\ Moves(t) /\ Locals(t) /\ StoresKept /\ Spared
  <1> SUFFICES P
    BY LocalStep
  <1>0. ASSUME UNCHANGED <<keep, appVars>> PROVE UNCHANGED mem /\ StoresKept /\ Spared
    BY <1>0 DEF StoresKept, Formed, Spared, Booted, keep, appVars, others, stackVars, controlVars, hostVars
  <1>b. ASSUME UNCHANGED <<loc, mem>> PROVE Locals(t)
    BY <1>b DEF Locals, Formed
  <1>r. ASSUME UNCHANGED mem, NEW v, loc' = [loc EXCEPT ![t] = [loc[t] EXCEPT !["rows"] = v]] PROVE Locals(t)
    <2>1. "rows" \in Fields
      BY DEF Fields
    <2> QED BY <1>r, <2>1, SetsLocal DEF Formed
  <1>1. CASE find_app_record(t) \/ selected(t)
    <2>1. UNCHANGED <<keep, appVars>> /\ Head(todo[t]) \in Usual \ Early /\ todo[t] # <<>>
      BY <1>1, UsualNames DEF find_app_record, selected, At, libraryVars, appVars
    <2>2. Go(t) \/ Bail(t)
      BY <1>1 DEF find_app_record, selected
    <2>3. UNCHANGED loc \/ \E v : loc' = [loc EXCEPT ![t] = [loc[t] EXCEPT !["rows"] = v]]
      BY <1>1 DEF find_app_record, selected
    <2>4. Moves(t)
      BY <2>1, <2>2, MovesOn
    <2> QED BY <1>0, <1>b, <1>r, <2>1, <2>3, <2>4
  <1>2. CASE NextBundle(t)
    <2>1. UNCHANGED <<keep, appVars>> /\ Head(todo[t]) \in Usual \ Early /\ todo[t] # <<>>
      BY <1>2, UsualNames DEF NextBundle, At
    <2>2. PICK r : r = instance_context \o <<"bundle.app", "bundle.context", "bundle">>
      OBVIOUS
    <2>3. r \in Seq(Usual)
      BY <2>2, UsualCommands
    <2>4. Go(t) \/ Jump(t, r)
      BY <1>2, <2>2 DEF NextBundle
    <2>5. Moves(t)
      BY <2>1, <2>3, <2>4, MovesOn
    <2>6. UNCHANGED loc \/ \E a : loc' = [loc EXCEPT ![t].inst = a, ![t].port = Base, ![t].rows = @ \ {a}]
      BY <1>2 DEF NextBundle
    <2>7. ASSUME NEW a, loc' = [loc EXCEPT ![t].inst = a, ![t].port = Base, ![t].rows = @ \ {a}], UNCHANGED mem
          PROVE  Locals(t)
      BY <2>7 DEF Locals, Formed, Fields
    <2> QED BY <1>0, <1>b, <2>1, <2>5, <2>6, <2>7
  <1>3. CASE remove_launcher_app(t)
    <2>1. UNCHANGED <<keep, appVars>> /\ Head(todo[t]) \in Usual \ Early /\ todo[t] # <<>>
      BY <1>3, UsualNames DEF remove_launcher_app, At
    <2>2. Go(t) \/ UNCHANGED todo
      BY <1>3 DEF remove_launcher_app
    <2>3. UNCHANGED loc \/ \E v : loc' = [loc EXCEPT ![t] = [loc[t] EXCEPT !["rows"] = v]]
      BY <1>3 DEF remove_launcher_app
    <2>4. Moves(t)
      BY <2>1, <2>2, MovesOn
    <2> QED BY <1>0, <1>b, <1>r, <2>1, <2>3, <2>4
  <1> QED BY <1>1, <1>2, <1>3

\* The end of a command.
LEMMA ExitPlain ==
    ASSUME Formed, NEW t \in Threads, Exit(t), UNCHANGED <<stackVars, hostVars, libraryVars>>
    PROVE  Ordinary(t)
  <1>1. todo[t] # <<>> /\ Head(todo[t]) \in Usual \ Early
    BY UsualNames DEF Exit, At
  <1>2. Moves(t)
    BY <1>1, MovesOn DEF Exit
  <1>3. DOMAIN NoContext = Fields
    BY DEF NoContext, Fields
  <1>4. Locals(t) /\ StoresKept
    BY <1>3 DEF Exit, Locals, StoresKept, Formed
  <1>5. Spared
    BY DEF Spared, Booted, Exit, others, stackVars, controlVars, hostVars, libraryVars
  <1> QED BY <1>1, <1>2, <1>4, <1>5, LocalStep

\* The steps on the certificates.
KeyStep(t) ==
    /\ \/ tls_bootstrap(t) \/ (\E leaf \in {"server", "client"} : WriteCert(t, leaf))
       \/ (\E field \in {"key", "serverkey", "clientkey"} : write_secret(t, field))
       \/ CopyTls(t) \/ (controld_install(t) /\ At(t, "install-tls"))
    /\ UNCHANGED <<hostVars, libraryVars>>
SwiftStep(t) == write_if_changed(t) \/ swiftc(t)
StoreStep(t) == HostStep(t) /\ UNCHANGED libraryVars

\* A step of a thread is ordinary, or it is one of the marked steps.
LEMMA StepKinds ==
    ASSUME Formed, NEW t \in Threads, Step(t)
    PROVE  Ordinary(t) \/ KeyStep(t) \/ SwiftStep(t) \/ StoreStep(t)
  <1>1. CASE Exit(t) /\ UNCHANGED <<stackVars, hostVars, libraryVars, mix>>
    BY <1>1, ExitPlain
  <1>2. CASE StackStep(t) /\ UNCHANGED <<hostVars, libraryVars, mix>>
    BY <1>2, StackPlain, StackLocal, ControlPlain DEF StackStep, ControlStep, KeyStep
  <1>3. CASE HostStep(t) /\ UNCHANGED <<libraryVars, mix>>
    BY <1>3 DEF StoreStep
  <1>4. CASE LibraryStep(t) /\ UNCHANGED mix
    BY <1>4, LibraryPlain, LibraryLocal DEF LibraryStep, SwiftStep
  <1> QED BY <1>1, <1>2, <1>3, <1>4 DEF Step

-----------------------------------------------------------------------------
(* Lined is an invariant.                                                  *)

\* What every step of a thread does.
Tracks(t) ==
    /\ todo[t] # <<>> /\ Moves(t) /\ Locals(t) /\ history' = history
    /\ DOMAIN file' = Stores /\ DOMAIN tmp' = Stores

\* Of a step on the certificates.
LEMMA KeyTracks ==
    ASSUME Formed, NEW t \in Threads, KeyStep(t)
    PROVE  Tracks(t) /\ Head(todo[t]) \in KeySteps
  <1>c. "ca" \in Fields /\ "pair" \in Fields
    BY DEF Fields
  <1>1. CASE tls_bootstrap(t)
    <2>1. todo[t] # <<>> /\ Head(todo[t]) \in KeySteps /\ history' = history /\ UNCHANGED <<mem, file, tmp>>
      BY <1>1 DEF tls_bootstrap, At, KeySteps, others
    <2>2. Go(t) \/ Bail(t) \/ Skip(t, 2)
      BY <1>1 DEF tls_bootstrap, Mint, WritePem
    <2>3. UNCHANGED loc \/ \E v : loc' = [loc EXCEPT ![t] = [loc[t] EXCEPT !["ca"] = v]]
      BY <1>1 DEF tls_bootstrap, Mint
    <2>4. Locals(t)
      <3>1. CASE UNCHANGED loc
        BY <2>1, <3>1 DEF Locals, Formed
      <3>2. CASE \E v : loc' = [loc EXCEPT ![t] = [loc[t] EXCEPT !["ca"] = v]]
        BY <1>c, <2>1, <3>2, SetsLocal DEF Formed
      <3> QED BY <2>3, <3>1, <3>2
    <2>5. Moves(t)
      BY <2>1, <2>2, MovesOn
    <2> QED BY <2>1, <2>4, <2>5 DEF Tracks, Formed
  <1>2. CASE \E leaf \in {"server", "client"} : WriteCert(t, leaf)
    <2>1. todo[t] # <<>> /\ Head(todo[t]) \in KeySteps /\ history' = history /\ UNCHANGED <<mem, file, tmp>>
      BY <1>2 DEF WriteCert, At, KeySteps, others
    <2>2. Go(t) \/ Bail(t)
      BY <1>2 DEF WriteCert, WritePem
    <2>3. \E v : loc' = [loc EXCEPT ![t] = [loc[t] EXCEPT !["pair"] = v]]
      BY <1>2 DEF WriteCert
    <2>4. Locals(t)
      BY <1>c, <2>1, <2>3, SetsLocal DEF Formed
    <2>5. Moves(t)
      BY <2>1, <2>2, MovesOn
    <2> QED BY <2>1, <2>4, <2>5 DEF Tracks, Formed
  <1>3. CASE \/ \E field \in {"key", "serverkey", "clientkey"} : write_secret(t, field)
             \/ CopyTls(t) \/ (controld_install(t) /\ At(t, "install-tls"))
    <2>1. todo[t] # <<>> /\ Head(todo[t]) \in KeySteps
      BY <1>3 DEF write_secret, CopyTls, At, KeySteps
    <2>2. UNCHANGED <<loc, mem, file, tmp>> /\ history' = history
      BY <1>3 DEF write_secret, CopyTls, controld_install, others
    <2>3. Go(t) \/ Bail(t)
      BY <1>3 DEF write_secret, WritePem, CopyTls, controld_install
    <2>4. Moves(t)
      BY <2>1, <2>3, MovesOn
    <2> QED BY <2>1, <2>2, <2>4 DEF Tracks, Locals, Formed
  <1> QED BY <1>1, <1>2, <1>3 DEF KeyStep

\* Of a step that makes vbox.app.
LEMMA SwiftTracks ==
    ASSUME Formed, NEW t \in Threads, SwiftStep(t)
    PROVE  Tracks(t) /\ Head(todo[t]) \in SwiftSteps
  <1>1. todo[t] # <<>> /\ Head(todo[t]) \in SwiftSteps
    BY DEF SwiftStep, write_if_changed, swiftc, Compile, At, SwiftSteps
  <1>2. UNCHANGED <<mem, file, tmp>> /\ history' = history
    BY DEF SwiftStep, write_if_changed, swiftc, Compile, keep, others
  <1>3. Go(t) \/ Bail(t)
    BY DEF SwiftStep, write_if_changed, swiftc, Compile
  <1>4. Moves(t)
    BY <1>1, <1>3, MovesOn
  <1>5. Locals(t)
    <2>1. "flag" \in Fields
      BY DEF Fields
    <2>2. UNCHANGED loc \/ \E v : loc' = [loc EXCEPT ![t] = [loc[t] EXCEPT !["flag"] = v]]
      BY DEF SwiftStep, write_if_changed, swiftc, Compile
    <2>3. CASE UNCHANGED loc
      BY <1>2, <2>3 DEF Locals, Formed
    <2>4. CASE \E v : loc' = [loc EXCEPT ![t] = [loc[t] EXCEPT !["flag"] = v]]
      BY <1>2, <2>1, <2>4, SetsLocal DEF Formed
    <2> QED BY <2>2, <2>3, <2>4
  <1> QED BY <1>1, <1>2, <1>4, <1>5 DEF Tracks, Formed

\* Of a step of a command on machines.
LEMMA StoreTracks ==
    ASSUME Formed, NEW t \in Threads, StoreStep(t)
    PROVE  Tracks(t) /\ Head(todo[t]) \in StoreSteps /\ UNCHANGED loc
  <1> DEFINE P == /\ todo[t] # <<>> /\ Head(todo[t]) \in StoreSteps
                  /\ Go(t) \/ Bail(t)
                  /\ UNCHANGED loc /\ history' = history
                  /\ DOMAIN mem' = Threads /\ \A u \in Threads \ {t} : mem'[u] = mem[u]
                  /\ DOMAIN file' = Stores /\ DOMAIN tmp' = Stores
  <1>0. ASSUME UNCHANGED mem PROVE DOMAIN mem' = Threads /\ \A u \in Threads \ {t} : mem'[u] = mem[u]
    BY <1>0 DEF Formed
  <1>s. ASSUME UNCHANGED same PROVE UNCHANGED loc /\ history' = history
    BY <1>s DEF same, others
  <1>f. DOMAIN file = Stores /\ DOMAIN tmp = Stores
    BY DEF Formed
  <1>1. ASSUME find_one(t) \/ set_password(t) \/ delete_password(t) \/ Forget(t) PROVE P
    BY <1>0, <1>1, <1>s, <1>f DEF find_one, set_password, delete_password, Forget, At, StoreSteps
  <1>2. ASSUME LoadHosts(t) \/ LoadOverrides(t) PROVE P
    <2>1. DOMAIN mem' = Threads /\ \A u \in Threads \ {t} : mem'[u] = mem[u]
      BY <1>2 DEF LoadHosts, LoadOverrides, Load, Formed
    <2> QED BY <1>2, <1>s, <1>f, <2>1 DEF LoadHosts, LoadOverrides, Run, At, StoreSteps
  <1>3. ASSUME NEW step \in Edits, Edit(t, step) PROVE P
    <2>1. DOMAIN tmp' = Stores
      BY <1>3, <1>f DEF Edit, Write
    <2>2. Go(t) \/ Bail(t)
      BY <1>3 DEF Edit, Write
    <2>3. todo[t] # <<>> /\ Head(todo[t]) \in StoreSteps /\ UNCHANGED <<same, mem, file>>
      BY <1>3 DEF Edit, At, StoreSteps
    <2> QED BY <1>0, <1>s, <1>f, <2>1, <2>2, <2>3
  <1>4. ASSUME save(t) \/ save_overrides(t) PROVE P
    <2>1. DOMAIN tmp' = Stores /\ DOMAIN file' = Stores
      BY <1>4, <1>f DEF save, save_overrides, Rename
    <2>2. Go(t) \/ Bail(t)
      BY <1>4 DEF save, save_overrides, Rename
    <2> QED BY <1>0, <1>4, <1>s, <2>1, <2>2 DEF save, save_overrides, At, StoreSteps
  <1>5. ASSUME control_cmd(t) \/ delete_vm(t) PROVE P
    BY <1>0, <1>5, <1>s, <1>f DEF control_cmd, delete_vm, At, StoreSteps
  <1>6. P
    BY <1>1, <1>2, <1>3, <1>4, <1>5 DEF StoreStep, HostStep
  <1>7. Moves(t)
    BY <1>6, MovesOn
  <1>8. Locals(t)
    BY <1>6 DEF Locals, Formed
  <1> QED BY <1>6, <1>7, <1>8 DEF Tracks

\* Of any step.
LEMMA StepTracks ==
    ASSUME Formed, NEW t \in Threads, Step(t)
    PROVE  Tracks(t)
  <1>1. ASSUME Ordinary(t) PROVE Tracks(t)
    BY <1>1 DEF Ordinary, Tracks, Spared, StoresKept
  <1> QED BY <1>1, StepKinds, KeyTracks, SwiftTracks, StoreTracks

\* Such a step keeps Lined.
LEMMA LinedMoves ==
    ASSUME Lined, NEW t \in Threads, Moves(t), Locals(t), history \subseteq history',
           DOMAIN file' = Stores, DOMAIN tmp' = Stores
    PROVE  Lined'
  <1>1. \A S \in SUBSET Words : Usual \subseteq S =>
           \A u \in Threads : todo[u] \in Seq(S) => todo'[u] \in Seq(S)
    <2> SUFFICES ASSUME NEW S \in SUBSET Words, Usual \subseteq S, NEW u \in Threads, todo[u] \in Seq(S)
                 PROVE  todo'[u] \in Seq(S)
      OBVIOUS
    <2>1. CASE u = t
      BY <2>1 DEF Moves
    <2>2. CASE u # t
      BY <2>2, MoreSteps DEF Moves
    <2> QED BY <2>1, <2>2
  <1>2. Usual \in SUBSET Words /\ Words \in SUBSET Words /\ Usual \subseteq Words
    BY DEF Words
  <1>3. \A u \in Threads : todo'[u] \in Seq(Words) /\ (todo[u] \in Seq(Usual) => todo'[u] \in Seq(Usual))
    BY <1>1, <1>2 DEF Lined, Formed
  <1>4. todo' \in [Threads -> Seq(Words)]
    BY <1>3 DEF Moves
  <1>5. Sides \subseteq Threads
    BY DEF Sides, Threads
  <1>6. Formed'
    BY <1>3, <1>4, <1>5 DEF Lined, Formed, Locals
  <1>7. Solo'
    BY <1>3 DEF Lined, Solo
  <1> QED BY <1>6, <1>7 DEF Lined

\* What a new command has to do.
Fresh(m, s) ==
    \/ s \in Seq(Usual)
    \/ s \in KeyLists /\ Head(s) \in {"build", "ca"}
    \/ s \in SwiftLists /\ Head(s) \in Early
    \/ m \in Machines /\ StoreFirst(m, s) /\ s \in Seq(Usual \cup StoreSteps)

\* A process p begins a command.
Begins(p, i, base, s) ==
    /\ Free(p)
    /\ todo' = [todo EXCEPT ![Main(p)] = s] /\ loc' = [loc EXCEPT ![Main(p)] = Context(i, base)]
    /\ history' = IF Quiet THEN history ELSE history \cup {"overlap"}
    /\ UNCHANGED <<mem, file, tmp, tls, guest, minted, daemon, keychain, vm, src, bin, broken>>

\* Every command begins with one of those lists.
LEMMA BeginKinds ==
    ASSUME Arguments, NEW p \in Procs, BeginCommand(p)
    PROVE  Arguments' /\ \E i, base, s : Begins(p, i, base, s) /\ Fresh(i, s)
  <1>1. PICK c \in mix : Dispatch(p, c) /\ mix' = mix \ {c}
    BY DEF BeginCommand
  <1>2. Arguments'
    BY <1>1 DEF Arguments
  <1>3. ASSUME NEW i, NEW base, NEW steps, Begin(p, i, base, steps)
        PROVE  Begins(p, i, base, steps \o <<"exit">>)
    BY <1>3 DEF Begin, Begins, BeginCommand, stackVars, controlVars, hostVars, libraryVars
  <1>4. ASSUME NEW i, NEW base, NEW steps, Begin(p, i, base, steps), Fresh(i, steps \o <<"exit">>)
        PROVE  \E j, b, s : Begins(p, j, b, s) /\ Fresh(j, s)
    BY <1>3, <1>4
  <1>5. CASE c[1] \in DOMAIN StackCommands /\ c[1] # "bundle" /\ Begin(p, c[2], Base, StackCommands[c[1]])
    <2>1. Fresh(c[2], StackCommands[c[1]] \o <<"exit">>)
      <3>1. CASE c[1] \notin {"installtls", "bootstrap"}
        BY <1>5, <3>1, UsualCommands DEF Fresh
      <3>2. CASE c[1] = "installtls"
        BY <3>2, KeyCommands DEF Fresh
      <3>3. CASE c[1] = "bootstrap"
        BY <3>3, KeyCommands DEF Fresh
      <3> QED BY <3>1, <3>2, <3>3
    <2> QED BY <1>2, <1>4, <1>5, <2>1
  <1>6. ASSUME NEW i, NEW base, Begin(p, i, base, run_launch)
        PROVE  \E j, b, s : Begins(p, j, b, s) /\ Fresh(j, s)
    BY <1>4, <1>6, UsualCommands DEF Fresh
  <1>7. CASE c[1] \in DOMAIN LibraryCommands /\ Begin(p, c[2], Base, LibraryCommands[c[1]])
    <2>1. Fresh(c[2], LibraryCommands[c[1]] \o <<"exit">>)
      <3>1. CASE c[1] \notin {"ui", "apps"}
        BY <1>7, <3>1, UsualCommands DEF Fresh
      <3>2. CASE c[1] = "ui"
        BY <3>2, SwiftCommands DEF Fresh
      <3>3. CASE c[1] = "apps"
        BY <3>3, SwiftCommands DEF Fresh
      <3> QED BY <3>1, <3>2, <3>3
    <2> QED BY <1>2, <1>4, <1>7, <2>1
  <1>8. CASE c[1] \in HostCommands /\ Begin(p, c[2], Base, HostSteps(c[1], c[2]))
    <2>1. Fresh(c[2], HostSteps(c[1], c[2]) \o <<"exit">>)
      BY <1>8, StoreCommands DEF Fresh, Arguments
    <2> QED BY <1>2, <1>4, <1>8, <2>1
  <1>9. \E j, b, s : Begins(p, j, b, s) /\ Fresh(j, s)
    BY <1>1, <1>5, <1>6, <1>7, <1>8 DEF Dispatch
  <1> QED BY <1>2, <1>9

\* Such a list has steps that are marked for one reason only.
LEMMA FreshSteps ==
    ASSUME NEW m, NEW s, Fresh(m, s)
    PROVE  /\ s \in Seq(Words)
           /\ s \in Seq(Words \ KeySteps) \/ (s \in KeyLists /\ s # <<>> /\ Head(s) \in {"build", "ca"})
           /\ s \in Seq(Words \ SwiftSteps) \/ (s \in SwiftLists /\ s # <<>> /\ Head(s) \in Early)
           /\ s \in Seq(Words \ StoreSteps) \/ (m \in Machines /\ StoreFirst(m, s))
  <1>1. /\ Usual \subseteq Words /\ Usual \cup KeySteps \subseteq Words
        /\ Usual \cup SwiftSteps \subseteq Words /\ Usual \cup StoreSteps \subseteq Words
    BY DEF Words, Marked
  <1>2. /\ Usual \subseteq Words \ KeySteps /\ Usual \subseteq Words \ SwiftSteps
        /\ Usual \subseteq Words \ StoreSteps
        /\ Usual \cup KeySteps \subseteq Words \ SwiftSteps /\ Usual \cup KeySteps \subseteq Words \ StoreSteps
        /\ Usual \cup SwiftSteps \subseteq Words \ KeySteps /\ Usual \cup SwiftSteps \subseteq Words \ StoreSteps
        /\ Usual \cup StoreSteps \subseteq Words \ KeySteps /\ Usual \cup StoreSteps \subseteq Words \ SwiftSteps
    BY <1>1, Kinds4
  <1>3. CASE s \in Seq(Usual)
    BY <1>1, <1>2, <1>3, MoreSteps
  <1>4. CASE s \in KeyLists /\ Head(s) \in {"build", "ca"}
    <2>1. s # <<>> /\ s \in Seq(Usual \cup KeySteps)
      BY <1>4, KeyFollows DEF KeyNext
    <2> QED BY <1>1, <1>2, <1>4, <2>1, MoreSteps
  <1>5. CASE s \in SwiftLists /\ Head(s) \in Early
    <2>1. s # <<>> /\ s \in Seq(Usual \cup SwiftSteps)
      BY <1>5, SwiftFollows DEF SwiftNext
    <2> QED BY <1>1, <1>2, <1>5, <2>1, MoreSteps
  <1>6. CASE m \in Machines /\ StoreFirst(m, s) /\ s \in Seq(Usual \cup StoreSteps)
    BY <1>1, <1>2, <1>6, MoreSteps
  <1> QED BY <1>3, <1>4, <1>5, <1>6 DEF Fresh

\* Beginning a command keeps Lined.
LEMMA LinedBegin ==
    ASSUME Lined, NEW p \in Procs, NEW i, NEW base, NEW s, Begins(p, i, base, s), Fresh(i, s)
    PROVE  /\ Lined' /\ history \subseteq history'
           /\ Main(p) \in Threads /\ todo'[Main(p)] = s /\ loc'[Main(p)].inst = i
           /\ "overlap" \notin history' => /\ "overlap" \notin history /\ history' = history
                                           /\ Quiet /\ \A u \in Threads \ {Main(p)} : todo'[u] = <<>>
  <1>1. PICK t : t = Main(p)
    OBVIOUS
  <1>2. t \in Threads /\ t \notin Sides
    BY <1>1 DEF Main, Threads, Sides
  <1>3. /\ todo' = [todo EXCEPT ![t] = s] /\ loc' = [loc EXCEPT ![t] = Context(i, base)]
        /\ UNCHANGED <<mem, file, tmp>>
    BY <1>1 DEF Begins
  <1>4. s \in Seq(Words)
    BY FreshSteps
  <1>5. DOMAIN Context(i, base) = Fields /\ Context(i, base).inst = i
    BY DEF Context, NoContext, Fields
  <1>6. Formed'
    <2>1. todo' \in [Threads -> Seq(Words)] /\ \A u \in Sides : todo'[u] = todo[u]
      BY <1>2, <1>3, <1>4 DEF Lined, Formed, Sides, Threads
    <2>2. DOMAIN loc' = Threads /\ \A u \in Threads : DOMAIN loc'[u] = Fields
      BY <1>2, <1>3, <1>5 DEF Lined, Formed
    <2> QED BY <1>3, <2>1, <2>2 DEF Lined, Formed
  <1>7. history \subseteq history'
    BY DEF Begins
  <1>8. "overlap" \notin history' => /\ "overlap" \notin history /\ history' = history
                                     /\ Quiet /\ \A u \in Threads \ {t} : todo'[u] = <<>>
    BY <1>2, <1>3 DEF Begins, Quiet, Idle, Lined, Formed
  <1>9. Solo'
    BY <1>8, UsualEnds DEF Solo
  <1>10. todo'[t] = s /\ loc'[t].inst = i
    BY <1>2, <1>3, <1>5 DEF Lined, Formed
  <1> QED BY <1>1, <1>2, <1>6, <1>7, <1>8, <1>9, <1>10 DEF Lined

\* What no process or tool of the model's other actions touches.
Untouched ==
    /\ UNCHANGED <<loc, mem, file, tmp, tls, guest, minted, keychain, vm, src, bin, broken>>
    /\ daemon' \in Booted

\* The steps of the system.
LEMMA NextKinds ==
    ASSUME Lined, Arguments, [Next]_vars
    PROVE  /\ Arguments'
           /\ \/ \E p \in Procs : \E i, base, s : Begins(p, i, base, s) /\ Fresh(i, s)
              \/ \E t \in Threads : Step(t)
              \/ \E p \in Procs : /\ todo[Main(p)] # <<>> /\ Bail(Main(p)) /\ Untouched
                                  /\ history' = history \cup {"kill"}
              \/ UNCHANGED <<todo, history>> /\ Untouched
  <1>1. ASSUME NEW p \in Procs, BeginCommand(p)
        PROVE  Arguments' /\ \E i, base, s : Begins(p, i, base, s) /\ Fresh(i, s)
    BY <1>1, BeginKinds
  <1>2. ASSUME NEW t \in Threads, Step(t) PROVE Arguments'
    BY <1>2 DEF Step, Arguments
  <1>3. ASSUME NEW p \in Procs, KillCommand(p), UNCHANGED <<hostVars, libraryVars, mix>>
        PROVE  /\ Arguments'
               /\ todo[Main(p)] # <<>> /\ Bail(Main(p)) /\ Untouched
               /\ history' = history \cup {"kill"}
    BY <1>3 DEF KillCommand, Kill, Idle, Untouched, Booted, controlVars, hostVars, libraryVars, Arguments
  <1>4. ASSUME NEW p \in Live, CloseViewer(p), UNCHANGED <<hostVars, libraryVars, mix>>
        PROVE  Arguments' /\ UNCHANGED <<todo, history>> /\ Untouched
    BY <1>4 DEF CloseViewer, cliVars, Untouched, Booted, controlVars, hostVars, libraryVars, Arguments
  <1>5. ASSUME NEW p \in Live, TunnelDies(p), UNCHANGED <<hostVars, libraryVars, mix>>
        PROVE  Arguments' /\ UNCHANGED <<todo, history>> /\ Untouched
    BY <1>5 DEF TunnelDies, Untouched, Booted, controlVars, hostVars, libraryVars, Arguments
  <1>6. ASSUME Upgrade, UNCHANGED mix
        PROVE  Arguments' /\ UNCHANGED <<todo, history>> /\ Untouched
    BY <1>6 DEF Upgrade, cliVars, stackVars, Untouched, Booted, controlVars, hostVars, Arguments
  <1>7. ASSUME UNCHANGED vars
        PROVE  Arguments' /\ UNCHANGED <<todo, history>> /\ Untouched
    BY <1>7 DEF vars, cliVars, stackVars, Untouched, Booted, controlVars, hostVars, libraryVars, Arguments
  <1>8. ASSUME DaemonRestarts, UNCHANGED <<ownVars, hostVars, libraryVars, mix>>
        PROVE  Arguments' /\ UNCHANGED <<todo, history>> /\ Untouched
    BY <1>8 DEF DaemonRestarts, Boot, cliVars, tlsFiles, Untouched, Booted, hostVars, libraryVars, Arguments
  <1> QED BY <1>1, <1>2, <1>3, <1>4, <1>5, <1>6, <1>7, <1>8 DEF Next, Surroundings

\* A command that is killed.
LEMMA KillMoves ==
    ASSUME Formed, NEW p \in Procs, todo[Main(p)] # <<>>, Bail(Main(p)), Untouched
    PROVE  /\ Main(p) \in Threads /\ Moves(Main(p)) /\ Locals(Main(p))
           /\ DOMAIN file' = Stores /\ DOMAIN tmp' = Stores
           /\ todo'[Main(p)] = <<"exit">>
  <1>1. Main(p) \in Threads
    BY DEF Main, Threads
  <1>2. Moves(Main(p))
    BY <1>1, MovesOn
  <1>3. Locals(Main(p)) /\ DOMAIN file' = Stores /\ DOMAIN tmp' = Stores
    BY DEF Locals, Formed, Untouched
  <1>4. todo'[Main(p)] = <<"exit">>
    BY <1>1 DEF Bail, Formed
  <1> QED BY <1>1, <1>2, <1>3, <1>4

\* Lined is an invariant.
LEMMA LinedNext ==
    ASSUME Lined, Arguments, [Next]_vars
    PROVE  Lined'
  <1>1. ASSUME NEW p \in Procs, NEW i, NEW base, NEW s, Begins(p, i, base, s), Fresh(i, s) PROVE Lined'
    BY <1>1, LinedBegin
  <1>2. ASSUME NEW t \in Threads, Step(t) PROVE Lined'
    <2>1. Tracks(t)
      BY <1>2, StepTracks DEF Lined
    <2> QED BY <2>1, LinedMoves DEF Tracks
  <1>3. ASSUME NEW p \in Procs, todo[Main(p)] # <<>>, Bail(Main(p)), Untouched,
               history' = history \cup {"kill"}
        PROVE  Lined'
    <2>1. history \subseteq history'
      BY <1>3
    <2> QED BY <1>3, <2>1, KillMoves, LinedMoves DEF Lined
  <1>4. ASSUME UNCHANGED <<todo, history>>, Untouched PROVE Lined'
    BY <1>4 DEF Lined, Formed, Solo, Untouched
  <1> QED BY <1>1, <1>2, <1>3, <1>4, NextKinds

-----------------------------------------------------------------------------
(* The certificates.                                                       *)

\* Words without the ones marked for a reason.
LEMMA Without ==
    /\ Words \ KeySteps \in SUBSET Words /\ Usual \subseteq Words \ KeySteps
    /\ Words \ SwiftSteps \in SUBSET Words /\ Usual \subseteq Words \ SwiftSteps
    /\ Words \ StoreSteps \in SUBSET Words /\ Usual \subseteq Words \ StoreSteps
    /\ \A s \in Seq(Usual) : /\ s \in Seq(Words \ KeySteps) /\ s \in Seq(Words \ SwiftSteps)
                             /\ s \in Seq(Words \ StoreSteps)
  <1>1. Usual \subseteq Words
    BY DEF Words
  <1>2. /\ Usual \subseteq Words \ KeySteps /\ Usual \subseteq Words \ SwiftSteps
        /\ Usual \subseteq Words \ StoreSteps
    BY <1>1, Kinds4
  <1> QED BY <1>2, MoreSteps

\* The contents of a file.
LEMMA PemFacts ==
    /\ NoFile \in Pem /\ Cut \in Pem /\ ~(NoFile.pair > 0) /\ ~(Cut.pair > 0)
    /\ \A x \in Pem : /\ x.pair \in Int
                      /\ x.pair > 0 => x # NoFile /\ x.pair \in Nat \ {0}
                      /\ x # NoFile /\ x # Cut => x.pair > 0
    /\ \A n \in Nat \ {0} : /\ Key(n) \in Pem /\ Key(n).pair = n
                           /\ \A b \in Nat : /\ Cert(b, n) \in Pem /\ Cert(b, n).pair = n
                                             /\ Cert(b, n).by = b
  BY DEF Pem, NoFile, Cut, Key, Cert

\* A write of one file, which may fail.
LEMMA Written ==
    ASSUME tls \in [Pems -> Pem], NEW f \in Pems, NEW x \in Pem, NEW t, WritePem(t, f, x)
    PROVE  /\ tls' \in [Pems -> Pem] /\ \A g \in Pems \ {f} : tls'[g] = tls[g]
           /\ tls'[f] \in {tls[f], Cut, x}
           /\ (Go(t) /\ tls'[f] = x) \/ Bail(t)
  BY PemFacts DEF WritePem

\* The daemon has only certificates of the guest's.
LEMMA OneCaBoots ==
    ASSUME OneCa, UNCHANGED <<tls, guest, minted>>, daemon' \in Booted \cup {WithTls}
    PROVE  OneCa'
  <1>1. /\ Down.mode # "tls" /\ Plain.mode # "tls"
        /\ WithTls.mode = "tls" => /\ guest.server.pair > 0 /\ guest.ca.pair > 0
                                  /\ WithTls.server = guest.server /\ WithTls.ca = guest.ca
    BY DEF Down, Plain, WithTls, Match, Daemon
  <1>2. Restarted.mode = "tls" => Restarted = WithTls
    BY <1>1 DEF Restarted
  <1>3. daemon'.mode = "tls" =>
           \/ daemon.mode = "tls" /\ daemon'.server = daemon.server /\ daemon'.ca = daemon.ca
           \/ WithTls.mode = "tls" /\ daemon'.server = WithTls.server /\ daemon'.ca = WithTls.ca
    <2>1. CASE daemon' \in {daemon, Down, Plain, Restarted, WithTls}
      BY <1>1, <1>2, <2>1
    <2>2. CASE daemon' \in Rewritten
      <3>1. PICK d \in {daemon, Restarted, Down}, unit \in {daemon.unit, "plain", "tls"} :
               daemon' = Daemon(d.mode, unit, d.server, d.ca)
        BY <2>2 DEF Rewritten
      <3>2. daemon'.mode = d.mode /\ daemon'.server = d.server /\ daemon'.ca = d.ca
        BY <3>1 DEF Daemon
      <3> QED BY <1>1, <1>2, <3>2
    <2> QED BY <2>1, <2>2 DEF Booted
  <1>4. daemon'.mode = "tls" => K > 0 /\ daemon'.server.by = K /\ daemon'.ca.pair = K
    BY <1>1, <1>3 DEF OneCa
  <1> QED BY <1>4 DEF OneCa, K

\* A step that touches no certificate.
LEMMA KeyedAside ==
    ASSUME Lined, Keyed, NEW t \in Threads, Tracks(t), UNCHANGED <<tls, guest, minted>>,
           daemon' \in Booted, Head(todo[t]) \notin KeySteps,
           Head(todo[t]) = "build" => loc' = loc /\ todo'[t] \in {Tail(todo[t]), <<"exit">>}
    PROVE  Keyed'
  <1> SUFFICES ASSUME "overlap" \notin history'
               PROVE  /\ OneCa'
                      /\ \A u \in Threads :
                            todo'[u] \in Seq(Words \ KeySteps) \/ (todo'[u] \in KeyLists /\ CaAt(u)')
    BY DEF Keyed
  <1>1. "overlap" \notin history /\ OneCa
    BY DEF Tracks, Keyed
  <1>2. OneCa'
    BY <1>1, OneCaBoots
  <1>3. ASSUME NEW u \in Threads, u # t
        PROVE  todo'[u] \in Seq(Words \ KeySteps) \/ (todo'[u] \in KeyLists /\ CaAt(u)')
    <2>1. CASE u \in Sides
      <3>1. todo'[u] \in Seq(Usual)
        BY <1>3, <2>1 DEF Tracks, Moves, Lined, Formed
      <3> QED BY <3>1, Without
    <2>2. CASE u \notin Sides
      <3>1. todo'[u] = todo[u] /\ loc'[u] = loc[u]
        BY <1>3, <2>2 DEF Tracks, Moves, Locals
      <3> QED BY <1>1, <3>1 DEF Keyed, CaAt, At, K
    <2> QED BY <2>1, <2>2
  <1>4. CASE todo[t] \in Seq(Words \ KeySteps)
    BY <1>2, <1>3, <1>4, Without DEF Tracks, Moves
  <1>5. CASE todo[t] \in KeyLists
    <2>1. PICK r : r = Tail(todo[t])
      OBVIOUS
    <2>q. PICK q : q = SubSeq(todo[t], 3, Len(todo[t]))
      OBVIOUS
    <2>k. KeyNext(todo[t], r, q)
      BY <1>5, <2>1, <2>q, KeyFollows
    <2>2. Head(todo[t]) = "build" /\ Head(r) = "ca" /\ (r \in KeyLists \/ r \in Seq(Usual))
      BY <2>k DEF KeyNext
    <2>3. CASE todo'[t] = <<"exit">>
      BY <1>2, <1>3, <2>3, UsualEnds, Without
    <2>4. CASE todo'[t] = r
      BY <1>2, <1>3, <2>2, <2>4, Without DEF CaAt, At
    <2> QED BY <2>1, <2>2, <2>3, <2>4
  <1> QED BY <1>1, <1>4, <1>5 DEF Keyed

\* While a thread has a marked step to take, the others have none.
LEMMA Alone ==
    ASSUME Lined, "overlap" \notin history, NEW t \in Threads, Tracks(t), Head(todo[t]) \notin Usual,
           NEW u \in Threads, u # t
    PROVE  todo[u] \in Seq(Usual) /\ todo'[u] \in Seq(Usual)
  <1>1. todo[t] \notin Seq(Usual)
    BY Rests DEF Tracks
  <1>2. todo[u] \in Seq(Usual)
    BY <1>1 DEF Lined, Solo
  <1> QED BY <1>2 DEF Tracks, Moves

\* A step on the certificates.
LEMMA KeyedKey ==
    ASSUME Lined, Keyed, NEW t \in Threads, KeyStep(t)
    PROVE  Keyed'
  <1>1. Tracks(t) /\ Head(todo[t]) \in KeySteps /\ todo[t] # <<>>
    BY KeyTracks DEF Lined, Tracks
  <1> SUFFICES ASSUME "overlap" \notin history'
               PROVE  /\ OneCa'
                      /\ \A u \in Threads :
                            todo'[u] \in Seq(Words \ KeySteps) \/ (todo'[u] \in KeyLists /\ CaAt(u)')
    BY DEF Keyed
  <1>2. "overlap" \notin history /\ OneCa
    BY <1>1 DEF Tracks, Keyed
  <1>3. \A u \in Threads : u # t => todo'[u] \in Seq(Words \ KeySteps)
    <2>1. Head(todo[t]) \notin Usual
      BY <1>1, Kinds4
    <2> QED BY <1>1, <1>2, <2>1, Alone, Without
  <1>4. todo[t] \in KeyLists /\ CaAt(t)
    <2>1. todo[t] \notin Seq(Words \ KeySteps)
      BY <1>1, Rests
    <2> QED BY <1>2, <2>1 DEF Keyed
  <1>5. PICK s : s = todo[t]
    OBVIOUS
  <1>6. PICK r : r = Tail(s)
    OBVIOUS
  <1>7. PICK q : q = SubSeq(s, 3, Len(s))
    OBVIOUS
  <1>8. KeyNext(s, r, q)
    BY <1>4, <1>5, <1>6, <1>7, KeyFollows
  <1>9. /\ Go(t) => todo'[t] = r
        /\ Bail(t) => todo'[t] = <<"exit">>
        /\ Skip(t, 2) => todo'[t] = q
    BY <1>5, <1>6, <1>7 DEF Go, Bail, Skip, Lined, Formed
  <1>10. SUFFICES OneCa' /\ (todo'[t] \in Seq(Words \ KeySteps) \/ (todo'[t] \in KeyLists /\ CaAt(t)'))
    BY <1>3
  <1>11. r \in KeyLists \/ r \in Seq(Words \ KeySteps)
    BY <1>8, Without DEF KeyNext
  <1>12. <<"exit">> \in Seq(Words \ KeySteps)
    BY UsualEnds, Without
  <1>l. DOMAIN loc = Threads /\ "ca" \in DOMAIN loc[t] /\ "pair" \in DOMAIN loc[t]
    BY DEF Lined, Formed, Fields
  <1>p. /\ tls \in [Pems -> Pem] /\ guest \in [{"server", "serverkey", "ca"} -> Pem] /\ minted \in Nat
        /\ minted + 1 \in Nat \ {0}
    BY <1>2 DEF OneCa
  <1>f. /\ "ca" \in Pems /\ "key" \in Pems /\ "server" \in Pems /\ "serverkey" \in Pems
        /\ "client" \in Pems /\ "clientkey" \in Pems
    BY DEF Pems
  <1>i. /\ tls.ca \in Pem /\ tls.key \in Pem /\ tls.server \in Pem /\ tls.serverkey \in Pem
        /\ tls.client \in Pem /\ tls.clientkey \in Pem
        /\ tls.ca.pair \in Int /\ K \in Int /\ tls.server.pair \in Int /\ tls.client.pair \in Int
    BY <1>p, <1>f, PemFacts DEF K
  <1>13. CASE tls_bootstrap(t)
    <2>1. Head(s) = "ca" /\ UNCHANGED <<guest, daemon>>
      BY <1>5, <1>13 DEF tls_bootstrap, At
    <2>2. CASE /\ NoFile \notin {tls.ca, tls.key} /\ Cut \notin {tls.ca, tls.key} /\ Skip(t, 2)
               /\ loc' = [loc EXCEPT ![t].ca = tls.key.pair] /\ UNCHANGED <<tls, minted>>
      <3>1. /\ todo'[t] = q /\ loc'[t].ca = K
        BY <1>9, <1>l, <2>2 DEF K
      <3>2. q \in KeyLists /\ Head(q) = "server"
        BY <1>8, <2>1 DEF KeyNext
      <3>3. OneCa' /\ K' = K
        BY <1>2, <2>1, <2>2 DEF OneCa, K
      <3>4. K > 0
        BY <1>i, <2>2, PemFacts DEF K
      <3> QED BY <3>1, <3>2, <3>3, <3>4 DEF CaAt, At
    <2>3. CASE NoFile \in {tls.ca, tls.key} /\ Mint(t)
      <3>1. /\ minted' = minted + 1 /\ loc'[t].ca = minted + 1
            /\ WritePem(t, "ca", Cert(minted + 1, minted + 1))
        BY <1>l, <2>3 DEF Mint
      <3>2. Head(r) = "key"
        BY <1>8, <2>1 DEF KeyNext
      <3>3. ~(K > 0)
        BY <1>2, <1>i, <2>3, PemFacts DEF OneCa, K
      <3>4. /\ tls' \in [Pems -> Pem] /\ \A g \in Pems \ {"ca"} : tls'[g] = tls[g]
            /\ (Go(t) /\ tls'["ca"] = Cert(minted + 1, minted + 1)) \/ Bail(t)
        BY <1>p, <1>f, <3>1, Written, PemFacts
      <3>5. tls'.key = tls.key /\ tls'.server = tls.server /\ tls'.client = tls.client /\ K' = K
        BY <1>f, <3>4 DEF K
      <3>6. OneCa'
        BY <1>2, <1>p, <2>1, <3>1, <3>3, <3>4, <3>5 DEF OneCa
      <3>7. CASE Bail(t)
        BY <1>9, <1>12, <3>6, <3>7
      <3>8. CASE Go(t) /\ tls'["ca"] = Cert(minted + 1, minted + 1)
        <4>1. tls'.ca.pair = minted + 1 /\ minted + 1 > 0
          BY <1>p, <3>8, PemFacts
        <4>2. todo'[t] = r
          BY <1>9, <3>8
        <4> QED BY <1>11, <3>1, <3>2, <3>3, <3>5, <3>6, <4>1, <4>2 DEF CaAt, At
      <3> QED BY <3>4, <3>7, <3>8
    <2>4. CASE Bail(t) /\ UNCHANGED <<tls, minted>>
      <3>1. OneCa'
        BY <1>2, <2>1, <2>4 DEF OneCa, K
      <3> QED BY <1>9, <1>12, <2>4, <3>1
    <2> QED BY <1>13, <2>2, <2>3, <2>4 DEF tls_bootstrap
  <1>14. CASE write_secret(t, "key")
    <2>1. Head(s) = "key" /\ UNCHANGED <<loc, guest, minted, daemon>> /\ WritePem(t, "key", Key(loc[t].ca))
      BY <1>5, <1>14 DEF write_secret, At
    <2>2. Head(r) = "server"
      BY <1>8, <2>1 DEF KeyNext
    <2>3. loc[t].ca = tls.ca.pair /\ tls.ca.pair > 0 /\ ~(K > 0)
      BY <1>1, <1>4, <1>5, <2>1 DEF CaAt, At
    <2>4. loc[t].ca \in Nat \ {0} /\ Key(loc[t].ca) \in Pem /\ Key(loc[t].ca).pair = loc[t].ca
      BY <1>i, <2>3, PemFacts
    <2>5. /\ tls' \in [Pems -> Pem] /\ \A g \in Pems \ {"key"} : tls'[g] = tls[g]
          /\ tls'["key"] \in {tls["key"], Cut, Key(loc[t].ca)}
          /\ (Go(t) /\ tls'["key"] = Key(loc[t].ca)) \/ Bail(t)
      BY <1>p, <1>f, <2>1, <2>4, Written
    <2>6. tls'.ca = tls.ca /\ tls'.server = tls.server /\ tls'.client = tls.client
      BY <1>f, <2>5
    <2>7. K' > 0 => K' = tls.ca.pair
      BY <2>3, <2>4, <2>5, PemFacts DEF K
    <2>8. OneCa'
      BY <1>2, <1>p, <2>1, <2>3, <2>5, <2>6, <2>7 DEF OneCa
    <2>9. CASE Bail(t)
      BY <1>9, <1>12, <2>8, <2>9
    <2>10. CASE Go(t) /\ tls'["key"] = Key(loc[t].ca)
      <3>1. K' = loc[t].ca /\ K' > 0 /\ todo'[t] = r
        BY <1>9, <2>3, <2>4, <2>10 DEF K
      <3> QED BY <1>11, <2>1, <2>2, <2>8, <3>1 DEF CaAt, At
    <2> QED BY <2>5, <2>9, <2>10
  <1>15. ASSUME NEW leaf \in {"server", "client"}, WriteCert(t, leaf)
         PROVE  OneCa' /\ (todo'[t] \in Seq(Words \ KeySteps) \/ (todo'[t] \in KeyLists /\ CaAt(t)'))
    <2>1. /\ Head(s) = leaf /\ UNCHANGED <<guest, daemon>> /\ minted' = minted + 1
          /\ loc'[t].pair = minted + 1 /\ loc'[t].ca = loc[t].ca
          /\ WritePem(t, leaf, Cert(loc[t].ca, minted + 1))
      BY <1>5, <1>15, <1>l DEF WriteCert, At
    <2>2. Head(r) = IF leaf = "server" THEN "serverkey" ELSE "clientkey"
      BY <1>8, <1>15, <2>1 DEF KeyNext
    <2>3. /\ loc[t].ca = K /\ K > 0
          /\ leaf = "client" => Match(tls.server, tls.serverkey)
      BY <1>1, <1>4, <1>5, <1>15, <2>1 DEF CaAt, At
    <2>4. /\ Cert(loc[t].ca, minted + 1) \in Pem /\ Cert(loc[t].ca, minted + 1).pair = minted + 1
          /\ Cert(loc[t].ca, minted + 1).by = K
      BY <1>i, <1>p, <2>3, PemFacts
    <2>5. /\ tls' \in [Pems -> Pem] /\ \A g \in Pems \ {leaf} : tls'[g] = tls[g]
          /\ tls'[leaf] \in {tls[leaf], Cut, Cert(loc[t].ca, minted + 1)}
          /\ (Go(t) /\ tls'[leaf] = Cert(loc[t].ca, minted + 1)) \/ Bail(t)
      BY <1>p, <1>f, <1>15, <2>1, <2>4, Written
    <2>6. tls'.ca = tls.ca /\ tls'.key = tls.key /\ K' = K
      BY <1>f, <1>15, <2>5 DEF K
    <2>7. tls'[leaf].pair > 0 => tls'[leaf].by = K
      BY <1>2, <1>15, <2>4, <2>5, PemFacts DEF OneCa
    <2>8. OneCa'
      <3>1. CASE leaf = "server"
        <4>1. tls'.client = tls.client
          BY <1>f, <2>5, <3>1
        <4> QED BY <1>2, <1>p, <2>1, <2>3, <2>5, <2>6, <2>7, <3>1, <4>1 DEF OneCa
      <3>2. CASE leaf = "client"
        <4>1. tls'.server = tls.server
          BY <1>f, <2>5, <3>2
        <4> QED BY <1>2, <1>p, <2>1, <2>3, <2>5, <2>6, <2>7, <3>2, <4>1 DEF OneCa
      <3> QED BY <1>15, <3>1, <3>2
    <2>9. CASE Bail(t)
      BY <1>9, <1>12, <2>8, <2>9
    <2>10. CASE Go(t) /\ tls'[leaf] = Cert(loc[t].ca, minted + 1)
      <3>1. todo'[t] = r /\ tls'[leaf].pair = minted + 1
        BY <1>9, <2>4, <2>10
      <3>2. CASE leaf = "server"
        BY <1>p, <1>11, <2>1, <2>2, <2>3, <2>6, <2>8, <3>1, <3>2 DEF CaAt, At
      <3>3. CASE leaf = "client"
        <4>1. Match(tls.server, tls.serverkey)'
          BY <1>f, <2>3, <2>5, <3>3 DEF Match
        <4> QED BY <1>p, <1>11, <2>1, <2>2, <2>3, <2>6, <2>8, <3>1, <3>3, <4>1 DEF CaAt, At
      <3> QED BY <1>15, <3>2, <3>3
    <2> QED BY <2>5, <2>9, <2>10
  <1>16. ASSUME NEW field \in {"serverkey", "clientkey"}, write_secret(t, field)
         PROVE  OneCa' /\ (todo'[t] \in Seq(Words \ KeySteps) \/ (todo'[t] \in KeyLists /\ CaAt(t)'))
    <2>1. Head(s) = field /\ UNCHANGED <<loc, guest, minted, daemon>> /\ WritePem(t, field, Key(loc[t].pair))
      BY <1>5, <1>16 DEF write_secret, At
    <2>2. IF field = "serverkey" THEN Head(r) = "client" ELSE Head(r) \in {"scp", "exit"}
      BY <1>8, <1>16, <2>1 DEF KeyNext
    <2>3. /\ loc[t].ca = K /\ K > 0 /\ loc[t].pair \in Nat \ {0}
          /\ field = "serverkey" => tls.server.pair = loc[t].pair
          /\ field = "clientkey" => tls.client.pair = loc[t].pair /\ Match(tls.server, tls.serverkey)
      BY <1>1, <1>4, <1>5, <1>16, <2>1 DEF CaAt, At
    <2>4. Key(loc[t].pair) \in Pem /\ Key(loc[t].pair).pair = loc[t].pair
      BY <2>3, PemFacts
    <2>5. /\ tls' \in [Pems -> Pem] /\ \A g \in Pems \ {field} : tls'[g] = tls[g]
          /\ (Go(t) /\ tls'[field] = Key(loc[t].pair)) \/ Bail(t)
      BY <1>p, <1>f, <1>16, <2>1, <2>4, Written
    <2>6. /\ tls'.ca = tls.ca /\ tls'.key = tls.key /\ K' = K
          /\ tls'.server = tls.server /\ tls'.client = tls.client
          /\ field = "clientkey" => tls'.serverkey = tls.serverkey
      BY <1>f, <1>16, <2>5 DEF K
    <2>7. OneCa'
      BY <1>2, <1>p, <2>1, <2>5, <2>6 DEF OneCa
    <2>8. CASE Bail(t)
      BY <1>9, <1>12, <2>7, <2>8
    <2>9. CASE Go(t) /\ tls'[field] = Key(loc[t].pair)
      <3>1. todo'[t] = r /\ tls'[field].pair = loc[t].pair
        BY <1>9, <2>4, <2>9
      <3>2. CASE field = "serverkey"
        <4>1. Match(tls.server, tls.serverkey)'
          BY <2>3, <2>6, <3>1, <3>2 DEF Match
        <4> QED BY <1>11, <2>1, <2>2, <2>3, <2>6, <2>7, <3>1, <3>2, <4>1 DEF CaAt, At
      <3>3. CASE field = "clientkey"
        <4>1. Match(tls.server, tls.serverkey)' /\ Match(tls.client, tls.clientkey)'
          BY <2>3, <2>6, <3>1, <3>3 DEF Match
        <4> QED BY <1>11, <2>1, <2>2, <2>3, <2>6, <2>7, <3>1, <3>3, <4>1 DEF CaAt, At
      <3> QED BY <1>16, <3>2, <3>3
    <2> QED BY <2>5, <2>8, <2>9
  <1>17. CASE CopyTls(t)
    <2>1. Head(s) = "scp" /\ UNCHANGED <<loc, tls, minted, daemon>>
      BY <1>5, <1>17 DEF CopyTls, At
    <2>2. /\ K > 0 /\ tls.ca.pair = K /\ Match(tls.server, tls.serverkey) /\ Match(tls.client, tls.clientkey)
      BY <1>1, <1>2, <1>4, <1>5, <2>1 DEF CaAt, At, OneCa
    <2>3. \/ Go(t) /\ guest' = Copied(3)
          \/ Bail(t) /\ \E n \in 0 .. 3 : guest' \in {Copied(n), CutShort(n)}
      BY <1>17 DEF CopyTls, Sent
    <2> DEFINE G == {"server", "serverkey", "ca"}
    <2>4. \A n \in 0 .. 3 : /\ Copied(n) \in [G -> Pem]
                            /\ \A f \in G : Copied(n)[f] \in {guest[f], tls[f]}
      BY <1>p, <1>i, <1>f DEF Copied
    <2>5. \A n \in 0 .. 3 : /\ CutShort(n) \in [G -> Pem]
                            /\ \A f \in G : CutShort(n)[f] \in {guest[f], tls[f], Cut}
      BY <2>4, PemFacts DEF CutShort, Sent
    <2>6. /\ guest' \in [G -> Pem] /\ \A f \in G : guest'[f] \in {guest[f], tls[f], Cut}
      BY <2>3, <2>4, <2>5
    <2>7. /\ guest'.server.pair > 0 => guest'.server.by = K
          /\ guest'.ca.pair > 0 => guest'.ca.pair = K
      BY <1>2, <2>2, <2>6, PemFacts DEF OneCa
    <2>8. OneCa' /\ K' = K
      BY <1>2, <2>1, <2>2, <2>6, <2>7 DEF OneCa, K
    <2>9. CASE Bail(t)
      BY <1>9, <1>12, <2>8, <2>9
    <2>10. CASE Go(t) /\ guest' = Copied(3)
      <3>1. Head(r) = "install-tls" /\ todo'[t] = r
        BY <1>8, <1>9, <2>1, <2>10 DEF KeyNext
      <3>2. Sent[1] = "server" /\ Sent[2] = "serverkey" /\ Sent[3] = "ca"
        BY DEF Sent
      <3>3. \A f \in G : \E k \in 1 .. 3 : Sent[k] = f
        BY <3>2
      <3>4. DOMAIN guest = G
        BY <1>p
      <3>5. \A f \in G : guest'[f] = tls[f]
        BY <2>10, <3>3, <3>4 DEF Copied
      <3>6. guest'.server = tls.server /\ guest'.serverkey = tls.serverkey /\ guest'.ca = tls.ca
        BY <3>5
      <3>7. Match(guest.server, guest.serverkey)' /\ Match(tls.client, tls.clientkey)' /\ guest'.ca.pair = K
        BY <2>1, <2>2, <3>6 DEF Match
      <3> QED BY <1>11, <2>1, <2>2, <2>8, <3>1, <3>7 DEF CaAt, At
    <2> QED BY <2>3, <2>9, <2>10
  <1>18. CASE controld_install(t) /\ At(t, "install-tls")
    <2>1. Head(s) = "install-tls" /\ UNCHANGED <<loc, tls, guest, minted>>
      BY <1>5, <1>18 DEF controld_install, At, tlsFiles
    <2>2. (Go(t) \/ Bail(t)) /\ daemon' \in Booted \cup {WithTls}
      <3>1. WithTls.unit = "tls"
        BY DEF WithTls, Daemon
      <3>2. \/ Go(t) /\ daemon' = WithTls
            \/ Bail(t) /\ daemon' = WithTls
            \/ Bail(t) /\ \E d \in {daemon, Restarted, Down}, unit \in {daemon.unit, "tls"} :
                             daemon' = Daemon(d.mode, unit, d.server, d.ca)
        BY <1>18, <3>1 DEF controld_install, At, Boot
      <3> QED BY <3>2 DEF Booted, Rewritten
    <2>3. OneCa'
      BY <1>2, <2>1, <2>2, OneCaBoots
    <2>4. CASE Bail(t)
      BY <1>9, <1>12, <2>3, <2>4
    <2>5. CASE Go(t)
      <3>1. Head(r) = "token" /\ todo'[t] = r
        BY <1>8, <1>9, <2>1, <2>5 DEF KeyNext
      <3> QED BY <1>11, <2>3, <3>1 DEF CaAt, At
    <2> QED BY <2>2, <2>4, <2>5
  <1> QED BY <1>13, <1>14, <1>15, <1>16, <1>17, <1>18 DEF KeyStep

\* Beginning a command keeps Keyed.
LEMMA KeyedBegin ==
    ASSUME Lined, Keyed, NEW p \in Procs, NEW i, NEW base, NEW s, Begins(p, i, base, s), Fresh(i, s)
    PROVE  Keyed'
  <1> SUFFICES ASSUME "overlap" \notin history'
               PROVE  /\ OneCa'
                      /\ \A u \in Threads :
                            todo'[u] \in Seq(Words \ KeySteps) \/ (todo'[u] \in KeyLists /\ CaAt(u)')
    BY DEF Keyed
  <1>1. PICK t : t = Main(p)
    OBVIOUS
  <1>2. /\ todo'[t] = s /\ "overlap" \notin history /\ \A u \in Threads \ {t} : todo'[u] = <<>>
    BY <1>1, LinedBegin
  <1>3. OneCa'
    BY <1>2 DEF Keyed, OneCa, Begins, K
  <1>4. s \in Seq(Words \ KeySteps) \/ (s \in KeyLists /\ Head(s) \in {"build", "ca"})
    BY FreshSteps
  <1>5. <<>> \in Seq(Words \ KeySteps)
    OBVIOUS
  <1> QED BY <1>2, <1>3, <1>4, <1>5 DEF CaAt, At

\* Keyed is an invariant.
LEMMA KeyedNext ==
    ASSUME Lined, Arguments, Keyed, [Next]_vars
    PROVE  Keyed'
  <1>1. ASSUME NEW p \in Procs, NEW i, NEW base, NEW s, Begins(p, i, base, s), Fresh(i, s) PROVE Keyed'
    BY <1>1, KeyedBegin
  <1>2. ASSUME NEW t \in Threads, Step(t) PROVE Keyed'
    <2>0. Tracks(t)
      BY <1>2, StepTracks DEF Lined
    <2>1. CASE KeyStep(t)
      BY <2>1, KeyedKey
    <2>2. CASE Ordinary(t)
      <3>1. /\ UNCHANGED <<tls, guest, minted>> /\ daemon' \in Booted
            /\ Head(todo[t]) \in Usual
            /\ Head(todo[t]) \in Early => loc' = loc /\ todo'[t] \in {Tail(todo[t]), <<"exit">>}
        BY <2>2 DEF Ordinary, Spared
      <3>2. "build" \in Early /\ Head(todo[t]) \notin KeySteps
        BY <3>1, Kinds4 DEF Early
      <3> QED BY <2>0, <3>1, <3>2, KeyedAside
    <2>3. CASE SwiftStep(t)
      <3>1. Head(todo[t]) \in SwiftSteps
        BY <2>3, SwiftTracks DEF Lined
      <3>2. Head(todo[t]) \notin KeySteps /\ Head(todo[t]) # "build"
        BY <3>1 DEF KeySteps, SwiftSteps
      <3>3. UNCHANGED <<tls, guest, minted>> /\ daemon' \in Booted
        BY <2>3 DEF SwiftStep, write_if_changed, swiftc, Compile, keep, stackVars, controlVars, Booted
      <3> QED BY <2>0, <3>2, <3>3, KeyedAside
    <2>4. CASE StoreStep(t)
      <3>1. Head(todo[t]) \in StoreSteps
        BY <2>4, StoreTracks DEF Lined
      <3>2. Head(todo[t]) \notin KeySteps /\ Head(todo[t]) # "build"
        BY <3>1 DEF KeySteps, StoreSteps, Edits
      <3>3. UNCHANGED <<tls, guest, minted>> /\ daemon' \in Booted
        BY <2>4 DEF StoreStep, HostStep, find_one, set_password, delete_password, Forget, LoadHosts,
                    LoadOverrides, Edit, save, save_overrides, control_cmd, delete_vm,
                    same, stackVars, controlVars, Booted
      <3> QED BY <2>0, <3>2, <3>3, KeyedAside
    <2> QED BY <1>2, <2>1, <2>2, <2>3, <2>4, StepKinds DEF Lined
  <1>3. ASSUME NEW p \in Procs, todo[Main(p)] # <<>>, Bail(Main(p)), Untouched,
               history' = history \cup {"kill"}
        PROVE  Keyed'
    <2>1. PICK t \in Threads : t = Main(p) /\ Moves(t) /\ todo'[t] = <<"exit">>
      BY <1>3, KillMoves DEF Lined
    <2>2. CASE "overlap" \in history'
      BY <2>2 DEF Keyed
    <2>3. CASE "overlap" \notin history'
      <3>1. "overlap" \notin history
        BY <1>3, <2>3
      <3>2. OneCa'
        BY <1>3, <3>1, OneCaBoots DEF Keyed, Untouched
      <3>3. ASSUME NEW u \in Threads
            PROVE  todo'[u] \in Seq(Words \ KeySteps) \/ (todo'[u] \in KeyLists /\ CaAt(u)')
        <4>1. CASE u = t
          BY <2>1, <4>1, UsualEnds, Without
        <4>2. CASE u # t /\ todo'[u] = todo[u]
          BY <1>3, <3>1, <4>2 DEF Keyed, CaAt, At, Untouched, K
        <4>3. CASE todo'[u] \in Seq(Usual)
          BY <4>3, Without
        <4> QED BY <2>1, <4>1, <4>2, <4>3 DEF Moves
      <3> QED BY <3>2, <3>3 DEF Keyed
    <2> QED BY <2>2, <2>3
  <1>4. ASSUME UNCHANGED <<todo, history>>, Untouched PROVE Keyed'
    <2>1. OneCa => OneCa'
      BY <1>4, OneCaBoots DEF Untouched
    <2>2. \A t \in Threads : CaAt(t) => CaAt(t)'
      BY <1>4 DEF CaAt, At, Untouched, K
    <2> QED BY <1>4, <2>1, <2>2 DEF Keyed
  <1> QED BY <1>1, <1>2, <1>3, <1>4, NextKinds

\* The initial states.
LEMMA InitLined ==
    ASSUME CommandsInit
    PROVE  Lined /\ Arguments /\ Keyed
  <1>1. todo = [t \in Threads |-> <<>>] /\ \A t \in Threads : todo[t] = <<>>
    BY DEF CommandsInit, Init
  <1>2. DOMAIN NoContext = Fields
    BY DEF NoContext, Fields
  <1>3. Sides \subseteq Threads
    BY DEF Sides, Threads
  <1>4. DOMAIN file = Stores /\ DOMAIN tmp = Stores
    BY DEF CommandsInit, Init, Stores
  <1>5. todo \in [Threads -> Seq(Words)] /\ \A t \in Sides : todo[t] \in Seq(Usual)
    BY <1>1, <1>3
  <1>6. Formed
    BY <1>2, <1>4, <1>5 DEF CommandsInit, Init, Formed
  <1>7. Solo
    BY <1>1, UsualEnds DEF Solo
  <1>8. Arguments
    BY MixesAssumption DEF CommandsInit, Arguments
  <1>9. \A t \in Threads : todo[t] \in Seq(Words \ KeySteps)
    BY <1>1
  <1>10. /\ tls = NoFiles /\ guest = [f \in {"server", "serverkey", "ca"} |-> NoFile]
         /\ minted = 0 /\ daemon.mode # "tls"
    BY DEF CommandsInit, ControlInit, Down, Plain, Daemon
  <1>11. OneCa
    <2>1. /\ tls \in [Pems -> Pem] /\ \A f \in Pems : tls[f] = NoFile
      BY <1>10, PemFacts DEF NoFiles, Pems
    <2>2. /\ guest \in [{"server", "serverkey", "ca"} -> Pem] /\ guest.server = NoFile /\ guest.ca = NoFile
      BY <1>10, PemFacts
    <2>3. tls.key = NoFile /\ tls.server = NoFile /\ tls.client = NoFile
      BY <2>1 DEF Pems
    <2> QED BY <1>10, <2>1, <2>2, <2>3, PemFacts DEF OneCa, K
  <1> QED BY <1>6, <1>7, <1>8, <1>9, <1>11 DEF Lined, Keyed

\* A daemon of the one CA accepts a client whose certificate and key match.
LEMMA OneCaServes ==
    ASSUME OneCa, daemon.mode = "tls", Match(tls.client, tls.clientkey)
    PROVE  handle_session("Status")
  <1>1. tls \in [Pems -> Pem] /\ tls.client \in Pem /\ tls.clientkey \in Pem /\ tls.ca \in Pem
    BY DEF OneCa, Pems
  <1>2. tls.client.pair > 0 /\ tls.clientkey.pair > 0
    BY DEF Match
  <1>3. /\ K > 0 /\ tls.ca.pair = K /\ tls.client.by = K /\ daemon.server.by = K /\ daemon.ca.pair = K
    BY <1>2 DEF OneCa
  <1>4. NoFile \notin {tls.ca, tls.client, tls.clientkey}
    BY <1>1, <1>2, <1>3, PemFacts
  <1> QED BY <1>3, <1>4 DEF handle_session, Handshake, add_default_tls_env, dispatch

\* TlsAgrees: between commands that did not overlap, whatever has failed or
\* was killed in between and however often the daemon has restarted, a daemon
\* that runs with TLS accepts the host's calls, unless a bootstrap was
\* interrupted between client.pem and client.key.pem (runtime.rs's
\* controld_install, ctl/tls.rs, controld's tls.rs).
THEOREM TlsAlwaysAgrees == Spec => []TlsAgrees
  <1> DEFINE Inv == Lined /\ Arguments /\ Keyed
  <1>1. CommandsInit => Inv
    BY InitLined
  <1>2. Inv /\ [Next]_vars => Inv'
    BY LinedNext, KeyedNext, NextKinds
  <1>3. Inv => TlsAgrees
    BY OneCaServes DEF TlsAgrees, Keyed
  <1> QED BY <1>1, <1>2, <1>3, PTL DEF Spec

\* While commands do not overlap, a thread at a marked step takes its step
\* itself: every other step leaves its list as it is or kills it.
LEMMA OwnMove ==
    ASSUME Lined, Arguments, [Next]_vars, "overlap" \notin history', NEW t \in Threads,
           todo[t] # <<>>, Head(todo[t]) \notin Usual, ~Step(t)
    PROVE  /\ todo'[t] = todo[t] \/ todo'[t] = <<"exit">>
           /\ \/ Untouched
              \/ \E u \in Threads \ {t} : Ordinary(u)
  <1>0. Formed /\ DOMAIN todo = Threads
    BY DEF Lined, Formed
  <1>1. todo[t] \notin Seq(Usual) /\ t \notin Sides
    BY Rests DEF Lined, Formed
  <1>2. ASSUME NEW p \in Procs, NEW i, NEW base, NEW s, Begins(p, i, base, s), Fresh(i, s) PROVE FALSE
    <2>1. Quiet
      BY <1>2, LinedBegin
    <2> QED BY <2>1 DEF Quiet, Idle
  <1>3. ASSUME NEW u \in Threads, Step(u)
        PROVE  u # t /\ todo'[t] = todo[t] /\ Ordinary(u)
    <2>1. u # t /\ Tracks(u)
      BY <1>0, <1>3, StepTracks
    <2>2. "overlap" \notin history
      BY <2>1 DEF Tracks
    <2>3. todo'[t] = todo[t]
      BY <1>1, <2>1 DEF Tracks, Moves
    <2>4. todo[u] \in Seq(Usual)
      BY <1>1, <2>1, <2>2 DEF Lined, Solo
    <2>5. Head(todo[u]) \in Usual
      BY <2>1, <2>4, Rests DEF Tracks
    <2>6. Head(todo[u]) \notin KeySteps /\ Head(todo[u]) \notin SwiftSteps /\ Head(todo[u]) \notin StoreSteps
      BY <2>5, Kinds4
    <2> QED BY <1>0, <1>3, <2>1, <2>3, <2>6, StepKinds, KeyTracks, SwiftTracks, StoreTracks
  <1>4. ASSUME NEW p \in Procs, Bail(Main(p)) PROVE todo'[t] = todo[t] \/ todo'[t] = <<"exit">>
    BY <1>0, <1>4 DEF Bail
  <1>5. ASSUME UNCHANGED todo PROVE todo'[t] = todo[t]
    BY <1>5
  <1> QED BY <1>2, <1>3, <1>4, <1>5, NextKinds

\* The same of the next state.
LEMMA ServesThen ==
    (OneCa /\ daemon.mode = "tls" /\ Match(tls.client, tls.clientkey) => handle_session("Status"))'
  <1>1. OneCa /\ daemon.mode = "tls" /\ Match(tls.client, tls.clientkey) => handle_session("Status")
    BY OneCaServes
  <1> QED BY <1>1, PTL

\* The two steps that end what a bootstrap does for the host and the daemon.
LEMMA KeysMend ==
    ASSUME Lined, Arguments, Keyed, [Next]_vars, "overlap" \notin history', NEW t \in Threads,
           \/ /\ At(t, "clientkey") /\ tls' # tls /\ tls'.clientkey = Key(loc[t].pair)
              /\ daemon.mode = "tls"
           \/ At(t, "install-tls") /\ todo'[t] = Tail(todo[t])
    PROVE  handle_session("Status")'
  <1>0. Formed /\ todo[t] \in Seq(Words) /\ todo[t] # <<>> /\ Head(todo[t]) \in {"clientkey", "install-tls"}
    BY DEF Lined, Formed, At
  <1>1. Head(todo[t]) \in KeySteps /\ Head(todo[t]) \notin Usual
    BY <1>0, Kinds4 DEF KeySteps
  <1>2. Step(t)
    <2> SUFFICES ASSUME ~Step(t) PROVE FALSE
      OBVIOUS
    <2>1. (todo'[t] = todo[t] \/ todo'[t] = <<"exit">>) /\ UNCHANGED tls
      BY <1>0, <1>1, OwnMove DEF Untouched, Ordinary, Spared
    <2>2. At(t, "install-tls") /\ todo'[t] = Tail(todo[t])
      BY <2>1
    <2>3. PICK s : s = todo[t]
      OBVIOUS
    <2>4. s \in Seq(Words) /\ s # <<>> /\ Head(s) = "install-tls" /\ (Tail(s) = s \/ Tail(s) = <<"exit">>)
      BY <1>0, <2>1, <2>2, <2>3 DEF At
    <2>5. Tail(s) = <<"exit">>
      <3>1. Len(Tail(s)) # Len(s)
        BY <2>4
      <3> QED BY <2>4, <3>1
    <2>6. "overlap" \notin history
      BY <2>1, NextKinds, StepTracks, LinedBegin DEF Lined, Tracks
    <2>7. s \in KeyLists
      <3>1. s \notin Seq(Words \ KeySteps)
        BY <2>4, Rests DEF KeySteps
      <3> QED BY <2>3, <2>6, <3>1 DEF Keyed
    <2>8. PICK r, q : r = Tail(s) /\ q = SubSeq(s, 3, Len(s))
      OBVIOUS
    <2>9. Head(r) = "token"
      BY <2>4, <2>7, <2>8, KeyFollows DEF KeyNext
    <2>10. r = <<"exit">> /\ Head(<<"exit">>) = "exit"
      BY <2>5, <2>8
    <2> QED BY <2>9, <2>10, Zenon
  <1>3. Tracks(t)
    BY <1>0, <1>2, StepTracks
  <1>4. KeyStep(t)
    <2>1. Head(todo[t]) \notin SwiftSteps /\ Head(todo[t]) \notin StoreSteps
      BY <1>1, Kinds4
    <2> QED BY <1>0, <1>1, <1>2, <2>1, StepKinds, SwiftTracks, StoreTracks DEF Ordinary
  <1>5. OneCa /\ CaAt(t)
    <2>1. "overlap" \notin history
      BY <1>3 DEF Tracks
    <2>2. todo[t] \notin Seq(Words \ KeySteps)
      BY <1>0, <1>1, Rests
    <2> QED BY <2>1, <2>2 DEF Keyed
  <1>6. OneCa'
    BY KeyedNext DEF Keyed
  <1>7. CASE At(t, "clientkey")
    <2>1. write_secret(t, "clientkey") /\ tls'.clientkey = Key(loc[t].pair) /\ daemon.mode = "tls"
      BY <1>0, <1>4, <1>7 DEF KeyStep, tls_bootstrap, WriteCert, write_secret, CopyTls, At
    <2>2. loc[t].pair \in Nat \ {0} /\ tls.client.pair = loc[t].pair
      BY <1>5, <1>7 DEF CaAt
    <2>3. tls'.client = tls.client /\ daemon'.mode = "tls"
      <3>1. "client" \in Pems /\ "clientkey" \in Pems /\ tls \in [Pems -> Pem]
        BY <1>5 DEF OneCa, Pems
      <3>2. \E x : tls' = [tls EXCEPT !["clientkey"] = x]
        BY <2>1 DEF write_secret, WritePem
      <3> QED BY <2>1, <3>1, <3>2 DEF write_secret
    <2>4. Match(tls.client, tls.clientkey)'
      BY <2>1, <2>2, <2>3, PemFacts DEF Match
    <2> QED BY <1>6, <2>3, <2>4, ServesThen
  <1>8. CASE At(t, "install-tls") /\ todo'[t] = Tail(todo[t])
    <2>1. controld_install(t)
      BY <1>0, <1>4, <1>8 DEF KeyStep, tls_bootstrap, WriteCert, write_secret, CopyTls, At
    <2>2. /\ Match(guest.server, guest.serverkey) /\ guest.ca.pair = K /\ K > 0
          /\ Match(tls.client, tls.clientkey)
      BY <1>5, <1>8 DEF CaAt
    <2>3. WithTls.mode = "tls"
      BY <2>2 DEF WithTls, Daemon
    <2>4. daemon' = WithTls
      <3>1. PICK s : s = todo[t]
        OBVIOUS
      <3>2. Head(s) = "install-tls" /\ s \in KeyLists
        <4>1. s \notin Seq(Words \ KeySteps) /\ Head(s) = "install-tls"
          BY <1>0, <1>1, <1>8, <3>1, Rests DEF At
        <4>2. "overlap" \notin history
          BY <1>3 DEF Tracks
        <4> QED BY <3>1, <4>1, <4>2 DEF Keyed
      <3>3. PICK r, q : r = Tail(s) /\ q = SubSeq(s, 3, Len(s))
        OBVIOUS
      <3>4. Head(r) = "token"
        BY <3>2, <3>3, KeyFollows DEF KeyNext
      <3>5. r # <<"exit">>
        BY <3>4
      <3>6. ~Bail(t)
        BY <1>0, <1>8, <3>1, <3>3, <3>5 DEF Bail, Formed
      <3> QED BY <1>0, <1>8, <2>1, <3>6 DEF controld_install, Boot, At
    <2>5. Match(tls.client, tls.clientkey)' /\ daemon'.mode = "tls"
      BY <2>1, <2>2, <2>3, <2>4 DEF controld_install, tlsFiles, Match
    <2> QED BY <1>6, <2>5, ServesThen
  <1> QED BY <1>7, <1>8

\* BootstrapMends: whatever interrupted bootstraps and copies have left, the
\* bootstrap that writes its last file makes a daemon with TLS accept the
\* host's calls, and controld-install with TLS leaves such a daemon
\* (ctl/tls.rs's tls_bootstrap, runtime.rs's controld_install_with_tls).
THEOREM BootstrapAlwaysMends == Spec => BootstrapMends
  <1> DEFINE Inv == Lined /\ Arguments /\ Keyed
  <1>1. CommandsInit => Inv
    BY InitLined
  <1>2. Inv /\ [Next]_vars => Inv'
    BY LinedNext, KeyedNext, NextKinds
  <1>3. Inv /\ [Next]_vars =>
           [\A t \in Threads :
              /\ "overlap" \notin history'
              /\ \/ /\ At(t, "clientkey") /\ tls' # tls /\ tls'.clientkey = Key(loc[t].pair)
                    /\ daemon.mode = "tls"
                 \/ At(t, "install-tls") /\ todo'[t] = Tail(todo[t])
              => handle_session("Status")']_vars
    BY KeysMend
  <1> QED BY <1>1, <1>2, <1>3, PTL DEF Spec, BootstrapMends

-----------------------------------------------------------------------------
(* vbox.app.                                                               *)

\* Lists without the two steps are not at the second.
LEMMA NotCompiling ==
    ASSUME NEW s \in Seq(Words \ SwiftSteps), s # <<>>
    PROVE  Head(s) # "swiftc"
  BY Rests DEF SwiftSteps

\* A step that does not touch vbox.app.
LEMMA BuiltAside ==
    ASSUME Lined, Built, NEW t \in Threads, Tracks(t), UNCHANGED <<src, bin, broken>>,
           Head(todo[t]) \notin SwiftSteps,
           Head(todo[t]) \in Early => loc' = loc /\ todo'[t] \in {Tail(todo[t]), <<"exit">>}
    PROVE  Built'
  <1> SUFFICES ASSUME ~mixed', ~broken'
               PROVE  /\ \A u \in Threads : todo'[u] \in Seq(Words \ SwiftSteps) \/ todo'[u] \in SwiftLists
                      /\ (\A u \in Threads : ~At(u, "swiftc")') => Current'
                      /\ \A u \in Threads : At(u, "swiftc")' => loc'[u].flag \/ bin' \in {0, src'}
    BY DEF Built
  <1>1. ~mixed /\ ~broken
    BY DEF Tracks, mixed
  <1>2. /\ \A u \in Threads : todo[u] \in Seq(Words \ SwiftSteps) \/ todo[u] \in SwiftLists
        /\ (\A u \in Threads : ~At(u, "swiftc")) => Current
        /\ \A u \in Threads : At(u, "swiftc") => loc[u].flag \/ bin \in {0, src}
    BY <1>1 DEF Built
  <1>3. ASSUME NEW u \in Threads, u # t
        PROVE  /\ todo'[u] \in Seq(Words \ SwiftSteps) \/ todo'[u] \in SwiftLists
               /\ At(u, "swiftc")' <=> At(u, "swiftc")
               /\ At(u, "swiftc") => loc'[u] = loc[u]
    <2>1. CASE u \in Sides
      <3>1. todo'[u] \in Seq(Usual) /\ todo[u] \in Seq(Usual)
        BY <1>3, <2>1 DEF Tracks, Moves, Lined, Formed
      <3>2. todo'[u] \in Seq(Words \ SwiftSteps) /\ todo[u] \in Seq(Words \ SwiftSteps)
        BY <3>1, Without
      <3> QED BY <3>2, NotCompiling DEF At
    <2>2. CASE u \notin Sides
      <3>1. todo'[u] = todo[u] /\ loc'[u] = loc[u]
        BY <1>3, <2>2 DEF Tracks, Moves, Locals
      <3> QED BY <1>2, <3>1 DEF At
    <2> QED BY <2>1, <2>2
  <1>4. /\ todo'[t] \in Seq(Words \ SwiftSteps) \/ todo'[t] \in SwiftLists
        /\ ~At(t, "swiftc") /\ ~At(t, "swiftc")'
    <2>0. ~At(t, "swiftc")
      BY DEF At, SwiftSteps
    <2>1. CASE todo[t] \in Seq(Words \ SwiftSteps)
      <3>1. todo'[t] \in Seq(Words \ SwiftSteps)
        BY <2>1, Without DEF Tracks, Moves
      <3> QED BY <2>0, <3>1, NotCompiling DEF At
    <2>2. CASE todo[t] \in SwiftLists
      <3>1. PICK r : r = Tail(todo[t])
        OBVIOUS
      <3>2. SwiftNext(todo[t], r)
        BY <2>2, <3>1, SwiftFollows
      <3>3. Head(todo[t]) \in Early /\ r \in SwiftLists /\ Head(r) # "swiftc"
        BY <3>2 DEF SwiftNext, SwiftSteps
      <3>4. CASE todo'[t] = r
        BY <2>0, <3>3, <3>4 DEF At
      <3>5. CASE todo'[t] = <<"exit">>
        <4>1. todo'[t] \in Seq(Words \ SwiftSteps)
          BY <3>5, UsualEnds, Without
        <4> QED BY <2>0, <4>1, NotCompiling DEF At
      <3> QED BY <3>1, <3>3, <3>4, <3>5
    <2> QED BY <1>2, <2>1, <2>2
  <1> QED BY <1>2, <1>3, <1>4 DEF Current

\* The two steps.
LEMMA BuiltSwift ==
    ASSUME Lined, Built, NEW t \in Threads, SwiftStep(t)
    PROVE  Built'
  <1> SUFFICES ASSUME ~mixed', ~broken'
               PROVE  /\ \A u \in Threads : todo'[u] \in Seq(Words \ SwiftSteps) \/ todo'[u] \in SwiftLists
                      /\ (\A u \in Threads : ~At(u, "swiftc")') => Current'
                      /\ \A u \in Threads : At(u, "swiftc")' => loc'[u].flag \/ bin' \in {0, src'}
    BY DEF Built
  <1>1. Tracks(t) /\ Head(todo[t]) \in SwiftSteps /\ todo[t] # <<>>
    BY SwiftTracks DEF Lined, Tracks
  <1>2. ~mixed /\ ~broken /\ "overlap" \notin history
    BY <1>1 DEF Tracks, mixed, SwiftStep, write_if_changed, swiftc, Compile
  <1>3. /\ todo[t] \in Seq(Words \ SwiftSteps) \/ todo[t] \in SwiftLists
        /\ (\A u \in Threads : ~At(u, "swiftc")) => Current
        /\ At(t, "swiftc") => loc[t].flag \/ bin \in {0, src}
    BY <1>2 DEF Built
  <1>4. \A u \in Threads \ {t} : /\ todo'[u] \in Seq(Words \ SwiftSteps)
                                 /\ ~At(u, "swiftc") /\ ~At(u, "swiftc")'
    <2> SUFFICES ASSUME NEW u \in Threads \ {t}
                 PROVE  /\ todo'[u] \in Seq(Words \ SwiftSteps)
                        /\ ~At(u, "swiftc") /\ ~At(u, "swiftc")'
      OBVIOUS
    <2>1. Head(todo[t]) \notin Usual
      BY <1>1, Kinds4
    <2>2. todo[u] \in Seq(Usual) /\ todo'[u] \in Seq(Usual)
      BY <1>1, <1>2, <2>1, Alone
    <2>3. todo[u] \in Seq(Words \ SwiftSteps) /\ todo'[u] \in Seq(Words \ SwiftSteps)
      BY <2>2, Without
    <2> QED BY <2>3, NotCompiling DEF At
  <1>5. todo[t] \in SwiftLists
    <2>1. todo[t] \notin Seq(Words \ SwiftSteps)
      BY <1>1, Rests
    <2> QED BY <1>3, <2>1
  <1>6. PICK r : r = Tail(todo[t])
    OBVIOUS
  <1>7. SwiftNext(todo[t], r)
    BY <1>5, <1>6, SwiftFollows
  <1>8. (Go(t) => todo'[t] = r) /\ (Bail(t) => todo'[t] = <<"exit">>)
    BY <1>6 DEF Go, Bail, Lined, Formed
  <1>9. CASE write_if_changed(t)
    <2>1. Head(todo[t]) = "swift" /\ todo'[t] = r /\ src' = swift /\ bin' = bin
      BY <1>8, <1>9 DEF write_if_changed, At
    <2>2. loc'[t].flag = (src # swift)
      BY <1>9 DEF write_if_changed, Lined, Formed, Fields
    <2>3. r \in SwiftLists /\ ~At(t, "swiftc")
      BY <1>7, <2>1 DEF SwiftNext, At
    <2>4. Current
      BY <1>3, <1>4, <2>3
    <2>5. loc'[t].flag \/ bin' \in {0, src'}
      BY <2>1, <2>2, <2>4 DEF Current
    <2>6. Head(r) = "swiftc" /\ r # <<>>
      <3>1. PICK x : x = Tail(r)
        OBVIOUS
      <3>2. SwiftNext(r, x)
        BY <2>3, <3>1, SwiftFollows
      <3> QED BY <1>7, <2>1, <3>2 DEF SwiftNext
    <2>7. At(t, "swiftc")'
      BY <2>1, <2>6 DEF At
    <2> QED BY <1>4, <2>1, <2>3, <2>5, <2>7
  <1>10. CASE swiftc(t)
    <2>1. Head(todo[t]) = "swiftc" /\ At(t, "swiftc") /\ src' = src
      BY <1>10 DEF swiftc, Compile, At
    <2>2. loc[t].flag \/ bin \in {0, src}
      BY <1>3, <2>1
    <2>3. \/ Go(t) /\ ~(loc[t].flag \/ bin = 0) /\ bin' = bin
          \/ Go(t) /\ bin' = src
      BY <1>10 DEF swiftc, Compile
    <2>4. Current'
      BY <2>1, <2>2, <2>3 DEF Current
    <2>5. todo'[t] \in Seq(Words \ SwiftSteps)
      BY <1>7, <1>8, <2>1, <2>3, Without DEF SwiftNext
    <2>6. ~At(t, "swiftc")'
      BY <2>5, NotCompiling DEF At
    <2> QED BY <1>4, <2>4, <2>5, <2>6
  <1> QED BY <1>9, <1>10 DEF SwiftStep

\* Built is an invariant.
LEMMA BuiltNext ==
    ASSUME Lined, Arguments, Built, [Next]_vars
    PROVE  Built'
  <1>1. ASSUME NEW p \in Procs, NEW i, NEW base, NEW s, Begins(p, i, base, s), Fresh(i, s) PROVE Built'
    <2> SUFFICES ASSUME ~mixed', ~broken'
                 PROVE  /\ \A u \in Threads : todo'[u] \in Seq(Words \ SwiftSteps) \/ todo'[u] \in SwiftLists
                        /\ (\A u \in Threads : ~At(u, "swiftc")') => Current'
                        /\ \A u \in Threads : At(u, "swiftc")' => loc'[u].flag \/ bin' \in {0, src'}
      BY DEF Built
    <2>1. PICK t : t = Main(p)
      OBVIOUS
    <2>2. "overlap" \notin history'
      BY DEF mixed
    <2>3. /\ todo'[t] = s /\ history' = history /\ Quiet /\ \A u \in Threads \ {t} : todo'[u] = <<>>
      BY <1>1, <2>1, <2>2, LinedBegin
    <2>4. ~mixed /\ ~broken /\ UNCHANGED <<src, bin>>
      BY <1>1, <2>3 DEF mixed, Begins
    <2>5. Current'
      BY <2>3, <2>4 DEF Built, Current, At, Quiet, Idle
    <2>6. s \in Seq(Words \ SwiftSteps) \/ (s \in SwiftLists /\ s # <<>> /\ Head(s) \in Early)
      BY <1>1, FreshSteps
    <2>7. s # <<>> => Head(s) # "swiftc"
      BY <2>6, NotCompiling DEF Early
    <2> DEFINE X == Seq(Words \ SwiftSteps)
    <2>8. <<>> \in X /\ (s \in X \/ s \in SwiftLists)
      BY <2>6
    <2> HIDE DEF X
    <2>x. \A u \in Threads : u = t \/ todo'[u] = <<>>
      BY <2>3
    <2>9. \A u \in Threads : todo'[u] \in X \/ todo'[u] \in SwiftLists
      BY <2>3, <2>8, <2>x, Zenon
    <2>10. \A u \in Threads : ~At(u, "swiftc")'
      BY <2>3, <2>7 DEF At
    <2> QED BY <2>5, <2>9, <2>10 DEF X
  <1>2. ASSUME NEW t \in Threads, Step(t) PROVE Built'
    <2>0. Tracks(t)
      BY <1>2, StepTracks DEF Lined
    <2>1. CASE SwiftStep(t)
      BY <2>1, BuiltSwift
    <2>2. CASE Ordinary(t)
      <3>1. /\ UNCHANGED <<src, bin, broken>> /\ Head(todo[t]) \in Usual
            /\ Head(todo[t]) \in Early => loc' = loc /\ todo'[t] \in {Tail(todo[t]), <<"exit">>}
        BY <2>2 DEF Ordinary, Spared
      <3>2. Head(todo[t]) \notin SwiftSteps
        BY <3>1, Kinds4
      <3> QED BY <2>0, <3>1, <3>2, BuiltAside
    <2>3. CASE KeyStep(t)
      <3>1. Head(todo[t]) \in KeySteps /\ UNCHANGED <<src, bin, broken>>
        BY <2>3, KeyTracks DEF Lined, KeyStep, libraryVars
      <3>2. Head(todo[t]) \notin SwiftSteps /\ Head(todo[t]) \notin Early
        BY <3>1 DEF KeySteps, SwiftSteps, Early
      <3> QED BY <2>0, <3>1, <3>2, BuiltAside
    <2>4. CASE StoreStep(t)
      <3>1. Head(todo[t]) \in StoreSteps /\ UNCHANGED <<src, bin, broken>>
        BY <2>4, StoreTracks DEF Lined, StoreStep, libraryVars
      <3>2. Head(todo[t]) \notin SwiftSteps /\ Head(todo[t]) \notin Early
        BY <3>1 DEF StoreSteps, SwiftSteps, Early, Edits
      <3> QED BY <2>0, <3>1, <3>2, BuiltAside
    <2> QED BY <1>2, <2>1, <2>2, <2>3, <2>4, StepKinds DEF Lined
  <1>3. ASSUME history' = history \cup {"kill"} PROVE Built'
    BY <1>3 DEF Built, mixed
  <1>4. ASSUME UNCHANGED <<todo, history>>, Untouched PROVE Built'
    BY <1>4 DEF Built, mixed, At, Current, Untouched
  <1> QED BY <1>1, <1>2, <1>3, <1>4, NextKinds

\* LibraryCurrent: between commands that ran one at a time and to their
\* end, vbox.app was compiled from the source the CLI wrote last, unless a
\* compilation failed (library_ui.rs's build_main_library_app).
THEOREM LibraryAlwaysCurrent == Spec => []LibraryCurrent
  <1> DEFINE Inv == Lined /\ Arguments /\ Built
  <1>1. CommandsInit => Inv
    <2> SUFFICES ASSUME CommandsInit PROVE Built
      BY InitLined
    <2>1. (\A t \in Threads : todo[t] = <<>>) /\ bin = 0 /\ src = 0
      BY DEF CommandsInit, Init, LibraryInit
    <2>2. <<>> \in Seq(Words \ SwiftSteps)
      OBVIOUS
    <2> QED BY <2>1, <2>2 DEF Built, At, Current
  <1>2. Inv /\ [Next]_vars => Inv'
    BY LinedNext, BuiltNext, NextKinds
  <1>3. Inv => LibraryCurrent
    BY DEF Built, LibraryCurrent, Current, Quiet, Idle, At
  <1> QED BY <1>1, <1>2, <1>3, PTL DEF Spec

-----------------------------------------------------------------------------
(* The machines and their passwords.                                       *)

\* What comes first in a command on a machine.
LEMMA StoreHeads ==
    ASSUME NEW t, NEW m, NEW s
    PROVE  /\ AtFind(t, m, s) => s # <<>> /\ Head(s) = "find"
           /\ AtSet(t, m, s) => s # <<>> /\ Head(s) = "keychain.set"
           /\ AtDelete(t, m, s) => s # <<>> /\ Head(s) = "keychain.delete"
           /\ AtDeleteVm(t, m, s) => s # <<>> /\ Head(s) = "delete-vm"
           /\ AtControl(t, m, s) => s # <<>> /\ Head(s) \in {"start-vm", "stop-vm"}
           /\ AtLoad(t, m, s) => s # <<>> /\ Head(s) = "load"
           /\ AtEdit(t, m, s) => s # <<>> /\ Head(s) \in StoreEdits
           /\ AtSave(t, m, s) => s # <<>> /\ Head(s) = "save"
           /\ AtLoadDrop(t, m, s) => s # <<>> /\ Head(s) = "load"
           /\ AtDrop(t, m, s) => s # <<>> /\ Head(s) = "drop"
           /\ AtSaveDrop(t, m, s) => s # <<>> /\ Head(s) = "save"
           /\ AtForget(t, m, s) => s # <<>> /\ Head(s) = "forget"
           /\ AtLoadOverrides(t, m, s) => s # <<>> /\ Head(s) = "load-overrides"
           /\ AtEditOverrides(t, m, s) => s # <<>> /\ Head(s) \in OfOverrides
           /\ AtSaveOverrides(t, m, s) => s # <<>> /\ Head(s) = "save-overrides"
  <1>1. ASSUME s \in ToFind PROVE s # <<>> /\ Head(s) = "find"
    <2>1. CASE s = <<"find", "keychain.set", "load", "mark", "save", "exit">>
      BY <2>1
    <2>2. CASE s = <<"find", "keychain.delete", "load", "unmark", "save", "exit">>
      BY <2>2
    <2>3. CASE s = <<"find", "load", "drop", "save", "forget", "exit">>
      BY <2>3
    <2>4. CASE s = <<"find", "delete-vm", "load", "drop", "save", "exit">>
      BY <2>4
    <2>5. CASE s = <<"find", "load-overrides", "set-key", "save-overrides", "exit">>
      BY <2>5
    <2>6. CASE s = <<"find", "load-overrides", "unset-key", "save-overrides", "exit">>
      BY <2>6
    <2>7. CASE s = <<"find", "start-vm", "exit">>
      BY <2>7
    <2>8. CASE s = <<"find", "stop-vm", "exit">>
      BY <2>8
    <2>9. CASE s = <<"find", "exit">>
      BY <2>9
    <2> QED BY <1>1, <2>1, <2>2, <2>3, <2>4, <2>5, <2>6, <2>7, <2>8, <2>9 DEF ToFind, ToFindVm
  <1>2. AtFind(t, m, s) => s # <<>> /\ Head(s) = "find"
    BY <1>1 DEF AtFind
  <1>3. \A e : s = ToSet(e) => s # <<>> /\ Head(s) = "keychain.set"
    BY DEF ToSet
  <1>4. \A e : s = ToDelete(e) => s # <<>> /\ Head(s) = "keychain.delete"
    BY DEF ToDelete
  <1>5. s = ToDeleteVm => s # <<>> /\ Head(s) = "delete-vm"
    BY DEF ToDeleteVm
  <1>6. \A e : s = ToControl(e) => s # <<>> /\ Head(s) = e
    BY DEF ToControl
  <1>7. \A e : s = ToLoad(e) => s # <<>> /\ Head(s) = "load"
    BY DEF ToLoad
  <1>8. \A e : s = ToEdit(e) => s # <<>> /\ Head(s) = e
    BY DEF ToEdit
  <1>9. s = ToSave => s # <<>> /\ Head(s) = "save"
    BY DEF ToSave
  <1>10. s = ToLoadDrop => s # <<>> /\ Head(s) = "load"
    BY DEF ToLoadDrop
  <1>11. s = ToDrop => s # <<>> /\ Head(s) = "drop"
    BY DEF ToDrop
  <1>12. s = ToSaveDrop => s # <<>> /\ Head(s) = "save"
    BY DEF ToSaveDrop
  <1>13. s = ToForget => s # <<>> /\ Head(s) = "forget"
    BY DEF ToForget
  <1>14. \A e : s = ToLoadOverrides(e) => s # <<>> /\ Head(s) = "load-overrides"
    BY DEF ToLoadOverrides
  <1>15. \A e : s = ToEditOverrides(e) => s # <<>> /\ Head(s) = e
    BY DEF ToEditOverrides
  <1>16. s = ToSaveOverrides => s # <<>> /\ Head(s) = "save-overrides"
    BY DEF ToSaveOverrides
  <1>17. /\ AtSet(t, m, s) => s # <<>> /\ Head(s) = "keychain.set"
         /\ AtDelete(t, m, s) => s # <<>> /\ Head(s) = "keychain.delete"
         /\ AtDeleteVm(t, m, s) => s # <<>> /\ Head(s) = "delete-vm"
         /\ AtControl(t, m, s) => s # <<>> /\ Head(s) \in {"start-vm", "stop-vm"}
    BY <1>3, <1>4, <1>5, <1>6, Zenon DEF AtSet, AtDelete, AtDeleteVm, AtControl
  <1>18. /\ AtLoad(t, m, s) => s # <<>> /\ Head(s) = "load"
         /\ AtEdit(t, m, s) => s # <<>> /\ Head(s) \in StoreEdits
         /\ AtSave(t, m, s) => s # <<>> /\ Head(s) = "save"
    BY <1>7, <1>8, <1>9, Zenon DEF AtLoad, AtEdit, AtSave
  <1>19. /\ AtLoadDrop(t, m, s) => s # <<>> /\ Head(s) = "load"
         /\ AtDrop(t, m, s) => s # <<>> /\ Head(s) = "drop"
         /\ AtSaveDrop(t, m, s) => s # <<>> /\ Head(s) = "save"
         /\ AtForget(t, m, s) => s # <<>> /\ Head(s) = "forget"
    BY <1>10, <1>11, <1>12, <1>13, Zenon DEF AtLoadDrop, AtDrop, AtSaveDrop, AtForget
  <1>20. /\ AtLoadOverrides(t, m, s) => s # <<>> /\ Head(s) = "load-overrides"
         /\ AtEditOverrides(t, m, s) => s # <<>> /\ Head(s) \in OfOverrides
         /\ AtSaveOverrides(t, m, s) => s # <<>> /\ Head(s) = "save-overrides"
    BY <1>14, <1>15, <1>16, Zenon DEF AtLoadOverrides, AtEditOverrides, AtSaveOverrides
  <1> QED BY <1>2, <1>17, <1>18, <1>19, <1>20

\* It is one of the marked steps.
LEMMA StoreFirstStep ==
    ASSUME NEW t, NEW m, NEW s, StoreAt(t, m, s)
    PROVE  s # <<>> /\ Head(s) \in StoreSteps /\ s \notin Seq(Words \ StoreSteps)
  <1>1. s # <<>> /\ Head(s) \in {"find", "keychain.set", "keychain.delete", "delete-vm", "start-vm", "stop-vm",
                                 "load", "save", "drop", "forget", "load-overrides", "save-overrides"}
                                \cup StoreEdits \cup OfOverrides
    BY StoreHeads DEF StoreAt
  <1>2. Head(s) \in StoreSteps
    BY <1>1 DEF StoreSteps, StoreEdits, OfOverrides, Edits
  <1> QED BY <1>1, <1>2, Rests

\* What comes then.
LEMMA StoreTails ==
    /\ \A e : Tail(ToSet(e)) = ToLoad(e) /\ Tail(ToDelete(e)) = ToLoad(e) /\ Tail(ToLoad(e)) = ToEdit(e)
    /\ \A e : Tail(ToEdit(e)) = ToSave /\ Tail(ToControl(e)) = <<"exit">>
    /\ \A e : Tail(ToLoadOverrides(e)) = ToEditOverrides(e) /\ Tail(ToEditOverrides(e)) = ToSaveOverrides
    /\ Tail(ToDeleteVm) = ToLoad("drop") /\ Tail(ToSave) = <<"exit">> /\ Tail(ToLoadDrop) = ToDrop
    /\ Tail(ToDrop) = ToSaveDrop /\ Tail(ToSaveDrop) = ToForget /\ Tail(ToForget) = <<"exit">>
    /\ Tail(ToSaveOverrides) = <<"exit">>
  <1>1. \A e : Tail(ToSet(e)) = ToLoad(e) /\ Tail(ToDelete(e)) = ToLoad(e) /\ Tail(ToLoad(e)) = ToEdit(e)
    BY DEF ToSet, ToDelete, ToLoad, ToEdit
  <1>2. \A e : Tail(ToEdit(e)) = ToSave /\ Tail(ToControl(e)) = <<"exit">>
    BY DEF ToEdit, ToSave, ToControl
  <1>3. \A e : Tail(ToLoadOverrides(e)) = ToEditOverrides(e) /\ Tail(ToEditOverrides(e)) = ToSaveOverrides
    BY DEF ToLoadOverrides, ToEditOverrides, ToSaveOverrides
  <1>4. /\ Tail(ToDeleteVm) = ToLoad("drop") /\ Tail(ToSave) = <<"exit">> /\ Tail(ToLoadDrop) = ToDrop
    BY DEF ToDeleteVm, ToLoad, ToSave, ToLoadDrop, ToDrop
  <1>5. /\ Tail(ToDrop) = ToSaveDrop /\ Tail(ToSaveDrop) = ToForget /\ Tail(ToForget) = <<"exit">>
        /\ Tail(ToSaveOverrides) = <<"exit">>
    BY DEF ToDrop, ToSaveDrop, ToForget, ToSaveOverrides
  <1> QED BY <1>1, <1>2, <1>3, <1>4, <1>5

\* Which part of StoreAt a first step belongs to.
LEMMA StoreByHead ==
    ASSUME NEW t, NEW m, NEW s, StoreAt(t, m, s)
    PROVE  /\ Head(s) = "find" => AtFind(t, m, s)
           /\ Head(s) = "keychain.set" => AtSet(t, m, s)
           /\ Head(s) = "keychain.delete" => AtDelete(t, m, s)
           /\ Head(s) = "delete-vm" => AtDeleteVm(t, m, s)
           /\ Head(s) \in {"start-vm", "stop-vm"} => AtControl(t, m, s)
           /\ Head(s) = "load" => AtLoad(t, m, s) \/ AtLoadDrop(t, m, s)
           /\ Head(s) \in Edits => AtEdit(t, m, s) \/ AtDrop(t, m, s) \/ AtEditOverrides(t, m, s)
           /\ Head(s) = "save" => AtSave(t, m, s) \/ AtSaveDrop(t, m, s)
           /\ Head(s) = "forget" => AtForget(t, m, s)
           /\ Head(s) = "load-overrides" => AtLoadOverrides(t, m, s)
           /\ Head(s) = "save-overrides" => AtSaveOverrides(t, m, s)
  BY StoreHeads DEF StoreAt, StoreEdits, OfOverrides, Edits

\* Whether a login works, by the contents of the two files.
Sound(m, r, o, k, v) ==
    IF m \in Remotes THEN r[m] = "password" => m \in k
    ELSE v[m] # "gone" /\ o[m] = "password" => m \in k

\* LoginWorks in those terms,
LEMMA LoginNow ==
    ASSUME NEW m \in Machines
    PROVE  LoginWorks(m) <=> Sound(m, file["remotes"], file["machines"], keychain, vm)
  BY HostsAssumption DEF Sound, LoginWorks, from_context, find_by_ssh_target, Known, has_password,
     run_askpass, get_password, StoreOf, Machines

\* and after a step.
LEMMA LoginThen ==
    ASSUME NEW m \in Machines
    PROVE  LoginWorks(m)' <=> Sound(m, file'["remotes"], file'["machines"], keychain', vm')
  BY HostsAssumption DEF Sound, LoginWorks, from_context, find_by_ssh_target, Known, has_password,
     run_askpass, get_password, StoreOf, Machines

\* A machine of which nothing changes for the worse.
LEMMA LoginKept ==
    ASSUME NEW x \in Machines, x \in keychain => x \in keychain',
           x \in Remotes => file'["remotes"][x] = file["remotes"][x],
           x \notin Remotes => /\ file'["machines"][x] = "password" => file["machines"][x] = "password"
                               /\ vm'[x] # "gone" => vm[x] # "gone"
    PROVE  LoginWorks(x) => LoginWorks(x)'
  BY LoginNow, LoginThen DEF Sound

\* Where a command on machine m stands: s is what it has still to do.
Stands(t, m, s) == StoreTypes /\ (StoreAt(t, m, s) \/ s \in Seq(Words \ StoreSteps))

\* It takes its next step.
Turn(t, m, s, r) ==
    /\ Formed /\ t \in Threads /\ m \in Machines /\ m = M(t)
    /\ s = todo[t] /\ r = todo'[t] /\ (Go(t) => r = Tail(s)) /\ (Bail(t) => r = <<"exit">>)
    /\ StoreTypes /\ StoreAt(t, m, s)

\* The end of a command.
LEMMA StandsDone ==
    ASSUME NEW t, NEW m, StoreTypes'
    PROVE  Stands(t, m, <<"exit">>)'
  BY UsualEnds, Without DEF Stands

\* What follows a search.
FindNext(s, r) ==
    \/ r = ToSet("mark") \/ r = ToDelete("unmark") \/ r = ToLoadDrop
    \/ s = ToFindVm /\ r = ToDeleteVm
    \/ r = ToLoadOverrides("set-key") \/ r = ToLoadOverrides("unset-key")
    \/ r = ToControl("start-vm") \/ r = ToControl("stop-vm") \/ r = <<"exit">>

\* The tails of those lists.
LEMMA FindTails ==
    ASSUME NEW s \in ToFind, NEW r, r = Tail(s)
    PROVE  FindNext(s, r)
  <1>1. CASE s = <<"find", "keychain.set", "load", "mark", "save", "exit">>
    <2>1. r = ToSet("mark")
      BY <1>1 DEF ToSet
    <2> QED BY <2>1 DEF FindNext
  <1>2. CASE s = <<"find", "keychain.delete", "load", "unmark", "save", "exit">>
    <2>1. r = ToDelete("unmark")
      BY <1>2 DEF ToDelete
    <2> QED BY <2>1 DEF FindNext
  <1>3. CASE s = <<"find", "load", "drop", "save", "forget", "exit">>
    <2>1. r = ToLoadDrop
      BY <1>3 DEF ToLoadDrop
    <2> QED BY <2>1 DEF FindNext
  <1>4. CASE s = ToFindVm
    <2>1. r = ToDeleteVm
      BY <1>4 DEF ToFindVm, ToDeleteVm
    <2> QED BY <1>4, <2>1 DEF FindNext
  <1>5. CASE s = <<"find", "load-overrides", "set-key", "save-overrides", "exit">>
    <2>1. r = ToLoadOverrides("set-key")
      BY <1>5 DEF ToLoadOverrides
    <2> QED BY <2>1 DEF FindNext
  <1>6. CASE s = <<"find", "load-overrides", "unset-key", "save-overrides", "exit">>
    <2>1. r = ToLoadOverrides("unset-key")
      BY <1>6 DEF ToLoadOverrides
    <2> QED BY <2>1 DEF FindNext
  <1>7. CASE s = <<"find", "start-vm", "exit">>
    <2>1. r = ToControl("start-vm")
      BY <1>7 DEF ToControl
    <2> QED BY <2>1 DEF FindNext
  <1>8. CASE s = <<"find", "stop-vm", "exit">>
    <2>1. r = ToControl("stop-vm")
      BY <1>8 DEF ToControl
    <2> QED BY <2>1 DEF FindNext
  <1>9. CASE s = <<"find", "exit">>
    <2>1. r = <<"exit">>
      BY <1>9
    <2> QED BY <2>1 DEF FindNext
  <1> QED BY <1>1, <1>2, <1>3, <1>4, <1>5, <1>6, <1>7, <1>8, <1>9 DEF ToFind

\* find_one.
LEMMA FindStands ==
    ASSUME NEW t, NEW m, NEW s, NEW r, Turn(t, m, s, r), find_one(t)
    PROVE  Stands(t, m, r)'
  <1>1. UNCHANGED <<file, vm>> /\ Head(s) = "find"
    BY DEF find_one, Turn, hostVars, At
  <1>2. AtFind(t, m, s)
    BY <1>1, StoreByHead DEF Turn
  <1>3. s \in ToFind /\ (s = ToFindVm => m \notin Remotes)
    BY <1>2 DEF AtFind
  <1>4. StoreTypes'
    BY <1>1 DEF StoreTypes, Turn
  <1>5. r = <<"exit">> \/ r = Tail(s)
    BY DEF find_one, Turn
  <1>6. CASE r = <<"exit">>
    BY <1>4, <1>6, StandsDone
  <1>7. CASE r = Tail(s)
    <2>2. ASSUME StoreAt(t, m, r)' PROVE Stands(t, m, r)'
      BY <1>4, <2>2 DEF Stands
    <2>3. CASE r = ToSet("mark")
      <3>1. AtSet(t, m, r)'
        BY <2>3 DEF AtSet
      <3> QED BY <2>2, <3>1 DEF StoreAt
    <2>4. CASE r = ToDelete("unmark")
      <3>1. AtDelete(t, m, r)'
        BY <2>4 DEF AtDelete
      <3> QED BY <2>2, <3>1 DEF StoreAt
    <2>5. CASE r = ToLoadDrop
      <3>1. AtLoadDrop(t, m, r)'
        BY <2>5 DEF AtLoadDrop
      <3> QED BY <2>2, <3>1 DEF StoreAt
    <2>6. CASE s = ToFindVm /\ r = ToDeleteVm
      <3>1. AtDeleteVm(t, m, r)'
        BY <1>3, <2>6 DEF AtDeleteVm
      <3> QED BY <2>2, <3>1 DEF StoreAt
    <2>7. CASE r = ToLoadOverrides("set-key") \/ r = ToLoadOverrides("unset-key")
      <3>1. AtLoadOverrides(t, m, r)'
        BY <2>7 DEF AtLoadOverrides, OfOverrides
      <3> QED BY <2>2, <3>1 DEF StoreAt
    <2>8. CASE r = ToControl("start-vm") \/ r = ToControl("stop-vm")
      <3>1. AtControl(t, m, r)'
        BY <2>8 DEF AtControl
      <3> QED BY <2>2, <3>1 DEF StoreAt
    <2>9. FindNext(s, r)
      BY <1>3, <1>7, FindTails
    <2> QED BY <1>6, <2>3, <2>4, <2>5, <2>6, <2>7, <2>8, <2>9 DEF FindNext
  <1> QED BY <1>5, <1>6, <1>7

\* The keychain is changed before the store: set_password,
LEMMA SetStands ==
    ASSUME NEW t, NEW m, NEW s, NEW r, Turn(t, m, s, r), set_password(t)
    PROVE  Stands(t, m, r)'
  <1>1. UNCHANGED <<file, vm>> /\ Head(s) = "keychain.set"
    BY DEF set_password, Turn, At
  <1>2. AtSet(t, m, s)
    BY <1>1, StoreByHead DEF Turn
  <1>3. PICK e \in {"put-password", "mark"} : s = ToSet(e)
    BY <1>2 DEF AtSet
  <1>4. StoreTypes'
    BY <1>1 DEF StoreTypes, Turn
  <1>5. CASE Bail(t)
    BY <1>4, <1>5, StandsDone DEF Turn
  <1>6. CASE Go(t) /\ keychain' = Stored(m)
    <2>1. r = ToLoad(e)
      BY <1>3, <1>6, StoreTails DEF Turn
    <2>2. Ready(m, e)'
      BY <1>6 DEF Ready, Stored
    <2>3. AtLoad(t, m, r)'
      BY <2>1, <2>2 DEF AtLoad, StoreEdits
    <2> QED BY <1>4, <2>3 DEF Stands, StoreAt
  <1> QED BY <1>5, <1>6 DEF set_password, Turn

\* delete_password,
LEMMA DeleteStands ==
    ASSUME NEW t, NEW m, NEW s, NEW r, Turn(t, m, s, r), delete_password(t)
    PROVE  Stands(t, m, r)'
  <1>1. UNCHANGED <<file, vm>> /\ Head(s) = "keychain.delete" /\ Go(t)
    BY DEF delete_password, Turn, At
  <1>2. AtDelete(t, m, s)
    BY <1>1, StoreByHead DEF Turn
  <1>3. PICK e \in {"put-plain", "unmark"} : s = ToDelete(e)
    BY <1>2 DEF AtDelete
  <1>4. StoreTypes'
    BY <1>1 DEF StoreTypes, Turn
  <1>5. r = ToLoad(e)
    BY <1>1, <1>3, StoreTails DEF Turn
  <1>6. AtLoad(t, m, r)'
    BY <1>5 DEF AtLoad, StoreEdits, Ready
  <1> QED BY <1>4, <1>6 DEF Stands, StoreAt

\* and the end of remove_name, after the store.
LEMMA ForgetStands ==
    ASSUME NEW t, NEW m, NEW s, NEW r, Turn(t, m, s, r), Forget(t)
    PROVE  Stands(t, m, r)'
  <1>1. UNCHANGED <<file, vm>> /\ Head(s) = "forget" /\ Go(t)
    BY DEF Forget, Turn, At
  <1>2. AtForget(t, m, s)
    BY <1>1, StoreByHead DEF Turn
  <1>3. StoreTypes'
    BY <1>1 DEF StoreTypes, Turn
  <1>4. r = <<"exit">>
    BY <1>1, <1>2, StoreTails DEF Turn, AtForget
  <1> QED BY <1>3, <1>4, StandsDone

\* The store is read.
LEMMA LoadStands ==
    ASSUME NEW t, NEW m, NEW s, NEW r, Turn(t, m, s, r), LoadHosts(t)
    PROVE  Stands(t, m, r)'
  <1>1. UNCHANGED <<file, keychain, vm>> /\ Head(s) = "load" /\ (r = Tail(s) \/ r = <<"exit">>)
    BY DEF LoadHosts, Turn, hostVars, Run, At
  <1>2. mem'[t] = file'[StoreOf(m)]
    BY <1>1 DEF LoadHosts, Load, Turn, Formed
  <1>3. StoreTypes' /\ \A e : Ready(m, e) => Ready(m, e)'
    BY <1>1 DEF Turn, StoreTypes, Ready
  <1>4. CASE r = Tail(s) /\ AtLoad(t, m, s)
    <2>1. PICK e \in StoreEdits : s = ToLoad(e) /\ Ready(m, e)
      BY <1>4 DEF AtLoad
    <2>2. r = ToEdit(e) /\ Ready(m, e)'
      BY <1>3, <1>4, <2>1, StoreTails
    <2>3. AtEdit(t, m, r)'
      BY <1>2, <2>2 DEF AtEdit
    <2> QED BY <1>3, <2>3 DEF Stands, StoreAt
  <1>5. CASE r = Tail(s) /\ AtLoadDrop(t, m, s)
    <2>1. r = ToDrop
      BY <1>5, StoreTails DEF AtLoadDrop
    <2>2. AtDrop(t, m, r)'
      BY <1>2, <2>1 DEF AtDrop
    <2> QED BY <1>3, <2>2 DEF Stands, StoreAt
  <1>6. CASE r = <<"exit">>
    BY <1>3, <1>6, StandsDone
  <1> QED BY <1>1, <1>4, <1>5, <1>6, StoreByHead DEF Turn

\* So are the overrides.
LEMMA LoadOverridesStands ==
    ASSUME NEW t, NEW m, NEW s, NEW r, Turn(t, m, s, r), LoadOverrides(t)
    PROVE  Stands(t, m, r)'
  <1>1. UNCHANGED <<file, vm>> /\ Head(s) = "load-overrides" /\ (r = Tail(s) \/ r = <<"exit">>)
    BY DEF LoadOverrides, Turn, hostVars, Run, At
  <1>2. mem'[t] = file'["machines"]
    BY <1>1 DEF LoadOverrides, Load, Turn, Formed
  <1>3. AtLoadOverrides(t, m, s)
    BY <1>1, StoreByHead DEF Turn
  <1>4. PICK e \in OfOverrides : s = ToLoadOverrides(e)
    BY <1>3 DEF AtLoadOverrides
  <1>5. StoreTypes'
    BY <1>1 DEF Turn, StoreTypes
  <1>6. CASE r = Tail(s)
    <2>1. r = ToEditOverrides(e)
      BY <1>4, <1>6, StoreTails
    <2>2. AtEditOverrides(t, m, r)'
      BY <1>2, <2>1 DEF AtEditOverrides
    <2> QED BY <1>5, <2>2 DEF Stands, StoreAt
  <1>7. CASE r = <<"exit">>
    BY <1>5, <1>7, StandsDone
  <1> QED BY <1>1, <1>6, <1>7

\* The values an edit may give to an entry.
LEMMA ChangedTo ==
    ASSUME NEW x
    PROVE  /\ Changed(x, "put-plain") = "plain" /\ Changed(x, "unmark") = "plain"
           /\ Changed(x, "put-password") = "password" /\ Changed(x, "mark") = "password"
           /\ Changed(x, "drop") = "absent"
           /\ Changed(x, "set-key") = (IF x = "absent" THEN "plain" ELSE x) /\ Changed(x, "unset-key") = x
  BY DEF Changed

\* The changed copy is written beside the store.
LEMMA Writes ==
    ASSUME NEW t, NEW m, NEW s, NEW r, Turn(t, m, s, r), NEW step \in Edits, Edit(t, step)
    PROVE  /\ UNCHANGED <<file, keychain, vm, mem>> /\ s # <<>> /\ Head(s) = step
           /\ step \in StoreEdits =>
                 LET f == StoreOf(m)
                 IN  \/ r = <<"exit">>
                     \/ r = Tail(s) /\ tmp'[f] = <<[mem[t] EXCEPT ![m] = Changed(mem[t][m], step)]>>
           /\ step \in OfOverrides =>
                 \/ r = <<"exit">>
                 \/ r = Tail(s) /\ tmp'["machines"] = <<[mem[t] EXCEPT ![m] = Changed(mem[t][m], step)]>>
  <1>1. UNCHANGED <<file, keychain, vm, mem>> /\ s # <<>> /\ Head(s) = step /\ m = M(t)
    BY DEF Edit, Turn, hostVars, At
  <1>2. DOMAIN tmp = Stores /\ "remotes" \in Stores /\ "machines" \in Stores
    BY DEF Turn, Formed, Stores
  <1>3. ASSUME NEW f \in {"remotes", "machines"}, NEW v, NEW none, Write(t, f, v, none)
        PROVE  Bail(t) \/ (Go(t) /\ tmp'[f] = <<v>>)
    BY <1>2, <1>3 DEF Write
  <1>5. [mem[t] EXCEPT ![M(t)] = Changed(@, step)] = [mem[t] EXCEPT ![m] = Changed(mem[t][m], step)]
    BY <1>1
  <1>6. CASE step \in OfOverrides
    BY <1>1, <1>3, <1>5, <1>6 DEF Edit, Turn, OfOverrides, StoreEdits
  <1>7. CASE step \notin OfOverrides
    <2>1. StoreOf(m) \in {"remotes", "machines"} /\ (StoreOf(m) = "remotes" <=> m \in Remotes)
      BY DEF StoreOf
    <2> QED BY <1>1, <1>3, <1>5, <1>7, <2>1 DEF Edit, Turn
  <1> QED BY <1>6, <1>7

\* The entry an edit of the store gives, when what it relies on holds.
LEMMA RightEdit ==
    ASSUME NEW m, NEW x, NEW e \in StoreEdits, Ready(m, e)
    PROVE  Changed(x, e) \in Entry /\ (Changed(x, e) = "password" => m \in keychain)
  <1>1. /\ e \in {"put-plain", "unmark"} => Changed(x, e) = "plain"
        /\ e \in {"put-password", "mark"} => Changed(x, e) = "password"
        /\ e = "drop" => Changed(x, e) = "absent"
    BY ChangedTo
  <1> QED BY <1>1 DEF Ready, Entry, StoreEdits

\* Edit.
LEMMA EditStands ==
    ASSUME NEW t, NEW m, NEW s, NEW r, Turn(t, m, s, r), NEW step \in Edits, Edit(t, step)
    PROVE  Stands(t, m, r)'
  <1>1. UNCHANGED <<file, keychain, vm, mem>> /\ s # <<>> /\ Head(s) = step
    BY Writes
  <1>2. StoreTypes'
    BY <1>1 DEF Turn, StoreTypes
  <1>f. PICK f : f = StoreOf(m)
    OBVIOUS
  <1>6. CASE r = <<"exit">>
    BY <1>2, <1>6, StandsDone
  <1>3. CASE r # <<"exit">> /\ AtEdit(t, m, s)
    <2>1. PICK e \in StoreEdits : s = ToEdit(e) /\ Ready(m, e) /\ mem[t] = file[f]
      BY <1>3, <1>f DEF AtEdit
    <2>2. e = step
      BY <1>1, <2>1 DEF ToEdit
    <2>3. PICK v : v = Changed(mem[t][m], step)
      OBVIOUS
    <2>4. v \in Entry /\ (v = "password" => m \in keychain)
      BY <2>1, <2>2, <2>3, RightEdit
    <2>6. r = Tail(s) /\ tmp'[f] = <<[mem[t] EXCEPT ![m] = v]>>
      BY <1>3, <1>f, <2>1, <2>2, <2>3, Writes
    <2>7. r = ToSave
      BY <2>1, <2>6, StoreTails
    <2>8. Replaces(f, m, v)' /\ (v = "password" => m \in keychain')
      BY <1>1, <2>1, <2>4, <2>6 DEF Replaces
    <2>9. AtSave(t, m, r)'
      BY <1>f, <2>4, <2>7, <2>8 DEF AtSave
    <2> QED BY <1>2, <2>9 DEF Stands, StoreAt
  <1>4. CASE r # <<"exit">> /\ AtDrop(t, m, s)
    <2>1. s = ToDrop /\ mem[t] = file[f]
      BY <1>4, <1>f DEF AtDrop
    <2>2. step = "drop" /\ step \in StoreEdits
      BY <1>1, <2>1 DEF ToDrop, StoreEdits
    <2>3. r = Tail(s) /\ tmp'[f] = <<[mem[t] EXCEPT ![m] = "absent"]>>
      <3>1. r = Tail(s) /\ tmp'[f] = <<[mem[t] EXCEPT ![m] = Changed(mem[t][m], step)]>>
        BY <1>4, <1>f, <2>2, Writes
      <3>2. Changed(mem[t][m], step) = "absent"
        BY <2>2, ChangedTo
      <3> QED BY <3>1, <3>2
    <2>4. r = ToSaveDrop
      BY <2>1, <2>3, StoreTails
    <2>5. Replaces(f, m, "absent")'
      BY <1>1, <2>1, <2>3 DEF Replaces
    <2>6. AtSaveDrop(t, m, r)'
      BY <1>f, <2>4, <2>5 DEF AtSaveDrop
    <2> QED BY <1>2, <2>6 DEF Stands, StoreAt
  <1>5. CASE r # <<"exit">> /\ AtEditOverrides(t, m, s)
    <2>1. PICK e \in OfOverrides : s = ToEditOverrides(e) /\ mem[t] = file["machines"]
      BY <1>5 DEF AtEditOverrides
    <2>2. e = step
      BY <1>1, <2>1 DEF ToEditOverrides
    <2>3. PICK v : v = Changed(mem[t][m], step)
      OBVIOUS
    <2>4. mem[t][m] \in Entry
      BY <2>1 DEF Turn, StoreTypes
    <2>5. v \in Entry /\ (v = "password" => mem[t][m] = "password")
      <3>1. (step = "set-key" => v = IF mem[t][m] = "absent" THEN "plain" ELSE mem[t][m])
            /\ (step = "unset-key" => v = mem[t][m])
        BY <2>3, ChangedTo
      <3> QED BY <2>1, <2>2, <2>4, <3>1 DEF OfOverrides, Entry
    <2>6. r = Tail(s) /\ tmp'["machines"] = <<[mem[t] EXCEPT ![m] = v]>>
      BY <1>5, <2>1, <2>2, <2>3, Writes
    <2>7. r = ToSaveOverrides
      BY <2>1, <2>6, StoreTails
    <2>8. Replaces("machines", m, v)' /\ (v = "password" => file'["machines"][m] = "password")
      BY <1>1, <2>1, <2>5, <2>6 DEF Replaces
    <2>9. AtSaveOverrides(t, m, r)'
      BY <2>5, <2>7, <2>8 DEF AtSaveOverrides
    <2> QED BY <1>2, <2>9 DEF Stands, StoreAt
  <1> QED BY <1>1, <1>3, <1>4, <1>5, <1>6, StoreByHead DEF Turn

\* The copy replaces the store.
LEMMA Replaced ==
    ASSUME NEW m \in Machines, NEW f, f = StoreOf(m) \/ f = "machines", NEW e \in Entry,
           StoreTypes, Replaces(f, m, e),
           file'[f] = tmp[f][1], \A g \in Stores \ {f} : file'[g] = file[g], UNCHANGED vm
    PROVE  /\ StoreTypes' /\ file'[f][m] = e
           /\ f = "machines" => file'["remotes"] = file["remotes"]
           /\ f = "remotes" => file'["machines"] = file["machines"]
           /\ \A x \in Machines \ {m} :
                 /\ x \in Remotes => file'["remotes"][x] = file["remotes"][x]
                 /\ file'["machines"][x] = file["machines"][x]
  <1>1. tmp[f][1] = [file[f] EXCEPT ![m] = e]
    BY DEF Replaces
  <1>2. f \in {"remotes", "machines"} /\ (f = "remotes" => m \in Remotes)
    BY DEF StoreOf
  <1>3. "remotes" \in Stores /\ "machines" \in Stores
    BY DEF Stores
  <1>4. CASE f = "remotes"
    BY <1>1, <1>2, <1>3, <1>4 DEF StoreTypes
  <1>5. CASE f = "machines"
    BY <1>1, <1>2, <1>3, <1>5 DEF StoreTypes, Machines
  <1> QED BY <1>2, <1>4, <1>5

\* What a save does to the file, when it does anything.
LEMMA Saved ==
    ASSUME NEW t, NEW m, NEW s, NEW r, Turn(t, m, s, r), save(t)
    PROVE  \/ r = <<"exit">> /\ UNCHANGED <<file, tmp, mem, keychain, vm>>
           \/ /\ UNCHANGED <<mem, keychain, vm>> /\ Head(s) = "save" /\ r = Tail(s)
              /\ \E e \in Entry : /\ StoreTypes' /\ file'[StoreOf(m)][m] = e /\ (e = "password" => m \in keychain)
                                  /\ \A x \in Machines \ {m} :
                                        /\ x \in Remotes => file'["remotes"][x] = file["remotes"][x]
                                        /\ file'["machines"][x] = file["machines"][x]
  <1>0. m \in Machines /\ StoreTypes /\ DOMAIN file = Stores
    BY DEF Turn, Formed
  <1>f. PICK f : f = StoreOf(m)
    OBVIOUS
  <1>1. /\ UNCHANGED <<mem, keychain, vm>> /\ Head(s) = "save" /\ f \in Stores
        /\ \/ r = <<"exit">> /\ UNCHANGED <<file, tmp>>
           \/ r = Tail(s) /\ file' = [file EXCEPT ![f] = tmp[f][1]]
    BY <1>f DEF save, Rename, Turn, hostVars, At, StoreOf, Stores
  <1>2. CASE r = Tail(s) /\ file' = [file EXCEPT ![f] = tmp[f][1]]
    <2>1. PICK e \in Entry : Replaces(f, m, e) /\ (e = "password" => m \in keychain)
      BY <1>1, <1>f, StoreByHead DEF Turn, AtSave, AtSaveDrop, Entry
    <2>2. file'[f] = tmp[f][1] /\ \A g \in Stores \ {f} : file'[g] = file[g]
      BY <1>0, <1>1, <1>2
    <2>3. /\ StoreTypes' /\ file'[f][m] = e
          /\ \A x \in Machines \ {m} :
                /\ x \in Remotes => file'["remotes"][x] = file["remotes"][x]
                /\ file'["machines"][x] = file["machines"][x]
      <3>1. UNCHANGED vm /\ (f = StoreOf(m) \/ f = "machines")
        BY <1>1, <1>f
      <3>2. Replaces(f, m, e)
        BY <2>1
      <3> QED BY <1>0, <2>2, <3>1, <3>2, Replaced
    <2> QED BY <1>1, <1>2, <1>f, <2>1, <2>3
  <1> QED BY <1>1, <1>2

\* save.
LEMMA SaveStands ==
    ASSUME NEW t, NEW m, NEW s, NEW r, Turn(t, m, s, r), save(t)
    PROVE  Stands(t, m, r)'
  <1>1. CASE r = <<"exit">> /\ UNCHANGED <<file, vm>>
    <2>1. StoreTypes'
      BY <1>1 DEF Turn, StoreTypes
    <2> QED BY <1>1, <2>1, StandsDone
  <1>2. CASE StoreTypes' /\ Head(s) = "save" /\ r = Tail(s)
    <2>1. CASE AtSave(t, m, s)
      <3>1. r = <<"exit">>
        BY <1>2, <2>1, StoreTails DEF AtSave
      <3> QED BY <1>2, <3>1, StandsDone
    <2>2. CASE AtSaveDrop(t, m, s)
      <3>1. r = ToForget
        BY <1>2, <2>2, StoreTails DEF AtSaveDrop
      <3> QED BY <1>2, <3>1 DEF Stands, StoreAt, AtForget
    <2> QED BY <1>2, <2>1, <2>2, StoreByHead DEF Turn
  <1> QED BY <1>1, <1>2, Saved

\* What save_overrides does to the file.
LEMMA SavedOverrides ==
    ASSUME NEW t, NEW m, NEW s, NEW r, Turn(t, m, s, r), save_overrides(t)
    PROVE  /\ UNCHANGED <<keychain, vm>> /\ r = <<"exit">> /\ StoreTypes'
           /\ file'["remotes"] = file["remotes"]
           /\ \A x \in Machines : file'["machines"][x] = "password" => file["machines"][x] = "password"
  <1>0. m \in Machines /\ StoreTypes /\ DOMAIN file = Stores
    BY DEF Turn, Formed
  <1>1. /\ UNCHANGED <<mem, keychain, vm>> /\ Head(s) = "save-overrides"
        /\ \/ r = <<"exit">> /\ UNCHANGED file
           \/ r = Tail(s) /\ file' = [file EXCEPT !["machines"] = tmp["machines"][1]]
    BY DEF save_overrides, Rename, Turn, hostVars, At
  <1>2. AtSaveOverrides(t, m, s)
    BY <1>1, StoreByHead DEF Turn
  <1>3. PICK e \in Entry : Replaces("machines", m, e) /\ (e = "password" => file["machines"][m] = "password")
    BY <1>2 DEF AtSaveOverrides
  <1>4. CASE r = Tail(s) /\ file' = [file EXCEPT !["machines"] = tmp["machines"][1]]
    <2>1. /\ file'["machines"] = tmp["machines"][1]
          /\ \A g \in Stores \ {"machines"} : file'[g] = file[g]
      BY <1>0, <1>4 DEF Stores
    <2>2. /\ StoreTypes' /\ file'["machines"][m] = e /\ file'["remotes"] = file["remotes"]
          /\ \A x \in Machines \ {m} : file'["machines"][x] = file["machines"][x]
      BY <1>0, <1>1, <1>3, <2>1, Replaced
    <2>3. r = <<"exit">>
      BY <1>2, <1>4, StoreTails DEF AtSaveOverrides
    <2> QED BY <1>1, <1>3, <2>2, <2>3
  <1>5. CASE r = <<"exit">> /\ UNCHANGED file
    BY <1>0, <1>1, <1>5 DEF StoreTypes
  <1> QED BY <1>1, <1>4, <1>5

\* save_overrides.
LEMMA SaveOverridesStands ==
    ASSUME NEW t, NEW m, NEW s, NEW r, Turn(t, m, s, r), save_overrides(t)
    PROVE  Stands(t, m, r)'
  BY SavedOverrides, StandsDone

\* What prlctl start and stop do to the machines.
LEMMA Controlled ==
    ASSUME NEW t, NEW m, StoreTypes, m = M(t), control_cmd(t) \/ delete_vm(t)
    PROVE  /\ UNCHANGED <<file, keychain>> /\ StoreTypes'
           /\ \A x \in Vms : vm'[x] # "gone" => vm[x] # "gone"
  <1>1. UNCHANGED <<file, keychain>>
    BY DEF control_cmd, delete_vm
  <1>2. DOMAIN vm = Vms
    BY DEF StoreTypes
  <1>3. \/ UNCHANGED vm
        \/ \E v : vm' = [vm EXCEPT ![m] = v] /\ (vm[m] # "gone" \/ v = "gone")
    BY DEF control_cmd, delete_vm
  <1>4. DOMAIN vm' = Vms /\ \A x \in Vms : vm'[x] # "gone" => vm[x] # "gone"
    BY <1>2, <1>3
  <1> QED BY <1>1, <1>4 DEF StoreTypes

\* prlctl start and stop.
LEMMA ControlStands ==
    ASSUME NEW t, NEW m, NEW s, NEW r, Turn(t, m, s, r), control_cmd(t)
    PROVE  Stands(t, m, r)'
  <1>1. Head(s) \in {"start-vm", "stop-vm"}
    BY DEF control_cmd, Turn, At
  <1>2. AtControl(t, m, s)
    BY <1>1, StoreByHead DEF Turn
  <1>3. r = <<"exit">>
    BY <1>2, StoreTails DEF control_cmd, Turn, AtControl
  <1>4. StoreTypes'
    BY Controlled DEF Turn
  <1> QED BY <1>3, <1>4, StandsDone

\* prlctl delete: the overrides are dropped afterwards.
LEMMA DeleteVmStands ==
    ASSUME NEW t, NEW m, NEW s, NEW r, Turn(t, m, s, r), delete_vm(t)
    PROVE  Stands(t, m, r)'
  <1>1. Head(s) = "delete-vm"
    BY DEF delete_vm, Turn, At
  <1>2. s = ToDeleteVm
    BY <1>1, StoreByHead DEF Turn, AtDeleteVm
  <1>3. StoreTypes'
    BY Controlled DEF Turn
  <1>4. CASE r = <<"exit">>
    BY <1>3, <1>4, StandsDone
  <1>5. CASE r = Tail(s)
    <2>1. r = ToLoad("drop")
      BY <1>2, <1>5, StoreTails
    <2>2. AtLoad(t, m, r)'
      BY <2>1 DEF AtLoad, StoreEdits, Ready
    <2> QED BY <1>3, <2>2 DEF Stands, StoreAt
  <1> QED BY <1>4, <1>5 DEF delete_vm, Turn

\* Where a command on machines stands when it takes a step.
LEMMA TurnNow ==
    ASSUME Lined, Kept, NEW t \in Threads, StoreStep(t), "overlap" \notin history'
    PROVE  /\ Turn(t, M(t), todo[t], todo'[t]) /\ UNCHANGED loc /\ "overlap" \notin history
           /\ \A u \in Threads \ {t} : todo[u] \in Seq(Usual) /\ Storeless(u)'
  <1>1. Tracks(t) /\ Head(todo[t]) \in StoreSteps /\ todo[t] # <<>> /\ UNCHANGED loc
    BY StoreTracks DEF Lined, Tracks
  <1>2. "overlap" \notin history
    BY <1>1 DEF Tracks
  <1>m. PICK m : m = M(t)
    OBVIOUS
  <1>s. PICK s : s = todo[t]
    OBVIOUS
  <1>r. PICK r : r = todo'[t]
    OBVIOUS
  <1>3. StoreTypes /\ m \in Machines /\ StoreAt(t, m, s)
    <2>1. ~Storeless(t)
      BY <1>1, Rests DEF Storeless
    <2> QED BY <1>2, <1>m, <1>s, <2>1 DEF Kept
  <1>4. (Go(t) => r = Tail(s)) /\ (Bail(t) => r = <<"exit">>)
    BY <1>s, <1>r DEF Lined, Formed, Go, Bail
  <1>5. Turn(t, m, s, r)
    BY <1>3, <1>4, <1>m, <1>s, <1>r DEF Turn, Lined
  <1>6. \A u \in Threads \ {t} : todo[u] \in Seq(Usual) /\ Storeless(u)'
    <2> SUFFICES ASSUME NEW u \in Threads \ {t} PROVE todo[u] \in Seq(Usual) /\ Storeless(u)'
      OBVIOUS
    <2>1. Head(todo[t]) \notin Usual
      BY <1>1, Kinds4
    <2>2. todo[u] \in Seq(Usual) /\ todo'[u] \in Seq(Usual)
      BY <1>1, <1>2, <2>1, Alone
    <2> QED BY <2>2, Without DEF Storeless
  <1> QED BY <1>1, <1>2, <1>5, <1>6, <1>m, <1>s, <1>r

\* A step of a command on machines.
LEMMA KeptStore ==
    ASSUME Lined, Kept, NEW t \in Threads, StoreStep(t)
    PROVE  Kept'
  <1> SUFFICES ASSUME "overlap" \notin history' PROVE Kept'
    BY DEF Kept
  <1>m. PICK m : m = M(t)
    OBVIOUS
  <1>s. PICK s : s = todo[t]
    OBVIOUS
  <1>r. PICK r : r = todo'[t]
    OBVIOUS
  <1>5. Turn(t, m, s, r) /\ UNCHANGED loc /\ \A u \in Threads \ {t} : Storeless(u)'
    BY <1>m, <1>s, <1>r, TurnNow
  <1>6. Stands(t, m, r)'
    BY <1>5, FindStands, SetStands, DeleteStands, ForgetStands, LoadStands, LoadOverridesStands,
       EditStands, SaveStands, SaveOverridesStands, ControlStands, DeleteVmStands, Zenon
       DEF StoreStep, HostStep
  <1>8. M(t)' = m /\ m \in Machines
    BY <1>5, <1>m DEF M, Turn
  <1>9. StoreTypes' /\ (Storeless(t)' \/ (M(t)' \in Machines /\ StoreAt(t, M(t), todo[t])'))
    BY <1>6, <1>8, <1>r DEF Stands, Storeless
  <1> QED BY <1>5, <1>9 DEF Kept

\* A command keeps its place while the others keep off the stores.
LEMMA SamePlace ==
    ASSUME NEW u, NEW m \in Machines, NEW s, StoreAt(u, m, s), mem'[u] = mem[u], StoresKept,
           UNCHANGED <<keychain, vm>>
    PROVE  StoreAt(u, m, s)'
  <1>1. file'["remotes"] = file["remotes"] /\ file'["machines"] = file["machines"]
    BY DEF StoresKept
  <1>2. /\ file'[StoreOf(m)] = file[StoreOf(m)] /\ tmp'[StoreOf(m)] = tmp[StoreOf(m)]
        /\ tmp'["machines"] = tmp["machines"]
    BY DEF StoresKept, StoreOf
  <1>3. \A e : Ready(m, e) => Ready(m, e)'
    BY DEF Ready
  <1>4. \A e : /\ Replaces(StoreOf(m), m, e) => Replaces(StoreOf(m), m, e)'
               /\ Replaces("machines", m, e) => Replaces("machines", m, e)'
    BY <1>1, <1>2 DEF Replaces
  <1>5. /\ (AtFind(u, m, s) => AtFind(u, m, s)') /\ (AtSet(u, m, s) => AtSet(u, m, s)')
        /\ (AtDelete(u, m, s) => AtDelete(u, m, s)') /\ (AtDeleteVm(u, m, s) => AtDeleteVm(u, m, s)')
        /\ (AtControl(u, m, s) => AtControl(u, m, s)')
    BY Zenon DEF AtFind, AtSet, AtDelete, AtDeleteVm, AtControl
  <1>6. /\ (AtLoad(u, m, s) => AtLoad(u, m, s)') /\ (AtLoadDrop(u, m, s) => AtLoadDrop(u, m, s)')
        /\ (AtLoadOverrides(u, m, s) => AtLoadOverrides(u, m, s)')
    BY <1>3, Zenon DEF AtLoad, AtLoadDrop, AtLoadOverrides
  <1>7. /\ (AtEdit(u, m, s) => AtEdit(u, m, s)') /\ (AtDrop(u, m, s) => AtDrop(u, m, s)')
        /\ (AtEditOverrides(u, m, s) => AtEditOverrides(u, m, s)')
    BY <1>1, <1>2, <1>3 DEF AtEdit, AtDrop, AtEditOverrides
  <1>8. /\ (AtSave(u, m, s) => AtSave(u, m, s)') /\ (AtSaveDrop(u, m, s) => AtSaveDrop(u, m, s)')
        /\ (AtSaveOverrides(u, m, s) => AtSaveOverrides(u, m, s)')
    BY <1>1, <1>2, <1>4 DEF AtSave, AtSaveDrop, AtSaveOverrides
  <1>9. (AtForget(u, m, s) => AtForget(u, m, s)')
    BY DEF AtForget
  <1> QED BY <1>5, <1>6, <1>7, <1>8, <1>9 DEF StoreAt

\* A step that does not touch the stores, the keychain or the machines.
LEMMA KeptAside ==
    ASSUME Lined, Kept, NEW t \in Threads, todo[t] # <<>>, Moves(t), Locals(t), history \subseteq history',
           Head(todo[t]) \notin StoreSteps \/ todo'[t] = <<"exit">>, StoresKept, UNCHANGED <<keychain, vm>>
    PROVE  Kept'
  <1> SUFFICES ASSUME "overlap" \notin history' PROVE Kept'
    BY DEF Kept
  <1>1. "overlap" \notin history
    OBVIOUS
  <1>2. StoreTypes'
    BY <1>1 DEF Kept, StoreTypes, StoresKept
  <1>4. Storeless(t)'
    <2>1. CASE Head(todo[t]) \notin StoreSteps
      <3>1. Storeless(t)
        BY <1>1, <2>1, StoreFirstStep DEF Kept
      <3> QED BY <3>1, Without DEF Storeless, Moves
    <2>2. CASE todo'[t] = <<"exit">>
      BY <2>2, UsualEnds, Without DEF Storeless
    <2> QED BY <2>1, <2>2
  <1>5. ASSUME NEW u \in Threads, u # t
        PROVE  Storeless(u)' \/ (M(u)' \in Machines /\ StoreAt(u, M(u), todo[u])')
    <2>1. CASE u \in Sides
      <3>1. todo'[u] \in Seq(Usual) /\ todo[u] \in Seq(Usual)
        BY <1>5, <2>1 DEF Moves, Lined, Formed
      <3> QED BY <3>1, Without DEF Storeless
    <2>2. CASE u \notin Sides
      <3>1. todo'[u] = todo[u] /\ loc'[u] = loc[u] /\ mem'[u] = mem[u]
        BY <1>5, <2>2 DEF Moves, Locals
      <3>2. CASE Storeless(u)
        BY <3>1, <3>2 DEF Storeless
      <3>3. CASE ~Storeless(u)
        <4>1. PICK m : m = M(u)
          OBVIOUS
        <4>2. PICK s : s = todo[u]
          OBVIOUS
        <4>3. m \in Machines /\ StoreAt(u, m, s)
          BY <1>1, <3>3, <4>1, <4>2 DEF Kept
        <4>4. StoreAt(u, m, s)'
          BY <3>1, <4>3, SamePlace
        <4>5. m = M(u)' /\ s = todo'[u]
          BY <3>1, <4>1, <4>2 DEF M
        <4> QED BY <4>3, <4>4, <4>5
      <3> QED BY <3>2, <3>3
    <2> QED BY <2>1, <2>2
  <1> QED BY <1>2, <1>4, <1>5 DEF Kept

\* Beginning a command keeps Kept.
LEMMA KeptBegin ==
    ASSUME Lined, Kept, NEW p \in Procs, NEW i, NEW base, NEW s, Begins(p, i, base, s), Fresh(i, s)
    PROVE  Kept'
  <1> SUFFICES ASSUME "overlap" \notin history' PROVE Kept'
    BY DEF Kept
  <1>1. PICK t : t = Main(p)
    OBVIOUS
  <1>3. /\ t \in Threads /\ todo'[t] = s /\ M(t)' = i /\ "overlap" \notin history
        /\ \A u \in Threads \ {t} : todo'[u] = <<>>
    BY <1>1, LinedBegin DEF M
  <1>4. UNCHANGED <<file, vm>>
    BY DEF Begins
  <1>n. <<>> \in Seq(Words \ StoreSteps)
    OBVIOUS
  <1>6. StoreTypes'
    BY <1>3, <1>4 DEF Kept, StoreTypes
  <1>7. \A u \in Threads \ {t} : Storeless(u)'
    BY <1>3, <1>n DEF Storeless
  <1>8. s \in Seq(Words \ StoreSteps) \/ (i \in Machines /\ StoreFirst(i, s))
    BY FreshSteps
  <1>9. CASE s \in Seq(Words \ StoreSteps)
    <2>1. Storeless(t)'
      BY <1>3, <1>9 DEF Storeless
    <2> QED BY <1>6, <1>7, <2>1 DEF Kept
  <1>10. CASE i \in Machines /\ StoreFirst(i, s)
    <2>2. AtFind(t, i, s)' \/ AtSet(t, i, s)' \/ AtDelete(t, i, s)' \/ AtLoadDrop(t, i, s)'
      <3>1. CASE s \in ToFind /\ (s = ToFindVm => i \notin Remotes)
        BY <3>1 DEF AtFind
      <3>2. CASE s = ToSet("put-password")
        BY <3>2 DEF AtSet
      <3>3. CASE s = ToDelete("put-plain")
        BY <3>3 DEF AtDelete
      <3>4. CASE s = ToLoadDrop
        BY <3>4 DEF AtLoadDrop
      <3> QED BY <1>10, <3>1, <3>2, <3>3, <3>4 DEF StoreFirst
    <2>3. StoreAt(t, i, s)'
      BY <2>2 DEF StoreAt
    <2>4. M(t)' \in Machines /\ StoreAt(t, M(t), todo[t])'
      BY <1>3, <1>10, <2>3
    <2> QED BY <1>6, <1>7, <2>4 DEF Kept
  <1> QED BY <1>8, <1>9, <1>10

\* A step of a thread that is not one on machines.
LEMMA AsideStep ==
    ASSUME Formed, NEW t \in Threads, Step(t), ~StoreStep(t)
    PROVE  Tracks(t) /\ StoresKept /\ Head(todo[t]) \notin StoreSteps /\ UNCHANGED <<keychain, vm>>
  <1>0. Tracks(t)
    BY StepTracks
  <1>f. UNCHANGED <<file, tmp>> => StoresKept
    BY DEF StoresKept, Formed
  <1>2. CASE Ordinary(t)
    <2>1. UNCHANGED <<keychain, vm>> /\ StoresKept /\ Head(todo[t]) \in Usual
      BY <1>2 DEF Ordinary, Spared
    <2>2. Head(todo[t]) \notin StoreSteps
      BY <2>1, Kinds4
    <2> QED BY <1>0, <2>1, <2>2
  <1>3. CASE KeyStep(t)
    <2>1. Head(todo[t]) \in KeySteps /\ UNCHANGED <<keychain, vm>>
      BY <1>3, KeyTracks DEF KeyStep, hostVars
    <2>2. UNCHANGED <<file, tmp>>
      BY <1>3 DEF KeyStep, tls_bootstrap, WriteCert, write_secret, CopyTls, controld_install
    <2>3. Head(todo[t]) \notin StoreSteps
      BY <2>1, Kinds4
    <2> QED BY <1>0, <1>f, <2>1, <2>2, <2>3
  <1>4. CASE SwiftStep(t)
    <2>1. Head(todo[t]) \in SwiftSteps
      BY <1>4, SwiftTracks
    <2>2. UNCHANGED <<file, tmp, keychain, vm>>
      BY <1>4 DEF SwiftStep, write_if_changed, swiftc, Compile, keep, hostVars
    <2>3. Head(todo[t]) \notin StoreSteps
      BY <2>1, Kinds4
    <2> QED BY <1>0, <1>f, <2>2, <2>3
  <1> QED BY <1>2, <1>3, <1>4, StepKinds

\* Kept is an invariant.
LEMMA KeptNext ==
    ASSUME Lined, Arguments, Kept, [Next]_vars
    PROVE  Kept'
  <1>0. Formed
    BY DEF Lined
  <1>f. UNCHANGED <<file, tmp>> => StoresKept
    BY <1>0 DEF StoresKept, Formed
  <1>1. ASSUME NEW p \in Procs, NEW i, NEW base, NEW s, Begins(p, i, base, s), Fresh(i, s) PROVE Kept'
    BY <1>1, KeptBegin
  <1>2. ASSUME NEW t \in Threads, Step(t) PROVE Kept'
    <2>1. CASE StoreStep(t)
      BY <2>1, KeptStore
    <2>2. CASE ~StoreStep(t)
      <3>1. Tracks(t) /\ StoresKept /\ Head(todo[t]) \notin StoreSteps /\ UNCHANGED <<keychain, vm>>
        BY <1>0, <1>2, <2>2, AsideStep
      <3> QED BY <3>1, KeptAside DEF Tracks
    <2> QED BY <2>1, <2>2
  <1>3. ASSUME NEW p \in Procs, todo[Main(p)] # <<>>, Bail(Main(p)), Untouched,
               history' = history \cup {"kill"}
        PROVE  Kept'
    <2>1. PICK t \in Threads : t = Main(p) /\ Moves(t) /\ Locals(t) /\ todo'[t] = <<"exit">>
      BY <1>0, <1>3, KillMoves
    <2> QED BY <1>3, <1>f, <2>1, KeptAside DEF Untouched
  <1>4. ASSUME UNCHANGED <<todo, history>>, Untouched PROVE Kept'
    <2>1. UNCHANGED <<todo, history, loc, mem, file, tmp, keychain, vm>>
      BY <1>4 DEF Untouched
    <2>2. StoresKept /\ (StoreTypes => StoreTypes')
      BY <1>f, <2>1 DEF StoreTypes
    <2>4. \A u \in Threads : Storeless(u)' <=> Storeless(u)
      BY <2>1 DEF Storeless
    <2>5. ASSUME NEW u \in Threads, M(u) \in Machines, StoreAt(u, M(u), todo[u])
          PROVE  M(u)' = M(u) /\ StoreAt(u, M(u), todo[u])'
      <3>1. PICK m : m = M(u)
        OBVIOUS
      <3>2. PICK s : s = todo[u]
        OBVIOUS
      <3>3. StoreAt(u, m, s)'
        BY <2>1, <2>2, <2>5, <3>1, <3>2, SamePlace
      <3>4. m = M(u)' /\ s = todo'[u]
        BY <2>1, <3>1, <3>2 DEF M
      <3> QED BY <3>1, <3>3, <3>4
    <2> QED BY <2>1, <2>2, <2>4, <2>5 DEF Kept
  <1> QED BY <1>1, <1>2, <1>3, <1>4, NextKinds

\* What LoginsMend says of a step and a machine.
Mended(m) ==
    ~LoginWorks(m)' => \/ ~LoginWorks(m) /\ ~\E t \in Threads : M(t) = m /\ Saves(t)
                       \/ \E t \in Threads : TakesPassword(t, m)

\* A step that leaves the machine's entry and password.
LEMMA MendedAside ==
    ASSUME NEW m \in Machines, LoginWorks(m) => LoginWorks(m)', \A t \in Threads : ~(M(t) = m /\ Saves(t))
    PROVE  Mended(m)
  BY DEF Mended

\* A step that keeps off the stores.
LEMMA MendedKept ==
    ASSUME NEW m \in Machines, StoresKept, UNCHANGED <<keychain, vm>>
    PROVE  Mended(m)
  <1>1. LoginWorks(m) => LoginWorks(m)'
    BY LoginKept DEF StoresKept
  <1>2. \A t \in Threads : ~Saves(t)
    BY DEF Saves, StoresKept, StoreOf
  <1> QED BY <1>1, <1>2, MendedAside

\* A step of a command on machines.
LEMMA MendedStore ==
    ASSUME Lined, Kept, NEW t \in Threads, StoreStep(t), "overlap" \notin history', NEW x \in Machines
    PROVE  Mended(x)
  <1>m. PICK m : m = M(t)
    OBVIOUS
  <1>s. PICK s : s = todo[t]
    OBVIOUS
  <1>r. PICK r : r = todo'[t]
    OBVIOUS
  <1>1. Turn(t, m, s, r) /\ \A u \in Threads \ {t} : todo[u] \in Seq(Usual)
    BY <1>m, <1>s, <1>r, TurnNow
  <1>2. StoreTypes /\ m \in Machines
    BY <1>1 DEF Turn
  <1>3. \A u \in Threads \ {t} : ~Saves(u)
    <2> SUFFICES ASSUME NEW u \in Threads \ {t}, todo[u] # <<>>, Head(todo[u]) = "save" PROVE FALSE
      BY DEF Saves, At
    <2>1. "save" \in Usual
      BY <1>1, Rests
    <2> QED BY <2>1 DEF Usual, Early
  <1>4. ASSUME ~At(t, "save"), LoginWorks(x) => LoginWorks(x)' PROVE Mended(x)
    BY <1>3, <1>4, MendedAside DEF Saves
  <1>5. ASSUME UNCHANGED <<file, keychain, vm>> PROVE LoginWorks(x) => LoginWorks(x)'
    BY <1>5, LoginKept
  <1>6. CASE find_one(t) \/ LoadHosts(t) \/ LoadOverrides(t)
    <2>1. UNCHANGED <<file, keychain, vm>> /\ ~At(t, "save")
      BY <1>6 DEF find_one, LoadHosts, LoadOverrides, hostVars, At
    <2> QED BY <1>4, <1>5, <2>1
  <1>7. CASE \E step \in Edits : Edit(t, step)
    <2>1. UNCHANGED <<file, keychain, vm>> /\ ~At(t, "save")
      BY <1>7 DEF Edit, Edits, hostVars, At
    <2> QED BY <1>4, <1>5, <2>1
  <1>8. CASE set_password(t)
    <2>1. At(t, "keychain.set") /\ ~At(t, "save") /\ UNCHANGED <<file, vm>> /\ keychain' \in {keychain, Stored(m)}
      BY <1>8, <1>m DEF set_password, At
    <2>2. CASE keychain_account(m) = keychain_account(x) /\ m # x
      BY <1>m, <2>1, <2>2 DEF Mended, TakesPassword
    <2>3. CASE keychain_account(m) # keychain_account(x) \/ m = x
      <3>1. x \in keychain => x \in keychain'
        BY <2>1, <2>3 DEF Stored, OfAccount
      <3>2. LoginWorks(x) => LoginWorks(x)'
        BY <2>1, <3>1, LoginKept
      <3> QED BY <1>4, <2>1, <3>2
    <2> QED BY <2>2, <2>3
  <1>9. CASE delete_password(t) \/ Forget(t)
    <2>1. /\ At(t, "keychain.delete") \/ At(t, "forget")
          /\ ~At(t, "save") /\ UNCHANGED <<file, vm>> /\ keychain' \in {keychain, Cleared(m)}
      BY <1>9, <1>m DEF delete_password, Forget, At
    <2>2. CASE keychain_account(m) = keychain_account(x)
      BY <1>m, <2>1, <2>2 DEF Mended, TakesPassword
    <2>3. CASE keychain_account(m) # keychain_account(x)
      <3>1. x \in keychain => x \in keychain'
        BY <2>1, <2>3 DEF Cleared, OfAccount
      <3>2. LoginWorks(x) => LoginWorks(x)'
        BY <2>1, <3>1, LoginKept
      <3> QED BY <1>4, <2>1, <3>2
    <2> QED BY <2>2, <2>3
  <1>10. CASE save(t)
    <2>1. CASE UNCHANGED <<file, tmp, keychain, vm>>
      <3>1. StoresKept
        BY <2>1 DEF StoresKept, Lined, Formed
      <3> QED BY <2>1, <3>1, MendedKept
    <2>2. ASSUME UNCHANGED <<keychain, vm>>, NEW e \in Entry,
                 file'[StoreOf(m)][m] = e, e = "password" => m \in keychain,
                 \A y \in Machines \ {m} :
                    /\ y \in Remotes => file'["remotes"][y] = file["remotes"][y]
                    /\ file'["machines"][y] = file["machines"][y]
          PROVE  Mended(x)
      <3>1. CASE x = m
        <4>1. LoginWorks(x)'
          BY <2>2, <3>1, LoginThen DEF Sound, StoreOf
        <4> QED BY <4>1 DEF Mended
      <3>2. CASE x # m
        <4>1. LoginWorks(x) => LoginWorks(x)'
          BY <2>2, <3>2, LoginKept
        <4> QED BY <1>3, <1>m, <3>2, <4>1, MendedAside
      <3> QED BY <3>1, <3>2
    <2> QED BY <1>1, <1>10, <2>1, <2>2, Saved
  <1>11. CASE save_overrides(t)
    <2>1. /\ UNCHANGED <<keychain, vm>> /\ file'["remotes"] = file["remotes"]
          /\ \A y \in Machines : file'["machines"][y] = "password" => file["machines"][y] = "password"
      BY <1>1, <1>11, SavedOverrides
    <2>2. ~At(t, "save")
      BY <1>11 DEF save_overrides, At
    <2>3. LoginWorks(x) => LoginWorks(x)'
      BY <2>1, LoginKept
    <2> QED BY <1>4, <2>2, <2>3
  <1>12. CASE control_cmd(t) \/ delete_vm(t)
    <2>1. UNCHANGED <<file, keychain>> /\ \A y \in Vms : vm'[y] # "gone" => vm[y] # "gone"
      BY <1>2, <1>12, <1>m, Controlled
    <2>2. ~At(t, "save")
      BY <1>12 DEF control_cmd, delete_vm, At
    <2>3. LoginWorks(x) => LoginWorks(x)'
      BY <2>1, LoginKept DEF Machines
    <2> QED BY <1>4, <2>2, <2>3
  <1> QED BY <1>6, <1>7, <1>8, <1>9, <1>10, <1>11, <1>12 DEF StoreStep, HostStep

\* Every step.
LEMMA MendedNext ==
    ASSUME Lined, Arguments, Kept, [Next]_vars, "overlap" \notin history', NEW m \in Machines
    PROVE  Mended(m)
  <1>0. Formed
    BY DEF Lined
  <1>f. UNCHANGED <<file, tmp>> => StoresKept
    BY <1>0 DEF StoresKept, Formed
  <1>1. ASSUME NEW p \in Procs, NEW i, NEW base, NEW s, Begins(p, i, base, s), Fresh(i, s) PROVE Mended(m)
    BY <1>1, <1>f, MendedKept DEF Begins
  <1>2. ASSUME NEW t \in Threads, Step(t) PROVE Mended(m)
    <2>1. CASE StoreStep(t)
      BY <2>1, MendedStore
    <2>2. CASE ~StoreStep(t)
      BY <1>0, <1>2, <2>2, AsideStep, MendedKept
    <2> QED BY <2>1, <2>2
  <1>3. ASSUME Untouched PROVE Mended(m)
    BY <1>3, <1>f, MendedKept DEF Untouched
  <1> QED BY <1>1, <1>2, <1>3, NextKinds

\* LoginsMend: of commands that do not overlap, none but one that takes the
\* password of the machine's account away breaks a login, wherever it fails
\* or is killed, and one that comes to save the machine leaves a login that
\* works (remote.rs, machines/ and keychain.rs, whose stores no transaction
\* holds together).
THEOREM LoginsAlwaysMend == Spec => LoginsMend
  <1> DEFINE Inv == Lined /\ Arguments /\ Kept
  <1>1. CommandsInit => Inv
    <2> SUFFICES ASSUME CommandsInit PROVE Kept
      BY InitLined
    <2>1. \A t \in Threads : Storeless(t)
      BY DEF CommandsInit, Init, Storeless
    <2>2. /\ file["remotes"] = NoHosts /\ file["machines"] = NoOverrides
          /\ vm = [v \in Vms |-> "stopped"]
      BY DEF CommandsInit, Init, HostInit
    <2>3. StoreTypes
      BY <2>2 DEF StoreTypes, NoHosts, NoOverrides, Entry
    <2> QED BY <2>1, <2>3 DEF Kept
  <1>2. Inv /\ [Next]_vars => Inv'
    BY LinedNext, KeptNext, NextKinds
  <1>3. Inv /\ [Next]_vars =>
           [\A m \in Machines : "overlap" \notin history' /\ ~LoginWorks(m)' =>
              \/ ~LoginWorks(m) /\ ~\E t \in Threads : M(t) = m /\ Saves(t)
              \/ \E t \in Threads : TakesPassword(t, m)]_vars
    BY MendedNext DEF Mended
  <1> QED BY <1>1, <1>2, <1>3, PTL DEF Spec, LoginsMend

-----------------------------------------------------------------------------
(* The steps an instance's commands take, in their order.                  *)

\* List s has step a still to take; b is still to come and a is over.
Has(s, a) == \E k \in 1 .. Len(s) : s[k] = a
Past(s, a, b) == Has(s, b) /\ ~Has(s, a)

\* What comes right after a step that may skip it or counts on it.
Link(a, b) ==
    /\ a = "ports" => b = "ports.write"
    /\ a = "ports.write" => b = "ports.rename"
    /\ a = "ca" => b = "key"
    /\ a = "control" => b = "pid.control"
    /\ a = "tunnel" => b = "pid.tunnel"
    /\ a = "viewer" => b = "pid.viewer"
    /\ a = "view" => b = "waitviewer"
Chained(s) ==
    /\ \A k \in 1 .. Len(s) - 1 : Link(s[k], s[k + 1])
    /\ s # <<>> => s[Len(s)] = "exit"

\* After step a, and while b is to come and a is over, no step of X comes.
InOrder(s, a, b, X) ==
    /\ \A j \in 1 .. Len(s) : \A k \in 1 .. Len(s) : j < k /\ s[j] = a => s[k] \notin X
    /\ Past(s, a, b) => \A k \in 1 .. Len(s) : s[k] \notin X

\* The steps that give a command another instance or port; the ones that
\* start what `stop` has ended.
Renames == {"ports", "bundle"}
Begun == {"bundle", "viewer", "view", "tunnel"}

\* Nothing is started once the server has answered.
Fit(s) ==
    /\ Chained(s)
    /\ InOrder(s, "ping", "ping", {"start"})
    /\ InOrder(s, "start", "ping", Renames)
    /\ InOrder(s, "kill.viewer", "kill.control", Begun)
    /\ InOrder(s, "kill.tunnel", "kill.control", Begun)

AsideSteps == {"cache", "row", "socket", "launch", "exit"}

\* What is listed are apps, and the launchers are for instances.
Shelves ==
    /\ cache = <<>> \/ \E S \in Lists : cache = <<S>>
    /\ DOMAIN bundle = Names
    /\ \A n \in Names : DOMAIN bundle[n] = DOMAIN NoBundle /\ bundle[n].inst \in Insts

\* A command but for those on machines is about an instance.
Situated ==
    /\ \A t \in Threads : Fit(todo[t]) /\ loc[t].rows \subseteq Apps
    /\ \A t \in Threads : I(t) \in Insts \/ todo[t] \in Seq(StoreSteps \cup {"exit"})
    /\ \A t \in Sides : todo[t] \in Seq(AsideSteps)
    /\ Shelves

\* The servers have ports of their own; a command that has still to ping has
\* started the server of its instance, which runs or was ended later.
Served(t) ==
    /\ loc[t].port # 0
    /\ server[I(t)] = loc[t].port \/ <<I(t), loc[t].port>> \in ended
OwnServers ==
    /\ DOMAIN server = Insts
    /\ \A i \in Insts : \A j \in Insts : server[i] = server[j] /\ server[i] # 0 => i = j
    /\ \A t \in Threads : Past(todo[t], "start", "ping") => Served(t)

\* A process that runs is named by its pid file, or about to be, or it is the
\* viewer its launcher waits for, or it is leaked.
Single == \A t \in Threads : \A u \in Threads : t[1] # u[1] => todo[t] = <<>> \/ todo[u] = <<>>
Awaited(t, p) ==
    /\ todo[t] # <<>> /\ loc[t].pid = p /\ I(t) = procs[p].inst
    /\ \/ procs[p].kind = "viewer" /\ Head(todo[t]) = "pid.viewer"
       \/ procs[p].kind = "tunnel" /\ Head(todo[t]) = "pid.tunnel"
       \/ procs[p].kind = "control" /\ Head(todo[t]) = "pid.control"
       \/ procs[p].kind = "bundle" /\ Head(todo[t]) = "waitviewer"
Named(p) == procs[p].kind # "bundle" /\ pidfile[<<procs[p].inst, procs[p].kind>>] = p
Running == {p \in Live : p \notin leaked}
ProcessTypes ==
    /\ \E S : procs \in Seq(S)
    /\ \A p \in DOMAIN procs :
          /\ {"kind", "inst", "alive"} \subseteq DOMAIN procs[p]
          /\ procs[p].kind \in Kinds \cup {"bundle"} /\ procs[p].inst \in Insts
    /\ pidfile \in [Insts \X Kinds -> 0 .. Len(procs)]
    /\ \A t \in Threads : loc[t].pid \in 0 .. Len(procs)

Ended(t) ==
    /\ Past(todo[t], "kill.viewer", "kill.control") =>
          \A p \in Running : procs[p].inst = I(t) => procs[p].kind \notin {"viewer", "bundle"}
    /\ Past(todo[t], "kill.tunnel", "kill.control") =>
          \A p \in Running : procs[p].inst = I(t) => procs[p].kind # "tunnel"
Tidy ==
    /\ ProcessTypes
    /\ ~mixed => /\ Single
                 /\ \A p \in Running : Named(p) \/ \E t \in Threads : Awaited(t, p)
                 /\ \A t \in Threads : Ended(t)

-----------------------------------------------------------------------------
(* What is left of a list keeps its order.                                 *)

\* r is s without its first n steps.
Rest(s, n, r) ==
    /\ r \in Seq(Words) /\ n \in 0 .. Len(s) /\ Len(r) = Len(s) - n
    /\ \A k \in 1 .. Len(r) : r[k] = s[k + n]

\* Go and Skip leave such a rest.
LEMMA RestOf ==
    ASSUME NEW s \in Seq(Words), s # <<>>
    PROVE  /\ Rest(s, 1, Tail(s)) /\ Rest(s, 0, s)
           /\ Len(s) >= 2 => Rest(s, 2, SubSeq(s, 3, Len(s)))
           /\ Len(s) >= 3 => Rest(s, 3, SubSeq(s, 4, Len(s)))
  <1>1. Rest(s, 1, Tail(s)) /\ Rest(s, 0, s)
    BY DEF Rest
  <1>2. ASSUME Len(s) >= 2 PROVE Rest(s, 2, SubSeq(s, 3, Len(s)))
    <2>1. Len(s) \in Nat /\ 3 \in 1 .. Len(s) + 1
      BY <1>2
    <2>2. SubSeq(s, 3, Len(s)) \in Seq(Words)
      BY Rests
    <2>3. Len(SubSeq(s, 3, Len(s))) = Len(s) - 2
      <3>1. 3 \in Int /\ Len(s) \in Int /\ \A i \in 3 .. Len(s) : s[i] \in Words
        BY <2>1
      <3>2. Len(SubSeq(s, 3, Len(s))) = IF 3 <= Len(s) THEN Len(s) - 3 + 1 ELSE 0
        BY <3>1, SubSeqProperties
      <3>3. \A l \in Nat : 3 \in 1 .. l + 1 => (IF 3 <= l THEN l - 3 + 1 ELSE 0) = l - 2
        OBVIOUS
      <3> QED BY <2>1, <3>2, <3>3, Zenon
    <2>4. \A k \in 1 .. Len(s) - 2 : SubSeq(s, 3, Len(s))[k] = s[k + 2]
      BY <2>1
    <2> QED BY <1>2, <2>1, <2>2, <2>3, <2>4 DEF Rest
  <1>3. ASSUME Len(s) >= 3 PROVE Rest(s, 3, SubSeq(s, 4, Len(s)))
    <2>1. Len(s) \in Nat /\ 4 \in 1 .. Len(s) + 1
      BY <1>3
    <2>2. SubSeq(s, 4, Len(s)) \in Seq(Words)
      BY Rests
    <2>3. Len(SubSeq(s, 4, Len(s))) = Len(s) - 3
      <3>1. 4 \in Int /\ Len(s) \in Int /\ \A i \in 4 .. Len(s) : s[i] \in Words
        BY <2>1
      <3>2. Len(SubSeq(s, 4, Len(s))) = IF 4 <= Len(s) THEN Len(s) - 4 + 1 ELSE 0
        BY <3>1, SubSeqProperties
      <3>3. \A l \in Nat : 4 \in 1 .. l + 1 => (IF 4 <= l THEN l - 4 + 1 ELSE 0) = l - 3
        OBVIOUS
      <3> QED BY <2>1, <3>2, <3>3, Zenon
    <2>4. \A k \in 1 .. Len(s) - 3 : SubSeq(s, 4, Len(s))[k] = s[k + 3]
      BY <2>1
    <2> QED BY <1>3, <2>1, <2>2, <2>3, <2>4 DEF Rest
  <1> QED BY <1>1, <1>2, <1>3

\* A rest is chained.
LEMMA RestChained ==
    ASSUME NEW s \in Seq(Words), Chained(s), NEW n \in Nat, NEW r, Rest(s, n, r)
    PROVE  Chained(r)
  <1>1. /\ Len(r) \in Nat /\ Len(s) \in Nat /\ n <= Len(s) /\ Len(r) = Len(s) - n
        /\ \A k \in 1 .. Len(r) : r[k] = s[k + n]
    BY DEF Rest
  <1>2. ASSUME NEW k \in 1 .. Len(r) - 1 PROVE Link(r[k], r[k + 1])
    <2>0. k \in 1 .. Len(r) /\ k + 1 \in 1 .. Len(r)
      BY <1>1
    <2>1. r[k] = s[k + n] /\ r[k + 1] = s[(k + 1) + n]
      BY <1>1, <2>0, Zenon
    <2>a. \A l \in Nat : \A i \in 1 .. (l - n) - 1 : i + n \in 1 .. l - 1 /\ (i + 1) + n = (i + n) + 1
      OBVIOUS
    <2>b. k \in 1 .. (Len(s) - n) - 1
      BY <1>1
    <2>c. k + n \in 1 .. Len(s) - 1 /\ (k + 1) + n = (k + n) + 1
      BY <1>1, <2>a, <2>b, Zenon
    <2>2. r[k + 1] = s[(k + n) + 1]
      BY <2>1, <2>c
    <2> QED BY <2>1, <2>2, <2>c DEF Chained
  <1>3. ASSUME r # <<>> PROVE r[Len(r)] = "exit"
    <2>1. Len(r) # 0 /\ s # <<>>
      BY <1>1, <1>3 DEF Rest
    <2> QED BY <1>1, <2>1 DEF Chained
  <1> QED BY <1>2, <1>3 DEF Chained

\* It is in order, and a phase that it is in began before, or begins with the
\* first step of the list.
LEMMA RestInOrder ==
    ASSUME NEW s \in Seq(Words), NEW n \in Nat, NEW r, Rest(s, n, r),
           NEW a, NEW b, NEW X, InOrder(s, a, b, X),
           \A k \in 2 .. n : s[k] # a
    PROVE  /\ InOrder(r, a, b, X)
           /\ Past(r, a, b) => Past(s, a, b) \/ (n # 0 /\ s[1] = a)
  <1>1. /\ Len(r) \in Nat /\ Len(s) \in Nat /\ n <= Len(s) /\ Len(r) = Len(s) - n
        /\ \A k \in 1 .. Len(r) : r[k] = s[k + n] /\ k + n \in 1 .. Len(s)
    BY DEF Rest
  <1>2. ASSUME NEW j \in 1 .. Len(r), NEW k \in 1 .. Len(r), j < k, r[j] = a PROVE r[k] \notin X
    <2>1. j + n \in 1 .. Len(s) /\ k + n \in 1 .. Len(s) /\ j + n < k + n /\ s[j + n] = a /\ r[k] = s[k + n]
      BY <1>1, <1>2
    <2> QED BY <2>1 DEF InOrder
  <1>3. ASSUME Past(r, a, b)
        PROVE  /\ Past(s, a, b) \/ (n # 0 /\ s[1] = a)
               /\ \A k \in 1 .. Len(r) : r[k] \notin X
    <2>1. Has(s, b)
      BY <1>1, <1>3 DEF Past, Has
    <2>2. CASE ~Has(s, a)
      <3>1. Past(s, a, b)
        BY <2>1, <2>2 DEF Past
      <3>2. \A k \in 1 .. Len(s) : s[k] \notin X
        BY <3>1 DEF InOrder
      <3> QED BY <1>1, <3>1, <3>2
    <2>3. CASE Has(s, a)
      <3>1. PICK j \in 1 .. Len(s) : s[j] = a
        BY <2>3 DEF Has
      <3>2. j <= n
        <4> SUFFICES ASSUME j > n PROVE FALSE
          BY <1>1
        <4>1. j - n \in 1 .. Len(r) /\ (j - n) + n = j
          BY <1>1
        <4>2. r[j - n] = s[(j - n) + n]
          BY <1>1, <4>1
        <4> QED BY <1>3, <3>1, <4>1, <4>2 DEF Past, Has
      <3>3. j = 1 /\ n # 0
        BY <3>1, <3>2
      <3>4. \A k \in 1 .. Len(s) : 1 < k => s[k] \notin X
        BY <1>1, <3>1, <3>3 DEF InOrder
      <3>5. \A k \in 1 .. Len(r) : r[k] \notin X
        BY <1>1, <3>3, <3>4
      <3> QED BY <3>1, <3>3, <3>5
    <2> QED BY <2>2, <2>3
  <1> QED BY <1>2, <1>3 DEF InOrder

\* Steps put in the place of a step of X, with neither a nor b, begin no phase.
LEMMA JumpInOrder ==
    ASSUME NEW s \in Seq(Words), s # <<>>, NEW r \in Seq(Words),
           NEW a, NEW b, NEW X, InOrder(s, a, b, X), s[1] \in X, a \notin X,
           ~Has(r, a), ~Has(r, b)
    PROVE  InOrder(r \o Tail(s), a, b, X) /\ ~Past(r \o Tail(s), a, b)
  <1> DEFINE q == r \o Tail(s)
  <1>1. /\ Len(r) \in Nat /\ Len(s) \in Nat \ {0} /\ Len(q) = Len(r) + Len(s) - 1
        /\ \A k \in 1 .. Len(r) : q[k] = r[k]
        /\ \A k \in 2 .. Len(s) : q[Len(r) + k - 1] = s[k]
    OBVIOUS
  <1> HIDE DEF q
  <1>2. ASSUME NEW k \in 1 .. Len(q), k > Len(r)
        PROVE  (k - Len(r)) + 1 \in 2 .. Len(s) /\ q[k] = s[(k - Len(r)) + 1]
    <2>1. (k - Len(r)) + 1 \in 2 .. Len(s) /\ Len(r) + ((k - Len(r)) + 1) - 1 = k
      BY <1>1, <1>2
    <2> QED BY <1>1, <2>1
  <1>3. \A k \in 1 .. Len(q) : k <= Len(r) => q[k] # a /\ q[k] # b
    BY <1>1 DEF Has
  <1>4. ASSUME NEW j \in 1 .. Len(q), NEW k \in 1 .. Len(q), j < k, q[j] = a PROVE q[k] \notin X
    <2>1. j > Len(r) /\ k > Len(r)
      BY <1>1, <1>3, <1>4
    <2>2. /\ (j - Len(r)) + 1 \in 1 .. Len(s) /\ (k - Len(r)) + 1 \in 1 .. Len(s)
          /\ (j - Len(r)) + 1 < (k - Len(r)) + 1
          /\ q[j] = s[(j - Len(r)) + 1] /\ q[k] = s[(k - Len(r)) + 1]
      BY <1>1, <1>2, <1>4, <2>1
    <2> QED BY <1>4, <2>2 DEF InOrder
  <1>5. ASSUME Past(q, a, b) PROVE FALSE
    <2>1. PICK k \in 1 .. Len(q) : q[k] = b
      BY <1>5 DEF Past, Has
    <2>2. Has(s, b)
      <3>1. k > Len(r)
        BY <1>1, <1>3, <2>1
      <3>2. (k - Len(r)) + 1 \in 1 .. Len(s) /\ s[(k - Len(r)) + 1] = b
        BY <1>1, <1>2, <2>1, <3>1
      <3> QED BY <3>2 DEF Has
    <2>3. Has(s, a)
      BY <1>1, <2>2 DEF InOrder, Past
    <2>4. PICK j \in 1 .. Len(s) : s[j] = a
      BY <2>3 DEF Has
    <2>5. j \in 2 .. Len(s)
      BY <1>1, <2>4
    <2>6. Len(r) + j - 1 \in 1 .. Len(q) /\ q[Len(r) + j - 1] = a
      BY <1>1, <2>4, <2>5
    <2> QED BY <1>5, <2>6 DEF Past, Has
  <1> QED BY <1>4, <1>5 DEF InOrder, q

-----------------------------------------------------------------------------
(* The commands keep that order.                                           *)

\* The steps that must not be skipped, and what may not follow them.
Good(s, a, b, X) == InOrder(s, a, b, X) /\ ~Past(s, a, b)

\* A list without a and b; a list without X that has a if it has b.
LEMMA GoodAlone ==
    ASSUME NEW a, NEW b, NEW X, NEW s \in Seq(Words \ {a, b})
    PROVE  Good(s, a, b, X)
  <1>1. Len(s) \in Nat /\ \A k \in 1 .. Len(s) : s[k] # a /\ s[k] # b
    OBVIOUS
  <1> QED BY <1>1 DEF Good, InOrder, Past, Has

LEMMA GoodBase ==
    ASSUME NEW a, NEW b, NEW X, NEW s \in Seq(Words \ X), Has(s, a)
    PROVE  Good(s, a, b, X)
  <1>1. Len(s) \in Nat /\ \A k \in 1 .. Len(s) : s[k] \notin X
    OBVIOUS
  <1> QED BY <1>1 DEF Good, InOrder, Past

\* What may be put before and behind.
LEMMA Concats ==
    ASSUME NEW S, NEW T, NEW r \in Seq(S), NEW s \in Seq(T)
    PROVE  /\ Len(r) \in Nat /\ Len(s) \in Nat /\ Len(r \o s) = Len(r) + Len(s)
           /\ \A k \in 1 .. Len(r) : (r \o s)[k] = r[k]
           /\ \A k \in 1 .. Len(r \o s) : k > Len(r) =>
                 (r \o s)[k] = s[k - Len(r)] /\ k - Len(r) \in 1 .. Len(s)
           /\ \A k \in 1 .. Len(s) : (r \o s)[Len(r) + k] = s[k]
  <1>1. r \in Seq(S \cup T) /\ s \in Seq(S \cup T)
    BY MoreSteps
  <1> QED BY <1>1

LEMMA GoodBehind ==
    ASSUME NEW a, NEW b, NEW X, NEW r \in Seq(Words \ {a, b}), NEW s \in Seq(Words), Good(s, a, b, X)
    PROVE  Good(r \o s, a, b, X)
  <1> DEFINE q == r \o s
  <1>1. /\ Len(r) \in Nat /\ Len(s) \in Nat /\ Len(q) = Len(r) + Len(s)
        /\ \A k \in 1 .. Len(r) : q[k] = r[k]
        /\ \A k \in 1 .. Len(q) : k > Len(r) => q[k] = s[k - Len(r)] /\ k - Len(r) \in 1 .. Len(s)
        /\ \A k \in 1 .. Len(s) : q[Len(r) + k] = s[k]
    BY Concats
  <1>2. \A k \in 1 .. Len(r) : r[k] # a /\ r[k] # b
    OBVIOUS
  <1> HIDE DEF q
  <1>3. \A k \in 1 .. Len(q) : k <= Len(r) => q[k] # a /\ q[k] # b
    BY <1>1, <1>2
  <1>4. ASSUME NEW j \in 1 .. Len(q), NEW k \in 1 .. Len(q), j < k, q[j] = a PROVE q[k] \notin X
    <2>1. j > Len(r) /\ k > Len(r)
      BY <1>1, <1>3, <1>4
    <2>2. /\ j - Len(r) \in 1 .. Len(s) /\ k - Len(r) \in 1 .. Len(s) /\ j - Len(r) < k - Len(r)
          /\ s[j - Len(r)] = a /\ q[k] = s[k - Len(r)]
      BY <1>1, <1>4, <2>1
    <2> QED BY <2>2 DEF Good, InOrder
  <1>5. ~Past(q, a, b)
    <2> SUFFICES ASSUME Has(q, b) PROVE Has(q, a)
      BY DEF Past
    <2>1. PICK k \in 1 .. Len(q) : q[k] = b
      BY DEF Has
    <2>2. k > Len(r)
      BY <1>1, <1>3, <2>1
    <2>3. k - Len(r) \in 1 .. Len(s) /\ s[k - Len(r)] = b
      BY <1>1, <2>1, <2>2
    <2>4. Has(s, a)
      BY <2>3 DEF Good, Past, Has
    <2>5. PICK j \in 1 .. Len(s) : s[j] = a
      BY <2>4 DEF Has
    <2>6. Len(r) + j \in 1 .. Len(q) /\ q[Len(r) + j] = a
      BY <1>1, <2>5
    <2> QED BY <2>6 DEF Has
  <1> QED BY <1>4, <1>5 DEF Good, InOrder, q

LEMMA GoodBefore ==
    ASSUME NEW a, NEW b, NEW X, NEW r \in Seq(Words), Good(r, a, b, X),
           NEW s \in Seq(Words \ (X \cup {a, b}))
    PROVE  Good(r \o s, a, b, X)
  <1> DEFINE q == r \o s
  <1>1. /\ Len(r) \in Nat /\ Len(s) \in Nat /\ Len(q) = Len(r) + Len(s)
        /\ \A k \in 1 .. Len(r) : q[k] = r[k]
        /\ \A k \in 1 .. Len(q) : k > Len(r) => q[k] = s[k - Len(r)] /\ k - Len(r) \in 1 .. Len(s)
    BY Concats
  <1>2. \A k \in 1 .. Len(s) : s[k] # a /\ s[k] # b /\ s[k] \notin X
    OBVIOUS
  <1> HIDE DEF q
  <1>3. \A k \in 1 .. Len(q) : k > Len(r) => q[k] # a /\ q[k] # b /\ q[k] \notin X
    BY <1>1, <1>2
  <1>4. ASSUME NEW j \in 1 .. Len(q), NEW k \in 1 .. Len(q), j < k, q[j] = a PROVE q[k] \notin X
    <2>1. j <= Len(r)
      BY <1>1, <1>3, <1>4
    <2>2. CASE k > Len(r)
      BY <1>3, <2>2
    <2>3. CASE k <= Len(r)
      <3>1. j \in 1 .. Len(r) /\ k \in 1 .. Len(r) /\ r[j] = a /\ q[k] = r[k]
        BY <1>1, <1>4, <2>1, <2>3
      <3> QED BY <1>4, <3>1 DEF Good, InOrder
    <2> QED BY <1>1, <2>2, <2>3
  <1>5. ~Past(q, a, b)
    <2> SUFFICES ASSUME Has(q, b) PROVE Has(q, a)
      BY DEF Past
    <2>1. PICK k \in 1 .. Len(q) : q[k] = b
      BY DEF Has
    <2>2. k \in 1 .. Len(r) /\ r[k] = b
      BY <1>1, <1>3, <2>1
    <2>3. PICK j \in 1 .. Len(r) : r[j] = a
      BY <2>2 DEF Good, Past, Has
    <2>4. j \in 1 .. Len(q) /\ q[j] = a
      BY <1>1, <2>3
    <2> QED BY <2>4 DEF Has
  <1> QED BY <1>4, <1>5 DEF Good, InOrder, q

\* Steps after which any step may come.
Linkers == {"ports", "ports.write", "ca", "control", "tunnel", "viewer", "view"}

\* Part of a command, which ends with step l.
Piece(s, l) ==
    /\ s \in Seq(Words) /\ s # <<>> /\ s[Len(s)] = l
    /\ \A k \in 1 .. Len(s) - 1 : Link(s[k], s[k + 1])

LEMMA PieceFree ==
    ASSUME NEW s \in Seq(Words \ Linkers), s # <<>>
    PROVE  Piece(s, s[Len(s)])
  <1>1. s \in Seq(Words)
    BY MoreSteps
  <1>2. \A k \in 1 .. Len(s) - 1 : s[k] \notin Linkers
    OBVIOUS
  <1> QED BY <1>1, <1>2 DEF Piece, Link, Linkers

LEMMA PieceJoins ==
    ASSUME NEW r, NEW s, NEW l, NEW m, Piece(r, l), l \notin Linkers, Piece(s, m)
    PROVE  Piece(r \o s, m)
  <1> DEFINE q == r \o s
  <1>0. r \in Seq(Words) /\ s \in Seq(Words) /\ q \in Seq(Words) /\ Len(r) # 0 /\ Len(s) # 0
    BY DEF Piece
  <1>1. /\ Len(r) \in Nat /\ Len(s) \in Nat /\ Len(q) = Len(r) + Len(s)
        /\ \A k \in 1 .. Len(r) : q[k] = r[k]
        /\ \A k \in 1 .. Len(q) : k > Len(r) => q[k] = s[k - Len(r)] /\ k - Len(r) \in 1 .. Len(s)
    BY <1>0, Concats
  <1> HIDE DEF q
  <1>2. ASSUME NEW k \in 1 .. Len(q) - 1 PROVE Link(q[k], q[k + 1])
    <2>0. k \in 1 .. Len(q) /\ k + 1 \in 1 .. Len(q)
      BY <1>1
    <2>1. CASE k < Len(r)
      <3>1. k \in 1 .. Len(r) - 1 /\ q[k] = r[k] /\ q[k + 1] = r[k + 1]
        BY <1>1, <2>1
      <3> QED BY <3>1 DEF Piece
    <2>2. CASE k = Len(r)
      <3>1. q[k] = l
        BY <1>0, <1>1, <2>2 DEF Piece
      <3> QED BY <3>1 DEF Link, Linkers
    <2>3. CASE k > Len(r)
      <3>0. k + 1 > Len(r) /\ (k + 1) - Len(r) = (k - Len(r)) + 1 /\ k - Len(r) \in 1 .. Len(s) - 1
        BY <1>1, <2>0, <2>3
      <3>1. k - Len(r) \in 1 .. Len(s) - 1 /\ q[k] = s[k - Len(r)]
        BY <1>1, <2>0, <2>3, <3>0
      <3>2. q[k + 1] = s[(k - Len(r)) + 1]
        <4>1. q[k + 1] = s[(k + 1) - Len(r)]
          BY <1>1, <2>0, <3>0
        <4> QED BY <3>0, <4>1
      <3> QED BY <3>1, <3>2 DEF Piece
    <2> QED BY <1>1, <2>1, <2>2, <2>3
  <1>3. q[Len(q)] = m
    <2>1. Len(q) \in 1 .. Len(q) /\ Len(q) > Len(r) /\ Len(q) - Len(r) = Len(s)
      BY <1>0, <1>1
    <2> QED BY <1>1, <2>1 DEF Piece
  <1>4. q # <<>>
    BY <1>0, <1>1
  <1> QED BY <1>0, <1>2, <1>3, <1>4 DEF Piece, q

\* The steps that begin or end a phase, and the ones a phase excludes.
Kills == {"kill.viewer", "kill.tunnel", "kill.control"}
Starts == {"start", "ping"}
Neutral == Words \ (Kills \cup Starts \cup Renames \cup Begun)

AllGood(s) ==
    /\ s \in Seq(Words)
    /\ Good(s, "ping", "ping", {"start"}) /\ Good(s, "start", "ping", Renames)
    /\ Good(s, "kill.viewer", "kill.control", Begun)
    /\ Good(s, "kill.tunnel", "kill.control", Begun)
\* A list that starts something and ends nothing.
Up(s) ==
    /\ s \in Seq(Words \ Kills)
    /\ Good(s, "ping", "ping", {"start"}) /\ Good(s, "start", "ping", Renames)

\* The words, by their sets.
LEMMA WordSets ==
    /\ Neutral \subseteq Words /\ Words \ Kills \subseteq Words
    /\ Neutral \subseteq Words \ Kills /\ Neutral \subseteq Words \ Starts /\ Neutral \subseteq Words \ Renames
    /\ Neutral \subseteq Words \ (Renames \cup {"start", "ping"})
    /\ Neutral \subseteq Words \ ({"start"} \cup {"ping", "ping"}) /\ Neutral \subseteq Words \ {"ping", "ping"}
    /\ Neutral \subseteq Words \ (Begun \cup {"kill.viewer", "kill.control"})
    /\ Neutral \subseteq Words \ (Begun \cup {"kill.tunnel", "kill.control"})
    /\ Neutral \subseteq Words \ {"start", "ping"}
    /\ Neutral \subseteq Words \ {"kill.viewer", "kill.control"}
    /\ Neutral \subseteq Words \ {"kill.tunnel", "kill.control"}
    /\ Words \ Kills \subseteq Words \ {"kill.viewer", "kill.control"}
    /\ Words \ Kills \subseteq Words \ {"kill.tunnel", "kill.control"}
  BY DEF Neutral, Kills, Starts

\* Lists of plain steps, alone, before and behind others.
LEMMA PlainGood ==
    ASSUME NEW s \in Seq(Neutral)
    PROVE  /\ AllGood(s) /\ Up(s)
           /\ \A r : AllGood(r) => AllGood(r \o s) /\ AllGood(s \o r)
           /\ \A r : Up(r) => Up(r \o s) /\ Up(s \o r)
  <1>1. /\ s \in Seq(Words) /\ s \in Seq(Words \ Kills)
        /\ s \in Seq(Words \ (Renames \cup {"start", "ping"}))
        /\ s \in Seq(Words \ ({"start"} \cup {"ping", "ping"})) /\ s \in Seq(Words \ {"ping", "ping"})
        /\ s \in Seq(Words \ (Begun \cup {"kill.viewer", "kill.control"}))
        /\ s \in Seq(Words \ (Begun \cup {"kill.tunnel", "kill.control"}))
        /\ s \in Seq(Words \ {"start", "ping"})
        /\ s \in Seq(Words \ {"kill.viewer", "kill.control"})
        /\ s \in Seq(Words \ {"kill.tunnel", "kill.control"})
    <2>1. \A T : Neutral \subseteq T => s \in Seq(T)
      BY MoreSteps
    <2> QED BY <2>1, WordSets, Zenon
  <1>2. AllGood(s) /\ Up(s)
    BY <1>1, GoodAlone, Zenon DEF AllGood, Up
  <1>3. ASSUME NEW r, AllGood(r) PROVE AllGood(r \o s) /\ AllGood(s \o r)
    <2>1. r \o s \in Seq(Words) /\ s \o r \in Seq(Words)
      BY <1>1, <1>3 DEF AllGood
    <2> QED BY <1>1, <1>3, <2>1, GoodBehind, GoodBefore, Zenon DEF AllGood
  <1>4. ASSUME NEW r, Up(r) PROVE Up(r \o s) /\ Up(s \o r)
    <2>1. r \o s \in Seq(Words \ Kills) /\ s \o r \in Seq(Words \ Kills) /\ r \in Seq(Words)
      BY <1>1, <1>4, WordSets, MoreSteps DEF Up
    <2> QED BY <1>1, <1>4, <2>1, GoodBehind, GoodBefore, Zenon DEF Up
  <1> QED BY <1>2, <1>3, <1>4

\* A list that only starts something is good.
LEMMA UpGood ==
    ASSUME NEW s, Up(s) PROVE AllGood(s)
  <1>1. s \in Seq(Words) /\ s \in Seq(Words \ {"kill.viewer", "kill.control"})
        /\ s \in Seq(Words \ {"kill.tunnel", "kill.control"})
    BY WordSets, MoreSteps, Zenon DEF Up
  <1> QED BY <1>1, GoodAlone, Zenon DEF Up, AllGood

\* The parts of the commands.
LEMMA Parts ==
    /\ Up(start_stack) /\ AllGood(stop) /\ \A r : Up(r) => AllGood(r \o stop)
    /\ \A r : Up(r) => Up(r \o viewer) /\ Up(r \o <<"app-id", "view", "waitviewer">>)
    /\ Up(<<"cache", "row">> \o instance_context \o start_stack)
    /\ Piece(start_stack, "ping") /\ Piece(viewer, "socket") /\ Piece(stop, "kill.control")
    /\ Piece(<<"app-id", "view", "waitviewer">>, "waitviewer")
    /\ Piece(instance_context, "ports.rename") /\ Piece(status, "kill.own")
  <1>1. /\ "ports" \in Words /\ "ports.write" \in Words /\ "ports.rename" \in Words
        /\ "control" \in Words /\ "tunnel" \in Words /\ "viewer" \in Words
        /\ "pid.viewer" \in Words /\ "pid.tunnel" \in Words /\ "pid.control" \in Words
        /\ "kill.viewer" \in Words /\ "kill.tunnel" \in Words /\ "kill.control" \in Words
        /\ "kill.own" \in Words /\ "waitviewer" \in Words
        /\ "start" \in Words /\ "ping" \in Words /\ "socket" \in Words
        /\ "stop" \in Words /\ "ctl-status" \in Words
        /\ "view" \in Words /\ "app-id" \in Words /\ "row" \in Words
        /\ "build" \in Words /\ "cache" \in Words
    BY UsualNames DEF Words
  <1> DEFINE launched == <<"app-id", "view", "waitviewer">>
  <1>2. Piece(start_stack, "ping")
    BY <1>1 DEF Piece, start_stack, Link
  <1>3. Piece(viewer, "socket")
    BY <1>1 DEF Piece, viewer, Link
  <1>4. Piece(stop, "kill.control")
    BY <1>1 DEF Piece, stop, Link
  <1>5. Piece(launched, "waitviewer")
    BY <1>1 DEF Piece, Link
  <1>6. Piece(instance_context, "ports.rename")
    BY <1>1 DEF Piece, instance_context, Link
  <1>7. Piece(status, "kill.own")
    BY <1>1 DEF Piece, status, Link
  <1>8. Up(start_stack)
    <2>1. start_stack \in Seq(Words \ Renames) /\ Has(start_stack, "start")
      <3>1. start_stack[4] = "start" /\ 4 \in 1 .. Len(start_stack)
        BY DEF start_stack
      <3> QED BY <1>1, <3>1 DEF start_stack, Renames, Has
    <2>2. start_stack \in Seq(Words \ Kills)
      BY <1>1 DEF start_stack, Kills
    <2>3. Good(start_stack, "ping", "ping", {"start"})
      BY DEF start_stack, Good, InOrder, Past, Has
    <2> QED BY <2>1, <2>2, <2>3, GoodBase DEF Up
  <1>9. stop \in Seq(Words \ Begun) /\ Has(stop, "kill.viewer") /\ Has(stop, "kill.tunnel")
    <2>1. stop[1] = "kill.viewer" /\ stop[2] = "kill.tunnel" /\ 1 \in 1 .. Len(stop) /\ 2 \in 1 .. Len(stop)
      BY DEF stop
    <2> QED BY <1>1, <2>1 DEF stop, Begun, Has
  <1>10. /\ stop \in Seq(Words \ {"start", "ping"}) /\ stop \in Seq(Words)
         /\ stop \in Seq(Words \ {"ping", "ping"}) /\ stop \in Seq(Words \ ({"start"} \cup {"ping", "ping"}))
         /\ stop \in Seq(Words \ (Renames \cup {"start", "ping"}))
    BY <1>1 DEF stop, Renames
  <1>11. AllGood(stop)
    BY <1>9, <1>10, GoodBase, GoodAlone DEF AllGood
  <1>12. ASSUME NEW r, Up(r) PROVE AllGood(r \o stop)
    <2>1. r \in Seq(Words) /\ r \in Seq(Words \ {"kill.viewer", "kill.control"})
          /\ r \in Seq(Words \ {"kill.tunnel", "kill.control"})
      BY <1>12, WordSets, MoreSteps, Zenon DEF Up
    <2>2. r \o stop \in Seq(Words)
      BY <1>10, <2>1
    <2> QED BY <1>10, <1>11, <1>12, <2>1, <2>2, GoodBehind, GoodBefore, Zenon DEF AllGood, Up
  <1>13. ASSUME NEW r, Up(r), NEW s \in Seq(Words \ (Kills \cup Renames \cup {"start", "ping"}))
         PROVE  Up(r \o s)
    <2>1. r \in Seq(Words)
      BY <1>13, WordSets, MoreSteps, Zenon DEF Up
    <2>2. /\ s \in Seq(Words \ Kills) /\ s \in Seq(Words \ (Renames \cup {"start", "ping"}))
          /\ s \in Seq(Words \ ({"start"} \cup {"ping", "ping"}))
      BY MoreSteps
    <2>3. r \o s \in Seq(Words \ Kills)
      BY <1>13, <2>2 DEF Up
    <2> QED BY <1>13, <2>1, <2>2, <2>3, GoodBefore, Zenon DEF Up
  <1>14. /\ viewer \in Seq(Words \ (Kills \cup Renames \cup {"start", "ping"}))
         /\ launched \in Seq(Words \ (Kills \cup Renames \cup {"start", "ping"}))
    BY <1>1 DEF viewer, Kills, Renames
  <1>15. Up(<<"cache", "row">> \o instance_context \o start_stack)
    <2> DEFINE r == <<"cache", "row">> \o instance_context
    <2>1. r \in Seq(Words \ {"start", "ping"}) /\ r \in Seq(Words \ Kills) /\ r \in Seq(Words \ {"ping", "ping"})
      BY <1>1 DEF instance_context, Kills
    <2> HIDE DEF r
    <2>2. start_stack \in Seq(Words \ Kills) /\ start_stack \in Seq(Words)
      BY <1>8, WordSets, MoreSteps, Zenon DEF Up
    <2>3. r \o start_stack \in Seq(Words \ Kills)
      BY <2>1, <2>2
    <2>4. Up(r \o start_stack)
      BY <1>8, <2>1, <2>2, <2>3, GoodBehind, Zenon DEF Up
    <2> QED BY <2>4 DEF r
  <1> HIDE DEF launched
  <1> QED BY <1>2, <1>3, <1>4, <1>5, <1>6, <1>7, <1>8, <1>11, <1>12, <1>13, <1>14, <1>15, Zenon DEF launched

\* A good list that is chained fits.
LEMMA GoodFits ==
    ASSUME NEW s, AllGood(s), Piece(s, "exit")
    PROVE  Fit(s) /\ ~Past(s, "start", "ping")
           /\ ~Past(s, "kill.viewer", "kill.control") /\ ~Past(s, "kill.tunnel", "kill.control")
  BY DEF AllGood, Piece, Fit, Chained, Good

\* A list that fits and is in no phase yet.
Unbegun(s) ==
    /\ s \in Seq(Words) /\ Fit(s) /\ ~Past(s, "start", "ping")
    /\ ~Past(s, "kill.viewer", "kill.control") /\ ~Past(s, "kill.tunnel", "kill.control")

\* A command that ends with exit.
Program(s) == AllGood(s) /\ \E l : Piece(s, l) /\ l \notin Linkers
LEMMA ProgramReady ==
    ASSUME NEW s, Program(s) PROVE Unbegun(s \o <<"exit">>)
  <1>1. "exit" \in Words
    BY UsualNames DEF Words
  <1>2. <<"exit">> \in Seq(Neutral) /\ Piece(<<"exit">>, "exit")
    BY <1>1 DEF Neutral, Kills, Starts, Renames, Begun, Piece
  <1>3. AllGood(s \o <<"exit">>)
    BY <1>2, PlainGood DEF Program
  <1>4. Piece(s \o <<"exit">>, "exit")
    BY <1>2, PieceJoins DEF Program
  <1> QED BY <1>3, <1>4, GoodFits DEF Unbegun, AllGood

\* Lists of plain steps after which any step may come.
LEMMA PlainPiece ==
    ASSUME NEW s \in Seq(Neutral \ Linkers), s # <<>>
    PROVE  /\ s \in Seq(Neutral) /\ s[Len(s)] \notin Linkers /\ Piece(s, s[Len(s)])
  <1>1. s \in Seq(Neutral) /\ s \in Seq(Words \ Linkers)
    BY MoreSteps, WordSets
  <1>2. s[Len(s)] \notin Linkers
    OBVIOUS
  <1> QED BY <1>1, <1>2, PieceFree

\* The commands of the instances.
LEMMA StackPrograms ==
    /\ \A c \in DOMAIN StackCommands \ {"installtls", "bootstrap"} : Program(StackCommands[c])
    /\ Program(run_launch) /\ Program(app_id)
  <1> DEFINE W == Neutral \ Linkers
             launched == <<"app-id", "view", "waitviewer">>
             looked == <<"cache", "row">>
             sl == <<"socket", "launch">>
  <1>1. /\ "cache" \in W /\ "row" \in W /\ "socket" \in W /\ "launch" \in W /\ "readviewer" \in W
        /\ "waitviewer" \in W /\ "keep" \in W /\ "count" \in W /\ "uninstall" \in W /\ "build" \in W
        /\ "install-plain" \in W /\ "token" \in W
    BY UsualNames DEF Neutral, Words, Kills, Starts, Renames, Begun, Linkers
  <1>2. /\ <<"launch">> \in Seq(W) /\ <<"keep">> \in Seq(W) /\ <<"count">> \in Seq(W)
        /\ looked \in Seq(W) /\ sl \in Seq(W) /\ <<"uninstall">> \in Seq(W)
    BY <1>1
  <1>3. waiting \in Seq(W) /\ install_plain \in Seq(W) /\ app_id \in Seq(W)
    BY <1>1 DEF waiting, install_plain, app_id
  <1>4. /\ <<"launch">> # <<>> /\ <<"keep">> # <<>> /\ <<"count">> # <<>> /\ looked # <<>> /\ sl # <<>>
        /\ <<"uninstall">> # <<>> /\ waiting # <<>> /\ install_plain # <<>> /\ app_id # <<>>
    BY DEF waiting, install_plain, app_id
  <1> HIDE DEF W, launched, looked, sl
  <1>5. ASSUME NEW s \in Seq(W), s # <<>>
        PROVE  s \in Seq(Neutral) /\ \E l : Piece(s, l) /\ l \notin Linkers
    <2>1. s \in Seq(Neutral \ Linkers)
      BY <1>5, Zenon DEF W
    <2> QED BY <1>5, <2>1, PlainPiece, Zenon
  <1>6. ASSUME NEW s \in Seq(W), s # <<>> PROVE Program(s)
    <2>1. s \in Seq(Neutral) /\ \E l : Piece(s, l) /\ l \notin Linkers
      BY <1>5, <1>6, Zenon
    <2> QED BY <2>1, PlainGood, Zenon DEF Program
  <1> DEFINE Upward(s) == Up(s) /\ \E l : Piece(s, l) /\ l \notin Linkers
  <1>7. /\ "ping" \notin Linkers /\ "socket" \notin Linkers /\ "kill.control" \notin Linkers
        /\ "waitviewer" \notin Linkers /\ "kill.own" \notin Linkers /\ "ports.rename" \notin Linkers
    BY DEF Linkers
  <1>8. Upward(start_stack)
    BY <1>7, Parts
  <1>9. ASSUME NEW r, Upward(r), NEW s \in Seq(W), s # <<>> PROVE Upward(r \o s) /\ Upward(s \o r)
    BY <1>5, <1>9, PlainGood, PieceJoins
  <1>10. ASSUME NEW r, Upward(r) PROVE Upward(r \o viewer) /\ Upward(r \o launched)
    BY <1>7, <1>10, Parts, PieceJoins DEF launched
  <1>11. ASSUME NEW r, Upward(r) PROVE Program(r) /\ Program(r \o stop)
    BY <1>7, <1>11, Parts, PieceJoins, UpGood DEF Program
  <1>12. Upward(prepare_app)
    <2>1. Up(looked \o instance_context \o start_stack)
      BY Parts DEF looked
    <2>2. PICK l : Piece(looked, l) /\ l \notin Linkers
      BY <1>2, <1>4, <1>5
    <2>3. Piece(looked \o instance_context, "ports.rename")
      BY <2>2, Parts, PieceJoins
    <2>4. Piece((looked \o instance_context) \o start_stack, "ping")
      BY <1>7, <2>3, Parts, PieceJoins
    <2> QED BY <1>7, <2>1, <2>4 DEF prepare_app, looked
  <1> HIDE DEF Upward
  <1>13. Upward(start_stack \o viewer) /\ Upward(start_stack \o viewer \o <<"launch">>)
    BY <1>2, <1>4, <1>8, <1>9, <1>10, Zenon
  <1>14. Program(launch) /\ Upward(launch)
    BY <1>11, <1>13, Zenon DEF launch
  <1>15. Program(launch_id)
    BY <1>2, <1>4, <1>9, <1>11, <1>14, Zenon DEF launch_id, looked
  <1>16. Program(run_app)
    BY <1>2, <1>3, <1>4, <1>9, <1>11, <1>13, Zenon DEF run_app
  <1>17. Program(view)
    BY <1>2, <1>3, <1>4, <1>9, <1>11, <1>13, Zenon DEF view
  <1>18. Program(prepare_app) /\ Program(run_launch)
    BY <1>10, <1>11, <1>12, Zenon DEF run_launch, launched
  <1>19. Program(bench_data_plane)
    BY <1>2, <1>4, <1>8, <1>9, <1>11, Zenon DEF bench_data_plane
  <1>20. Program(stop)
    BY <1>7, Parts DEF Program
  <1>21. Program(status)
    <2>1. status \in Seq(Neutral)
      <3>1. "control" \in Neutral /\ "pid.control" \in Neutral /\ "ctl-status" \in Neutral /\ "kill.own" \in Neutral
        BY UsualNames DEF Neutral, Words, Kills, Starts, Renames, Begun
      <3> QED BY <3>1 DEF status
    <2> QED BY <1>7, <2>1, Parts, PlainGood DEF Program
  <1>22. Program(sl) /\ Program(install_plain) /\ Program(<<"uninstall">>) /\ Program(app_id)
    BY <1>2, <1>3, <1>4, <1>6, Zenon
  <1> HIDE DEF Program
  <1>23. DOMAIN StackCommands =
            {"run", "view", "launch", "prepare", "launchid", "app", "bench", "stop", "status",
             "bundle", "install", "installtls", "bootstrap", "uninstall"}
    BY DEF StackCommands
  <1>24. /\ StackCommands["run"] = run_app /\ StackCommands["view"] = view
         /\ StackCommands["launch"] = launch /\ StackCommands["prepare"] = prepare_app
         /\ StackCommands["launchid"] = launch_id /\ StackCommands["app"] = sl
         /\ StackCommands["bench"] = bench_data_plane /\ StackCommands["stop"] = stop
         /\ StackCommands["status"] = status /\ StackCommands["bundle"] = run_launch
         /\ StackCommands["install"] = install_plain /\ StackCommands["uninstall"] = <<"uninstall">>
    BY DEF StackCommands, sl
  <1> HIDE DEF StackCommands
  <1>25. ASSUME NEW c \in DOMAIN StackCommands \ {"installtls", "bootstrap"} PROVE Program(StackCommands[c])
    BY <1>14, <1>15, <1>16, <1>17, <1>18, <1>19, <1>20, <1>21, <1>22, <1>23, <1>24
  <1> QED BY <1>18, <1>22, <1>25

\* A list that starts and ends nothing.
LEMMA FreeProgram ==
    ASSUME NEW s \in Seq(Words \ (Kills \cup Starts \cup Linkers)), s # <<>>
    PROVE  Program(s)
  <1>1. \A T : Words \ (Kills \cup Starts \cup Linkers) \subseteq T => s \in Seq(T)
    BY MoreSteps
  <1>2. /\ Words \ (Kills \cup Starts \cup Linkers) \subseteq Words
        /\ Words \ (Kills \cup Starts \cup Linkers) \subseteq Words \ Linkers
        /\ Words \ (Kills \cup Starts \cup Linkers) \subseteq Words \ {"start", "ping"}
        /\ Words \ (Kills \cup Starts \cup Linkers) \subseteq Words \ {"ping", "ping"}
        /\ Words \ (Kills \cup Starts \cup Linkers) \subseteq Words \ {"kill.viewer", "kill.control"}
        /\ Words \ (Kills \cup Starts \cup Linkers) \subseteq Words \ {"kill.tunnel", "kill.control"}
    BY DEF Kills, Starts
  <1>3. /\ s \in Seq(Words) /\ s \in Seq(Words \ Linkers) /\ s \in Seq(Words \ {"start", "ping"})
        /\ s \in Seq(Words \ {"ping", "ping"})
        /\ s \in Seq(Words \ {"kill.viewer", "kill.control"})
        /\ s \in Seq(Words \ {"kill.tunnel", "kill.control"})
    BY <1>1, <1>2, Zenon
  <1>4. AllGood(s)
    BY <1>3, GoodAlone, Zenon DEF AllGood
  <1>5. s[Len(s)] \notin Linkers
    BY <1>3
  <1> QED BY <1>3, <1>4, <1>5, PieceFree, Zenon DEF Program

\* The commands on the certificates.
LEMMA KeyPrograms ==
    Program(bootstrap) /\ Program(install_with_tls)
  <1> DEFINE last == <<"scp", "install-tls", "token">>
  <1>1. /\ "ca" \in Neutral /\ "key" \in Neutral /\ "server" \in Neutral /\ "serverkey" \in Neutral
        /\ "client" \in Neutral /\ "clientkey" \in Neutral
        /\ "scp" \in Neutral /\ "install-tls" \in Neutral /\ "token" \in Neutral /\ "build" \in Neutral
    BY UsualNames DEF Neutral, Words, Marked, KeySteps, Kills, Starts, Renames, Begun
  <1>2. bootstrap \in Seq(Neutral) /\ <<"build">> \in Seq(Neutral) /\ last \in Seq(Neutral)
    BY <1>1 DEF bootstrap
  <1>3. "clientkey" \notin Linkers /\ "build" \notin Linkers /\ "token" \notin Linkers
    BY DEF Linkers
  <1>4. \A w \in Neutral : w \in Words
    BY WordSets
  <1>5. Piece(bootstrap, "clientkey")
    BY <1>1, <1>4 DEF Piece, bootstrap, Link
  <1>6. Piece(<<"build">>, "build") /\ Piece(last, "token")
    BY <1>1, <1>4 DEF Piece, Link
  <1> HIDE DEF last
  <1>7. Piece(<<"build">> \o bootstrap, "clientkey")
    BY <1>3, <1>5, <1>6, PieceJoins
  <1>8. Piece((<<"build">> \o bootstrap) \o last, "token")
    BY <1>3, <1>6, <1>7, PieceJoins
  <1>9. (<<"build">> \o bootstrap) \o last \in Seq(Neutral)
    BY <1>2
  <1>10. AllGood(bootstrap) /\ AllGood((<<"build">> \o bootstrap) \o last)
    BY <1>2, <1>9, PlainGood
  <1> QED BY <1>3, <1>5, <1>8, <1>10 DEF Program, install_with_tls, last

\* The commands of the library.
LEMMA LibraryPrograms ==
    \A c \in DOMAIN LibraryCommands : Program(LibraryCommands[c])
  <1> DEFINE W == Words \ (Kills \cup Starts \cup Linkers)
  <1>1. /\ "cache" \in W /\ "refresh" \in W /\ "try-cache" \in W /\ "resources" \in W /\ "swift" \in W
        /\ "swiftc" \in W /\ "sign" \in W /\ "open" \in W /\ "icons" \in W /\ "build" \in W
        /\ "try-icons" \in W /\ "rows" \in W /\ "bundle" \in W /\ "row" \in W /\ "unbundle" \in W
    BY UsualNames DEF Words, Marked, SwiftSteps, Kills, Starts, Linkers
  <1> HIDE DEF W
  <1>2. build_main_library_app \in Seq(W)
    BY <1>1 DEF build_main_library_app
  <1>3. library_ui \in Seq(W) /\ library_ui # <<>>
    BY <1>1, <1>2 DEF library_ui
  <1>4. install_apps \in Seq(W) /\ install_apps # <<>>
    BY <1>1, <1>2 DEF install_apps
  <1>5. /\ <<"cache">> \in Seq(W) /\ <<"refresh">> \in Seq(W) /\ <<"cache", "icons">> \in Seq(W)
        /\ <<"cache", "row", "bundle">> \in Seq(W) /\ <<"cache", "rows", "unbundle">> \in Seq(W)
        /\ <<"cache", "row", "unbundle">> \in Seq(W)
    BY <1>1
  <1>a. /\ <<"cache">> # <<>> /\ <<"refresh">> # <<>> /\ <<"cache", "icons">> # <<>>
        /\ <<"cache", "row", "bundle">> # <<>> /\ <<"cache", "rows", "unbundle">> # <<>>
        /\ <<"cache", "row", "unbundle">> # <<>>
    OBVIOUS
  <1>6. ASSUME NEW c \in DOMAIN LibraryCommands
        PROVE  LibraryCommands[c] \in Seq(W) /\ LibraryCommands[c] # <<>>
    <2>1. /\ DOMAIN LibraryCommands = {"library", "refresh", "ui", "icons", "apps", "launcher",
                                       "removeapps", "removelauncher"}
          /\ LibraryCommands["library"] = <<"cache">> /\ LibraryCommands["refresh"] = <<"refresh">>
          /\ LibraryCommands["ui"] = library_ui /\ LibraryCommands["icons"] = <<"cache", "icons">>
          /\ LibraryCommands["apps"] = install_apps
          /\ LibraryCommands["launcher"] = <<"cache", "row", "bundle">>
          /\ LibraryCommands["removeapps"] = <<"cache", "rows", "unbundle">>
          /\ LibraryCommands["removelauncher"] = <<"cache", "row", "unbundle">>
      BY DEF LibraryCommands
    <2> HIDE DEF LibraryCommands
    <2> QED BY <1>3, <1>4, <1>5, <1>a, <1>6, <2>1, Zenon
  <1> QED BY <1>6, FreeProgram, Zenon DEF W

\* The commands on machines have only steps on the stores.
LEMMA HostPrograms ==
    ASSUME NEW c \in HostCommands, NEW m
    PROVE  HostSteps(c, m) \in Seq(StoreSteps) /\ Program(HostSteps(c, m))
  <1> DEFINE S == StoreSteps
  <1>1. /\ "find" \in S /\ "keychain.set" \in S /\ "keychain.delete" \in S /\ "forget" \in S
        /\ "load" \in S /\ "load-overrides" \in S /\ "save" \in S /\ "save-overrides" \in S
        /\ "start-vm" \in S /\ "stop-vm" \in S /\ "delete-vm" \in S
        /\ "put-plain" \in S /\ "put-password" \in S /\ "drop" \in S /\ "mark" \in S /\ "unmark" \in S
        /\ "set-key" \in S /\ "unset-key" \in S
    BY DEF StoreSteps, Edits
  <1> HIDE DEF S
  <1>2. ASSUME NEW e \in S
        PROVE  store(e) \in Seq(S) /\ overrides(e) \in Seq(S) /\ store(e) # <<>> /\ overrides(e) # <<>>
    BY <1>1, <1>2 DEF store, overrides
  <1>3. add_cmd \in Seq(S) /\ add_cmd # <<>> /\ add_with_password \in Seq(S) /\ add_with_password # <<>>
    <2>1. store("put-plain") \in Seq(S) /\ store("put-password") \in Seq(S)
      BY <1>1, <1>2
    <2> QED BY <1>1, <2>1 DEF add_cmd, add_with_password
  <1>4. remove_name \in Seq(S) /\ remove_name # <<>>
    <2>1. store("drop") \in Seq(S)
      BY <1>1, <1>2
    <2> QED BY <1>1, <2>1 DEF remove_name
  <1>5. set \in Seq(S) /\ set # <<>> /\ clear \in Seq(S) /\ clear # <<>>
    <2>1. store("mark") \in Seq(S) /\ store("unmark") \in Seq(S)
      BY <1>1, <1>2
    <2> QED BY <1>1, <2>1 DEF set, clear
  <1>6. set_cmd \in Seq(S) /\ set_cmd # <<>> /\ unset_cmd \in Seq(S) /\ unset_cmd # <<>>
    <2>1. overrides("set-key") \in Seq(S) /\ overrides("unset-key") \in Seq(S)
      BY <1>1, <1>2
    <2> QED BY <1>1, <2>1 DEF set_cmd, unset_cmd
  <1>7. delete_cmd(m) \in Seq(S) /\ delete_cmd(m) # <<>>
    <2>1. store("drop") \in Seq(S)
      BY <1>1, <1>2
    <2>2. <<"delete-vm">> \o store("drop") \in Seq(S)
      BY <1>1, <2>1
    <2>3. PICK r \in Seq(S) : delete_cmd(m) = <<"find">> \o r
      BY <1>4, <2>2 DEF delete_cmd
    <2> QED BY <1>1, <2>3
  <1>8. /\ <<"find", "start-vm">> \in Seq(S) /\ <<"find", "stop-vm">> \in Seq(S) /\ <<"find">> \in Seq(S)
    BY <1>1
  <1>9. HostSteps(c, m) \in Seq(S) /\ HostSteps(c, m) # <<>>
    BY <1>3, <1>4, <1>5, <1>6, <1>7, <1>8 DEF HostSteps, HostCommands
  <1>10. StoreSteps \subseteq Words \ (Kills \cup Starts \cup Linkers)
    <2>1. StoreSteps \cap (Kills \cup Starts \cup Linkers) = {}
      BY DEF StoreSteps, Edits, Kills, Starts, Linkers
    <2> QED BY <2>1 DEF Words, Marked
  <1>11. HostSteps(c, m) \in Seq(Words \ (Kills \cup Starts \cup Linkers))
    BY <1>9, <1>10, MoreSteps DEF S
  <1> QED BY <1>9, <1>11, FreeProgram, Zenon DEF S

-----------------------------------------------------------------------------
(* A step keeps the order of what is left.                                 *)

\* How a step changes the list of its thread.
NextBundleSteps == instance_context \o <<"bundle.app", "bundle.context", "bundle">>
Advances(s, r) ==
    /\ s # <<>>
    /\ \/ r = Tail(s) \/ r = s \/ r = <<"exit">> \/ r = <<>>
       \/ Head(s) \in {"control", "ca"} /\ r = SubSeq(s, 3, Len(s))
       \/ Head(s) = "ports" /\ r = SubSeq(s, 4, Len(s))
       \/ Head(s) = "bundle" /\ r = NextBundleSteps \o Tail(s)

\* A phase begins with the step that opens it.
Opens(s, r, a, b) == Past(r, a, b) => Past(s, a, b) \/ (s[1] = a /\ r = Tail(s))

\* The list of a launcher's next bundle.
LEMMA BundleSteps ==
    /\ NextBundleSteps \in Seq(Words) /\ Piece(NextBundleSteps, "bundle")
    /\ NextBundleSteps \in Seq(Words \ {"ping", "ping"})
    /\ \A a \in Kills \cup Starts : ~Has(NextBundleSteps, a)
  <1>1. /\ "ports" \in Words \ (Kills \cup Starts) /\ "ports.write" \in Words \ (Kills \cup Starts)
        /\ "ports.rename" \in Words \ (Kills \cup Starts)
        /\ "bundle.app" \in Words \ (Kills \cup Starts) /\ "bundle.context" \in Words \ (Kills \cup Starts)
        /\ "bundle" \in Words \ (Kills \cup Starts)
    BY UsualNames DEF Words, Kills, Starts
  <1> DEFINE x == <<"ports", "ports.write", "ports.rename", "bundle.app", "bundle.context", "bundle">>
  <1>2. NextBundleSteps = x
    <2>1. /\ NextBundleSteps \in Seq(Words) /\ x \in Seq(Words) /\ Len(NextBundleSteps) = 6 /\ Len(x) = 6
          /\ \A i \in 1 .. 6 : NextBundleSteps[i] = x[i]
      BY <1>1 DEF NextBundleSteps, instance_context
    <2> HIDE DEF x
    <2> QED BY <2>1, SameList
  <1>3. x \in Seq(Words) /\ x \in Seq(Words \ (Kills \cup Starts)) /\ Piece(x, "bundle")
    BY <1>1 DEF Piece, Link
  <1>p. x \in Seq(Words \ {"ping", "ping"})
    BY <1>1 DEF Starts
  <1> HIDE DEF x
  <1>4. \A a \in Kills \cup Starts : ~Has(x, a)
    BY <1>3 DEF Has
  <1> QED BY <1>2, <1>3, <1>4, <1>p

\* The lists that are left when a command ends.
LEMMA Ends ==
    /\ <<>> \in Seq(Words) /\ <<"exit">> \in Seq(Words) /\ Fit(<<>>) /\ Fit(<<"exit">>)
    /\ \A b \in Kills \cup Starts : ~Has(<<>>, b) /\ ~Has(<<"exit">>, b)
  <1>1. <<>> \in Seq(Words) /\ <<"exit">> \in Seq(Words)
    BY UsualNames DEF Words
  <1>2. \A b \in Kills \cup Starts : ~Has(<<>>, b) /\ ~Has(<<"exit">>, b)
    BY DEF Has, Kills, Starts
  <1>3. Chained(<<>>) /\ Chained(<<"exit">>)
    BY DEF Chained
  <1>4. ASSUME NEW a \in Kills \cup Starts, NEW b \in Kills \cup Starts, NEW X
        PROVE  InOrder(<<>>, a, b, X) /\ InOrder(<<"exit">>, a, b, X)
    BY <1>2 DEF InOrder, Past
  <1>5. /\ "start" \in Starts /\ "ping" \in Starts /\ "kill.viewer" \in Kills
        /\ "kill.tunnel" \in Kills /\ "kill.control" \in Kills
    BY DEF Kills, Starts
  <1> QED BY <1>1, <1>2, <1>3, <1>4, <1>5, Zenon DEF Fit

\* The three orders, of a rest.
LEMMA RestFits ==
    ASSUME NEW s \in Seq(Words), s # <<>>, Fit(s), NEW n \in Nat, NEW r, Rest(s, n, r),
           \A k \in 2 .. n : s[k] \notin Kills \cup Starts, n > 1 => s[1] \notin Kills \cup Starts
    PROVE  /\ Fit(r)
           /\ \A a \in Kills \cup Starts : n > 1 => s[1] # a
           /\ Past(r, "start", "ping") => Past(s, "start", "ping") \/ (n # 0 /\ s[1] = "start")
           /\ Past(r, "kill.viewer", "kill.control") =>
                 Past(s, "kill.viewer", "kill.control") \/ (n # 0 /\ s[1] = "kill.viewer")
           /\ Past(r, "kill.tunnel", "kill.control") =>
                 Past(s, "kill.tunnel", "kill.control") \/ (n # 0 /\ s[1] = "kill.tunnel")
  <1>1. \A k \in 2 .. n : s[k] # "start" /\ s[k] # "ping" /\ s[k] # "kill.viewer" /\ s[k] # "kill.tunnel"
    BY DEF Kills, Starts
  <1>2. Chained(r) /\ InOrder(r, "ping", "ping", {"start"})
    BY <1>1, RestChained, RestInOrder DEF Fit
  <1>3. /\ InOrder(r, "start", "ping", Renames)
        /\ Past(r, "start", "ping") => Past(s, "start", "ping") \/ (n # 0 /\ s[1] = "start")
    BY <1>1, RestInOrder DEF Fit
  <1>4. /\ InOrder(r, "kill.viewer", "kill.control", Begun)
        /\ Past(r, "kill.viewer", "kill.control") =>
                 Past(s, "kill.viewer", "kill.control") \/ (n # 0 /\ s[1] = "kill.viewer")
    BY <1>1, RestInOrder DEF Fit
  <1>5. /\ InOrder(r, "kill.tunnel", "kill.control", Begun)
        /\ Past(r, "kill.tunnel", "kill.control") =>
                 Past(s, "kill.tunnel", "kill.control") \/ (n # 0 /\ s[1] = "kill.tunnel")
    BY <1>1, RestInOrder DEF Fit
  <1> QED BY <1>2, <1>3, <1>4, <1>5 DEF Fit

LEMMA AdvancesFit ==
    ASSUME NEW s \in Seq(Words), Fit(s), NEW r, Advances(s, r)
    PROVE  /\ Fit(r) /\ r \in Seq(Words)
           /\ Opens(s, r, "start", "ping")
           /\ Opens(s, r, "kill.viewer", "kill.control")
           /\ Opens(s, r, "kill.tunnel", "kill.control")
  <1>0. s # <<>> /\ Len(s) \in Nat \ {0} /\ Head(s) = s[1]
    BY DEF Advances
  <1>k. /\ "start" \in Kills \cup Starts /\ "ping" \in Kills \cup Starts
        /\ "kill.viewer" \in Kills \cup Starts
        /\ "kill.tunnel" \in Kills \cup Starts /\ "kill.control" \in Kills \cup Starts
    BY DEF Kills, Starts
  <1>1. CASE r = <<"exit">> \/ r = <<>>
    BY <1>1, <1>k, Ends DEF Opens, Past
  <1>2. CASE r = s
    BY <1>2 DEF Opens
  <1>3. CASE r = Tail(s)
    <2>1. Rest(s, 1, r) /\ 1 \in Nat /\ 1 # 0 /\ (\A k \in 2 .. 1 : s[k] \notin Kills \cup Starts) /\ ~(1 > 1)
      BY <1>0, <1>3, RestOf
    <2> QED BY <1>0, <1>3, <2>1, RestFits DEF Opens, Rest
  <1>4. CASE Head(s) \in {"control", "ca"} /\ r = SubSeq(s, 3, Len(s))
    <2>1. s[Len(s)] = "exit" /\ Len(s) >= 2
      BY <1>0, <1>4 DEF Fit, Chained
    <2>2. Link(s[1], s[2])
      BY <1>0, <2>1 DEF Fit, Chained
    <2>3. s[2] \in {"pid.control", "key"}
      BY <1>0, <1>4, <2>2 DEF Link
    <2>4. s[1] \notin Kills \cup Starts /\ s[2] \notin Kills \cup Starts
      BY <1>0, <1>4, <2>3 DEF Kills, Starts
    <2>5. Rest(s, 2, r) /\ 2 \in Nat /\ \A k \in 2 .. 2 : s[k] \notin Kills \cup Starts
      BY <1>0, <1>4, <2>1, <2>4, RestOf
    <2> QED BY <1>0, <1>k, <2>4, <2>5, RestFits DEF Opens, Rest
  <1>5. CASE Head(s) = "ports" /\ r = SubSeq(s, 4, Len(s))
    <2>1. s[Len(s)] = "exit" /\ Len(s) >= 2
      BY <1>0, <1>5 DEF Fit, Chained
    <2>2. Link(s[1], s[2])
      BY <1>0, <2>1 DEF Fit, Chained
    <2>3. s[2] = "ports.write"
      BY <1>0, <1>5, <2>2 DEF Link
    <2>4. Len(s) >= 3
      BY <1>0, <2>1, <2>3
    <2>5. Link(s[2], s[3])
      <3>1. 2 \in 1 .. Len(s) - 1 /\ 2 + 1 = 3
        BY <1>0, <2>4
      <3> QED BY <3>1 DEF Fit, Chained
    <2>6. s[3] = "ports.rename"
      BY <2>3, <2>5 DEF Link
    <2>7. s[1] \notin Kills \cup Starts /\ s[2] \notin Kills \cup Starts /\ s[3] \notin Kills \cup Starts
      BY <1>0, <1>5, <2>3, <2>6 DEF Kills, Starts
    <2>8. Rest(s, 3, r) /\ 3 \in Nat /\ \A k \in 2 .. 3 : s[k] \notin Kills \cup Starts
      BY <1>0, <1>5, <2>4, <2>7, RestOf
    <2> QED BY <1>0, <1>k, <2>7, <2>8, RestFits DEF Opens, Rest
  <1>6. CASE Head(s) = "bundle" /\ r = NextBundleSteps \o Tail(s)
    <2>1. "bundle" \in Renames /\ "bundle" \in Begun
          /\ "start" \notin Renames /\ "kill.viewer" \notin Begun /\ "kill.tunnel" \notin Begun
      BY DEF Renames, Begun
    <2>2. /\ NextBundleSteps \in Seq(Words) /\ Piece(NextBundleSteps, "bundle")
          /\ ~Has(NextBundleSteps, "start") /\ ~Has(NextBundleSteps, "ping")
          /\ ~Has(NextBundleSteps, "kill.viewer") /\ ~Has(NextBundleSteps, "kill.tunnel")
          /\ ~Has(NextBundleSteps, "kill.control")
      BY <1>k, BundleSteps, Zenon
    <2>3. InOrder(r, "start", "ping", Renames) /\ ~Past(r, "start", "ping")
      BY <1>0, <1>6, <2>1, <2>2, JumpInOrder DEF Fit
    <2>4. InOrder(r, "kill.viewer", "kill.control", Begun) /\ ~Past(r, "kill.viewer", "kill.control")
      BY <1>0, <1>6, <2>1, <2>2, JumpInOrder DEF Fit
    <2>5. InOrder(r, "kill.tunnel", "kill.control", Begun) /\ ~Past(r, "kill.tunnel", "kill.control")
      BY <1>0, <1>6, <2>1, <2>2, JumpInOrder DEF Fit
    <2>6. Piece(Tail(s), "exit")
      <3>1. Rest(s, 1, Tail(s)) /\ 1 \in Nat
        BY <1>0, RestOf
      <3>2. Chained(Tail(s))
        BY <3>1, RestChained DEF Fit
      <3>3. Len(s) >= 2
        BY <1>0, <1>6 DEF Fit, Chained
      <3>4. Tail(s) \in Seq(Words) /\ Len(Tail(s)) = Len(s) - 1
        BY <1>0
      <3>5. Tail(s) # <<>>
        <4>0. \A n \in Nat : n >= 2 => n - 1 # 0
          OBVIOUS
        <4>1. Len(s) \in Nat
          BY <1>0
        <4>2. Len(s) - 1 # 0
          BY <3>3, <4>0, <4>1, Zenon
        <4>3. Len(<<>>) = 0
          OBVIOUS
        <4> QED BY <3>4, <4>2, <4>3, Zenon
      <3> QED BY <3>2, <3>4, <3>5 DEF Chained, Piece
    <2>7. "bundle" \notin Linkers
      BY DEF Linkers
    <2>8. Piece(r, "exit")
      BY <1>6, <2>2, <2>6, <2>7, PieceJoins
    <2>9. InOrder(r, "ping", "ping", {"start"})
      <3>1. /\ NextBundleSteps \in Seq(Words \ {"ping", "ping"})
        BY BundleSteps
      <3>2. Rest(s, 1, Tail(s)) /\ 1 \in Nat /\ (\A k \in 2 .. 1 : s[k] # "ping") /\ Tail(s) \in Seq(Words)
        BY <1>0, RestOf
      <3>3. InOrder(Tail(s), "ping", "ping", {"start"})
        BY <3>2, RestInOrder DEF Fit
      <3>4. Good(Tail(s), "ping", "ping", {"start"})
        BY <3>3 DEF Good, Past
      <3> QED BY <1>6, <3>1, <3>2, <3>4, GoodBehind DEF Good
    <2> QED BY <2>3, <2>4, <2>5, <2>8, <2>9 DEF Fit, Chained, Piece, Opens
  <1> QED BY <1>1, <1>2, <1>3, <1>4, <1>5, <1>6 DEF Advances

\* The steps a list is of.
LEMMA AdvancesIn ==
    ASSUME NEW S, "exit" \in S, "bundle" \notin S, NEW s \in Seq(S), NEW r, Advances(s, r)
    PROVE  r \in Seq(S)
  <1>1. s # <<>> /\ Head(s) \in S
    BY Rests DEF Advances
  <1>2. <<>> \in Seq(S) /\ <<"exit">> \in Seq(S) /\ Tail(s) \in Seq(S)
        /\ SubSeq(s, 3, Len(s)) \in Seq(S) /\ SubSeq(s, 4, Len(s)) \in Seq(S)
    BY <1>1, Rests
  <1> QED BY <1>1, <1>2, Zenon DEF Advances

-----------------------------------------------------------------------------
(* What the steps change.                                                  *)

\* The other threads.
Elsewhere(t) == \A u \in Threads \ {t} : todo'[u] = todo[u] /\ loc'[u] = loc[u]
\* A step that leaves the instance, the port and what is listed alone, and
\* servers, launchers and the cache.
Place(t) == loc'[t].inst = loc[t].inst /\ loc'[t].port = loc[t].port
Still(t) == Place(t) /\ loc'[t].rows = loc[t].rows
Plodding(t) == /\ Advances(todo[t], todo'[t]) /\ Elsewhere(t) /\ Still(t)
               /\ UNCHANGED <<server, ended, cache, bundle>>
               /\ Head(todo[t]) # "start"

LEMMA Advancing ==
    ASSUME Formed, NEW t \in Threads, todo[t] # <<>>,
           \/ Go(t) \/ Bail(t) \/ UNCHANGED todo \/ (Head(todo[t]) \in {"control", "ca"} /\ Skip(t, 2))
           \/ (Head(todo[t]) = "ports" /\ Skip(t, 3))
           \/ todo' = [todo EXCEPT ![t] = <<>>]
           \/ Head(todo[t]) = "bundle" /\ Jump(t, NextBundleSteps)
    PROVE  Advances(todo[t], todo'[t]) /\ \A u \in Threads \ {t} : todo'[u] = todo[u]
  <1>1. todo \in [Threads -> Seq(Words)]
    BY DEF Formed
  <1>2. CASE Go(t) \/ Bail(t)
    BY <1>1, <1>2 DEF Go, Bail, Advances
  <1>3. CASE UNCHANGED todo
    BY <1>3 DEF Advances
  <1>4. CASE todo' = [todo EXCEPT ![t] = <<>>]
    BY <1>1, <1>4 DEF Advances
  <1>5. CASE Head(todo[t]) \in {"control", "ca"} /\ Skip(t, 2)
    BY <1>1, <1>5 DEF Skip, Advances
  <1>6. CASE Head(todo[t]) = "ports" /\ Skip(t, 3)
    BY <1>1, <1>6 DEF Skip, Advances
  <1>7. CASE Head(todo[t]) = "bundle" /\ Jump(t, NextBundleSteps)
    BY <1>1, <1>7 DEF Jump, Advances
  <1> QED BY <1>2, <1>3, <1>4, <1>5, <1>6, <1>7

\* A step that sets at most a local variable that is not of Still.
LEMMA PlodsOn ==
    ASSUME Formed, NEW t \in Threads, todo[t] # <<>>, Head(todo[t]) # "start",
           Go(t) \/ Bail(t) \/ (Head(todo[t]) \in {"control", "ca"} /\ Skip(t, 2)),
           \/ UNCHANGED loc
           \/ \E f \in {"pid", "ca", "pair", "flag"} : \E v : loc' = [loc EXCEPT ![t] = [loc[t] EXCEPT ![f] = v]],
           UNCHANGED <<server, ended, cache, bundle>>
    PROVE  Plodding(t)
  <1>1. Advances(todo[t], todo'[t]) /\ \A u \in Threads \ {t} : todo'[u] = todo[u]
    BY Advancing
  <1>2. Still(t) /\ \A u \in Threads \ {t} : loc'[u] = loc[u]
    <2>1. CASE UNCHANGED loc
      BY <2>1 DEF Still, Place
    <2>2. ASSUME NEW f \in {"pid", "ca", "pair", "flag"}, NEW v, loc' = [loc EXCEPT ![t] = [loc[t] EXCEPT ![f] = v]]
          PROVE  Still(t) /\ \A u \in Threads \ {t} : loc'[u] = loc[u]
      <3>1. /\ DOMAIN loc = Threads /\ DOMAIN loc[t] = Fields
            /\ "inst" \in Fields /\ "port" \in Fields /\ "rows" \in Fields
        BY DEF Formed, Fields
      <3> QED BY <2>2, <3>1 DEF Still, Place
    <2> QED BY <2>1, <2>2
  <1> QED BY <1>1, <1>2 DEF Plodding, Elsewhere

\* The steps that do more.
Notable(t) ==
    \/ Exit(t) /\ UNCHANGED <<stackVars, libraryVars>>
    \/ (ReadPorts(t) \/ SpawnAppId(t) \/ start_server(t) \/ StopInstance(t)) /\ UNCHANGED libraryVars
    \/ NeedCache(t) \/ Refresh(t) \/ TryCache(t) \/ find_app_record(t) \/ selected(t)
    \/ NextBundle(t) \/ WriteApp(t) \/ WriteContext(t) \/ remove_launcher_app(t)

LEMMA StepSorts ==
    ASSUME Formed, NEW t \in Threads, Step(t)
    PROVE  Plodding(t) \/ Notable(t)
  <1> DEFINE P == /\ todo[t] # <<>> /\ Head(todo[t]) # "start"
                  /\ Go(t) \/ Bail(t) \/ (Head(todo[t]) \in {"control", "ca"} /\ Skip(t, 2))
                  /\ \/ UNCHANGED loc
                     \/ \E f \in {"pid", "ca", "pair", "flag"} : \E v :
                           loc' = [loc EXCEPT ![t] = [loc[t] EXCEPT ![f] = v]]
                  /\ UNCHANGED <<server, ended, cache, bundle>>
             Q == P \/ Notable(t)
  <1>0. ASSUME P PROVE Plodding(t)
    BY <1>0, PlodsOn
  <1>1. ASSUME Exit(t), UNCHANGED <<stackVars, hostVars, libraryVars, mix>> PROVE Notable(t)
    BY <1>1 DEF Notable
  <1>2. ASSUME StackStep(t), UNCHANGED <<hostVars, libraryVars, mix>> PROVE Q
    <2>0. UNCHANGED <<cache, bundle>> /\ UNCHANGED libraryVars
      BY <1>2 DEF libraryVars
    <2>1. CASE ReadPorts(t) \/ SpawnAppId(t) \/ start_server(t) \/ StopInstance(t)
      BY <2>0, <2>1 DEF Notable
    <2>2. CASE WritePorts(t) \/ RenamePorts(t)
      BY <2>0, <2>2 DEF WritePorts, RenamePorts, Write, Rename, At, stackVars, ownVars
    <2>3. CASE start_control_tunnel(t)
      BY <2>0, <2>3 DEF start_control_tunnel, Spawn, At
    <2>4. CASE start_tunnel(t) \/ start_viewer_bg(t) \/ OpenView(t)
      BY <2>0, <2>4 DEF start_tunnel, start_viewer_bg, OpenView, Spawn, At
    <2>5. CASE \E kind \in Kinds : WritePid(t, kind) \/ KillPid(t, kind)
      BY <2>0, <2>5 DEF WritePid, KillPid, At, Kinds, PidSteps, KillSteps
    <2>6. CASE KillOwnTunnel(t) \/ ReadViewer(t) \/ wait_viewer(t)
      BY <2>0, <2>6 DEF KillOwnTunnel, ReadViewer, wait_viewer, At, stackVars, ownVars
    <2>7. CASE wait_ping(t) \/ ping(t) \/ CtlStatus(t) \/ Tool(t)
      BY <2>0, <2>7 DEF wait_ping, ping, CtlStatus, Tool, Run, At, stackVars, ownVars
    <2>8. CASE wait_socket(t) \/ launch_app(t)
      BY <2>0, <2>8 DEF wait_socket, launch_app, Call, Run, At
    <2>9. CASE ControlStep(t) /\ UNCHANGED ownVars
      <3>1. UNCHANGED <<server, ended>>
        BY <2>9 DEF ownVars
      <3>2. CASE tls_bootstrap(t)
        BY <2>0, <3>1, <3>2 DEF tls_bootstrap, Mint, WritePem, At
      <3>3. CASE \E leaf \in {"server", "client"} : WriteCert(t, leaf)
        BY <2>0, <3>1, <3>3 DEF WriteCert, WritePem, At
      <3>6. CASE \E field \in {"key", "serverkey", "clientkey"} : write_secret(t, field)
        BY <2>0, <3>1, <3>6 DEF write_secret, WritePem, At
      <3>4. CASE CopyTls(t) \/ controld_install(t)
        BY <2>0, <3>1, <3>4 DEF CopyTls, controld_install, At
      <3>5. CASE fetch_control_token(t) \/ controld_uninstall(t)
        BY <2>0, <3>1, <3>5 DEF fetch_control_token, controld_uninstall, Run, At
      <3> QED BY <2>9, <3>2, <3>3, <3>4, <3>5, <3>6 DEF ControlStep
    <2> QED BY <1>2, <2>1, <2>2, <2>3, <2>4, <2>5, <2>6, <2>7, <2>8, <2>9 DEF StackStep
  <1>3. ASSUME HostStep(t), UNCHANGED <<libraryVars, mix>> PROVE P
    <2>0. UNCHANGED <<cache, bundle>>
      BY <1>3 DEF libraryVars
    <2>s. ASSUME UNCHANGED same PROVE UNCHANGED <<loc, server, ended>>
      BY <2>s DEF same, stackVars, ownVars
    <2>1. CASE find_one(t) \/ set_password(t) \/ delete_password(t) \/ Forget(t)
      BY <2>0, <2>s, <2>1 DEF find_one, set_password, delete_password, Forget, At
    <2>2. CASE LoadHosts(t) \/ LoadOverrides(t)
      BY <2>0, <2>s, <2>2 DEF LoadHosts, LoadOverrides, Run, At
    <2>3. CASE \E step \in Edits : Edit(t, step)
      BY <2>0, <2>s, <2>3 DEF Edit, Edits, Write, At
    <2>4. CASE save(t) \/ save_overrides(t)
      BY <2>0, <2>s, <2>4 DEF save, save_overrides, Rename, At
    <2>5. CASE control_cmd(t) \/ delete_vm(t)
      BY <2>0, <2>s, <2>5 DEF control_cmd, delete_vm, At
    <2> QED BY <1>3, <2>1, <2>2, <2>3, <2>4, <2>5 DEF HostStep
  <1>4. ASSUME LibraryStep(t), UNCHANGED mix PROVE Q
    <2>0. ASSUME UNCHANGED keep PROVE UNCHANGED <<server, ended>>
      BY <2>0 DEF keep, stackVars, ownVars
    <2>1. CASE \/ NeedCache(t) \/ Refresh(t) \/ TryCache(t) \/ find_app_record(t) \/ selected(t)
               \/ NextBundle(t) \/ WriteApp(t) \/ WriteContext(t) \/ remove_launcher_app(t)
      BY <2>1 DEF Notable
    <2>2. CASE fetch_guest_icons(t) \/ TryIcons(t)
      BY <2>0, <2>2 DEF fetch_guest_icons, TryIcons, At
    <2>3. CASE write_if_changed(t)
      BY <2>0, <2>3 DEF write_if_changed, At
    <2>4. CASE swiftc(t)
      BY <2>0, <2>4 DEF swiftc, Compile, At
    <2>5. CASE Finish(t) \/ Open(t)
      BY <2>0, <2>5 DEF Finish, Open, Run, At, libraryVars
    <2> QED BY <1>4, <2>1, <2>2, <2>3, <2>4, <2>5 DEF LibraryStep
  <1> QED BY <1>0, <1>1, <1>2, <1>3, <1>4 DEF Step

-----------------------------------------------------------------------------
(* Situated is an invariant.                                               *)

\* A thread that is not on a machine is about an instance.
LEMMA AtInstance ==
    ASSUME Formed, Situated, NEW t \in Threads, todo[t] # <<>>, Head(todo[t]) \notin StoreSteps \cup {"exit"}
    PROVE  I(t) \in Insts
  <1>1. todo[t] \in Seq(StoreSteps \cup {"exit"}) => Head(todo[t]) \in StoreSteps \cup {"exit"}
    BY Rests
  <1> QED BY <1>1 DEF Situated

LEMMA SituatedMove ==
    ASSUME Formed, Situated, NEW t \in Threads, Advances(todo[t], todo'[t]), Elsewhere(t),
           loc'[t].rows \subseteq Apps, loc'[t].inst = loc[t].inst \/ loc'[t].inst \in Insts, Shelves'
    PROVE  Situated'
  <1>1. todo[t] \in Seq(Words) /\ Fit(todo[t])
    BY DEF Formed, Situated
  <1>2. Fit(todo'[t])
    BY <1>1, AdvancesFit
  <1>3. \A u \in Threads : Fit(todo'[u]) /\ loc'[u].rows \subseteq Apps
    BY <1>2 DEF Elsewhere, Situated
  <1>4. ASSUME NEW u \in Threads PROVE loc'[u].inst \in Insts \/ todo'[u] \in Seq(StoreSteps \cup {"exit"})
    <2>1. CASE u # t
      BY <2>1 DEF Elsewhere, Situated, I
    <2>2. CASE u = t
      <3>1. "bundle" \notin StoreSteps \cup {"exit"} /\ "exit" \in StoreSteps \cup {"exit"}
        BY DEF StoreSteps, Edits
      <3>2. todo[t] \in Seq(StoreSteps \cup {"exit"}) => todo'[t] \in Seq(StoreSteps \cup {"exit"})
        BY <3>1, AdvancesIn
      <3> QED BY <2>2, <3>2 DEF Situated, I
    <2> QED BY <2>1, <2>2
  <1>5. ASSUME NEW u \in Sides PROVE todo'[u] \in Seq(AsideSteps)
    <2>0. u \in Threads
      BY DEF Sides, Threads
    <2>1. CASE u # t
      BY <2>0, <2>1 DEF Elsewhere, Situated
    <2>2. CASE u = t
      <3>1. "bundle" \notin AsideSteps /\ "exit" \in AsideSteps
        BY DEF AsideSteps
      <3> QED BY <2>2, <3>1, AdvancesIn DEF Situated
    <2> QED BY <2>1, <2>2
  <1> QED BY <1>3, <1>4, <1>5 DEF Situated, I

\* What is listed.
LEMMA ListedApps ==
    ASSUME Shelves PROVE Listed \subseteq Apps
  BY LibraryAssumption DEF Shelves, Listed

\* The second thread of a launcher.
LEMMA SpawnFacts ==
    ASSUME Formed, Situated, NEW t \in Threads, SpawnAppId(t)
    PROVE  /\ todo[t] # <<>> /\ Head(todo[t]) = "app-id" /\ I(t) \in Insts
           /\ Side(t) \in Sides /\ Side(t) \in Threads /\ Side(t) # t
           /\ todo'[t] = Tail(todo[t]) /\ todo'[Side(t)] = app_id \o <<"exit">>
           /\ loc'[t] = loc[t] /\ loc'[Side(t)] = loc[t]
           /\ \A u \in Threads : u # t /\ u # Side(t) => todo'[u] = todo[u] /\ loc'[u] = loc[u]
  <1>1. todo[t] # <<>> /\ Head(todo[t]) = "app-id"
    BY DEF SpawnAppId, At
  <1>2. I(t) \in Insts
    <2>1. "app-id" \notin StoreSteps \cup {"exit"}
      BY DEF StoreSteps, Edits
    <2> QED BY <1>1, <2>1, AtInstance
  <1>3. Side(t) \in Sides /\ Side(t) \in Threads
    BY DEF Side, Sides, Threads
  <1>4. Side(t) # t
    <2>1. "app-id" \notin AsideSteps
      BY DEF AsideSteps
    <2>2. \A u \in Sides : todo[u] # <<>> => Head(todo[u]) \in AsideSteps
      BY Rests DEF Situated
    <2> QED BY <1>1, <1>3, <2>1, <2>2
  <1>5. /\ todo' = [todo EXCEPT ![t] = Tail(@), ![Side(t)] = app_id \o <<"exit">>]
        /\ loc' = [loc EXCEPT ![Side(t)] = loc[t]]
        /\ DOMAIN todo = Threads /\ DOMAIN loc = Threads
    BY DEF SpawnAppId, Formed
  <1> QED BY <1>1, <1>2, <1>3, <1>4, <1>5

\* Its list.
LEMMA AsideList ==
    /\ Unbegun(app_id \o <<"exit">>) /\ app_id \o <<"exit">> \in Seq(AsideSteps)
    /\ ~Has(app_id \o <<"exit">>, "ping") /\ ~Has(app_id \o <<"exit">>, "kill.control")
  <1>1. Unbegun(app_id \o <<"exit">>)
    BY StackPrograms, ProgramReady, Zenon
  <1>2. app_id \in Seq(AsideSteps)
    BY DEF app_id, AsideSteps
  <1>3. app_id \o <<"exit">> \in Seq(AsideSteps)
    BY <1>2 DEF AsideSteps
  <1>4. \A k \in 1 .. Len(app_id \o <<"exit">>) : (app_id \o <<"exit">>)[k] \in AsideSteps
    BY <1>3
  <1>5. "ping" \notin AsideSteps /\ "kill.control" \notin AsideSteps
    BY DEF AsideSteps
  <1> QED BY <1>1, <1>3, <1>4, <1>5 DEF Has

LEMMA SituatedStep ==
    ASSUME Formed, Situated, NEW t \in Threads, Step(t)
    PROVE  Situated'
  <1>r. loc[t].rows \subseteq Apps /\ Shelves
    BY DEF Situated
  <1>l. DOMAIN loc = Threads /\ DOMAIN loc[t] = Fields /\ DOMAIN todo = Threads
    BY DEF Formed
  <1>f. "inst" \in Fields /\ "port" \in Fields /\ "rows" \in Fields
    BY DEF Fields
  <1>d. Default \in Insts /\ Apps \subseteq Insts /\ Lists \subseteq SUBSET Apps
    BY CliAssumption, LibraryAssumption
  <1>s. ASSUME UNCHANGED <<cache, bundle>> PROVE Shelves'
    BY <1>r, <1>s DEF Shelves
  <1>1. CASE Plodding(t)
    BY <1>1, <1>r, <1>s, SituatedMove DEF Plodding, Still, Place
  <1>2. CASE Exit(t) /\ UNCHANGED <<stackVars, libraryVars>>
    <2>1. todo[t] # <<>> /\ todo' = [todo EXCEPT ![t] = <<>>] /\ loc' = [loc EXCEPT ![t] = NoContext]
      BY <1>2 DEF Exit, At
    <2>2. Advances(todo[t], todo'[t]) /\ \A u \in Threads \ {t} : todo'[u] = todo[u]
      BY <2>1, Advancing
    <2>3. loc'[t].rows = {} /\ loc'[t].inst = Default /\ \A u \in Threads \ {t} : loc'[u] = loc[u]
      BY <1>l, <2>1 DEF NoContext
    <2> QED BY <1>2, <1>d, <1>s, <2>2, <2>3, SituatedMove DEF Elsewhere, libraryVars
  <1>3. CASE ReadPorts(t) /\ UNCHANGED libraryVars
    <2>1. todo[t] # <<>> /\ Head(todo[t]) = "ports" /\ (Go(t) \/ Bail(t) \/ Skip(t, 3))
      BY <1>3 DEF ReadPorts, At
    <2>2. Advances(todo[t], todo'[t]) /\ \A u \in Threads \ {t} : todo'[u] = todo[u]
      BY <2>1, Advancing
    <2>3. UNCHANGED loc \/ \E v : loc' = [loc EXCEPT ![t].port = v]
      BY <1>3 DEF ReadPorts
    <2>4. loc'[t].rows = loc[t].rows /\ loc'[t].inst = loc[t].inst /\ \A u \in Threads \ {t} : loc'[u] = loc[u]
      BY <1>l, <1>f, <2>3
    <2> QED BY <1>3, <1>r, <1>s, <2>2, <2>4, SituatedMove DEF Elsewhere, libraryVars
  <1>4. CASE (start_server(t) \/ StopInstance(t)) /\ UNCHANGED libraryVars
    <2>1. todo[t] # <<>> /\ (Go(t) \/ Bail(t)) /\ UNCHANGED loc
      BY <1>4 DEF start_server, StopInstance, Call, Run, At
    <2>2. Advances(todo[t], todo'[t]) /\ \A u \in Threads \ {t} : todo'[u] = todo[u]
      BY <2>1, Advancing
    <2> QED BY <1>4, <1>r, <1>s, <2>1, <2>2, SituatedMove DEF Elsewhere, libraryVars
  <1>5. CASE SpawnAppId(t) /\ UNCHANGED libraryVars
    <2>1. Shelves'
      BY <1>5, <1>s DEF libraryVars
    <2>2. Advances(todo[t], todo'[t]) /\ todo[t] \in Seq(Words) /\ Fit(todo[t])
      BY <1>5, SpawnFacts DEF Advances, Situated, Formed
    <2>3. Fit(todo'[t])
      BY <2>2, AdvancesFit
    <2>4. \A u \in Threads : Fit(todo'[u]) /\ loc'[u].rows \subseteq Apps
      <3>1. Fit(app_id \o <<"exit">>)
        BY AsideList, Zenon DEF Unbegun
      <3>2. Fit(todo'[Side(t)])
        BY <1>5, <3>1, SpawnFacts, Zenon
      <3>3. \A u \in Threads : Fit(todo[u]) /\ loc[u].rows \subseteq Apps
        BY DEF Situated
      <3> QED BY <1>5, <1>r, <2>3, <3>2, <3>3, SpawnFacts, Zenon
    <2>5. \A u \in Threads : loc'[u].inst \in Insts \/ todo'[u] \in Seq(StoreSteps \cup {"exit"})
      BY <1>5, SpawnFacts DEF Situated, I
    <2>6. t \notin Sides
      <3>1. "app-id" \notin AsideSteps
        BY DEF AsideSteps
      <3>2. \A u \in Sides : todo[u] # <<>> => Head(todo[u]) \in AsideSteps
        BY Rests DEF Situated
      <3> QED BY <1>5, <3>1, <3>2, SpawnFacts
    <2>7. \A u \in Sides : todo'[u] \in Seq(AsideSteps)
      <3>1. todo'[Side(t)] \in Seq(AsideSteps)
        BY <1>5, SpawnFacts, AsideList, Zenon
      <3>2. \A u \in Sides : u \in Threads /\ u # t /\ todo[u] \in Seq(AsideSteps)
        BY <2>6 DEF Situated, Sides, Threads
      <3> QED BY <1>5, <3>1, <3>2, SpawnFacts, Zenon
    <2> QED BY <2>1, <2>4, <2>5, <2>7 DEF Situated, I
  <1>6. CASE NeedCache(t) \/ Refresh(t) \/ TryCache(t)
    <2>1. todo[t] # <<>> /\ (Go(t) \/ Bail(t)) /\ UNCHANGED <<loc, bundle>>
          /\ (UNCHANGED cache \/ \E S \in Lists : cache' = <<S>>)
      BY <1>6 DEF NeedCache, Refresh, TryCache, refresh_app_library, At
    <2>2. Advances(todo[t], todo'[t]) /\ \A u \in Threads \ {t} : todo'[u] = todo[u]
      BY <2>1, Advancing
    <2>3. Shelves'
      BY <1>r, <2>1 DEF Shelves
    <2> QED BY <1>r, <2>1, <2>2, <2>3, SituatedMove DEF Elsewhere
  <1>7. CASE find_app_record(t) \/ selected(t)
    <2>1. todo[t] # <<>> /\ (Go(t) \/ Bail(t)) /\ UNCHANGED <<cache, bundle>>
          /\ (UNCHANGED loc \/ \E S \in SUBSET Listed : loc' = [loc EXCEPT ![t].rows = S])
      BY <1>7 DEF find_app_record, selected, libraryVars, At
    <2>2. Advances(todo[t], todo'[t]) /\ \A u \in Threads \ {t} : todo'[u] = todo[u]
      BY <2>1, Advancing
    <2>3. loc'[t].rows \subseteq Apps /\ loc'[t].inst = loc[t].inst /\ \A u \in Threads \ {t} : loc'[u] = loc[u]
      BY <1>l, <1>f, <1>r, <2>1, ListedApps
    <2> QED BY <1>s, <2>1, <2>2, <2>3, SituatedMove DEF Elsewhere
  <1>8. CASE NextBundle(t)
    <2>1. todo[t] # <<>> /\ Head(todo[t]) = "bundle" /\ cache' = cache
      BY <1>8 DEF NextBundle, At
    <2>2. CASE loc[t].rows = {}
      <3>1. Go(t) /\ UNCHANGED <<loc, bundle>>
        BY <1>8, <2>2 DEF NextBundle
      <3>2. Advances(todo[t], todo'[t]) /\ \A u \in Threads \ {t} : todo'[u] = todo[u]
        BY <2>1, <3>1, Advancing
      <3> QED BY <1>r, <1>s, <2>1, <3>1, <3>2, SituatedMove DEF Elsewhere
    <2>3. CASE loc[t].rows # {}
      <3>1. PICK a \in loc[t].rows :
              /\ Jump(t, instance_context \o <<"bundle.app", "bundle.context", "bundle">>)
              /\ loc' = [loc EXCEPT ![t].inst = a, ![t].port = Base, ![t].rows = @ \ {a}]
              /\ bundle' = [bundle EXCEPT ![NameOf(a)].there = TRUE]
        BY <1>8, <2>3 DEF NextBundle
      <3>2. Advances(todo[t], todo'[t]) /\ \A u \in Threads \ {t} : todo'[u] = todo[u]
        BY <2>1, <3>1, Advancing DEF NextBundleSteps
      <3>3. /\ loc'[t].rows \subseteq Apps /\ loc'[t].inst \in Insts /\ \A u \in Threads \ {t} : loc'[u] = loc[u]
        BY <1>l, <1>f, <1>r, <1>d, <3>1
      <3>4. Shelves'
        <4>1. DOMAIN bundle' = Names
          BY <1>r, <3>1 DEF Shelves
        <4>2. \A n \in Names : DOMAIN bundle'[n] = DOMAIN NoBundle /\ bundle'[n].inst \in Insts
          BY <1>r, <3>1 DEF Shelves
        <4> QED BY <1>r, <2>1, <4>1, <4>2 DEF Shelves
      <3> QED BY <3>2, <3>3, <3>4, SituatedMove DEF Elsewhere
    <2> QED BY <2>2, <2>3
  <1>9. CASE WriteApp(t) \/ WriteContext(t)
    <2>1. todo[t] # <<>> /\ Go(t) /\ UNCHANGED <<loc, cache>> /\ Head(todo[t]) \in {"bundle.app", "bundle.context"}
      BY <1>9 DEF WriteApp, WriteContext, At
    <2>2. Advances(todo[t], todo'[t]) /\ \A u \in Threads \ {t} : todo'[u] = todo[u]
      BY <2>1, Advancing
    <2>3. I(t) \in Insts
      <3>1. Head(todo[t]) \notin StoreSteps \cup {"exit"}
        BY <2>1 DEF StoreSteps, Edits
      <3> QED BY <2>1, <3>1, AtInstance
    <2>4. /\ DOMAIN bundle' = Names
          /\ \A n \in Names : DOMAIN bundle'[n] = DOMAIN NoBundle /\ bundle'[n].inst \in Insts
      <3>1. CASE WriteApp(t)
        BY <1>r, <3>1 DEF WriteApp, Shelves
      <3>2. CASE WriteContext(t)
        BY <1>r, <2>3, <3>2 DEF WriteContext, Shelves
      <3> QED BY <1>9, <3>1, <3>2
    <2>5. Shelves'
      BY <1>r, <2>1, <2>4 DEF Shelves
    <2> QED BY <1>r, <2>1, <2>2, <2>5, SituatedMove DEF Elsewhere
  <1>10. CASE remove_launcher_app(t)
    <2>1. todo[t] # <<>> /\ (Go(t) \/ UNCHANGED todo) /\ cache' = cache
      BY <1>10 DEF remove_launcher_app, At
    <2>2. Advances(todo[t], todo'[t]) /\ \A u \in Threads \ {t} : todo'[u] = todo[u]
      BY <2>1, Advancing
    <2>3. \/ UNCHANGED <<loc, bundle>>
          \/ \E a : /\ loc' = [loc EXCEPT ![t].rows = @ \ {a}]
                    /\ bundle' = [bundle EXCEPT ![NameOf(a)] = NoBundle]
      BY <1>10 DEF remove_launcher_app
    <2>4. loc'[t].rows \subseteq Apps /\ loc'[t].inst = loc[t].inst /\ \A u \in Threads \ {t} : loc'[u] = loc[u]
      BY <1>l, <1>f, <1>r, <2>3
    <2>5. NoBundle.inst \in Insts
      BY <1>d DEF NoBundle
    <2>6. Shelves'
      <3>1. DOMAIN bundle' = Names
        BY <1>r, <2>3 DEF Shelves
      <3>2. \A n \in Names : DOMAIN bundle'[n] = DOMAIN NoBundle /\ bundle'[n].inst \in Insts
        BY <1>r, <2>3, <2>5 DEF Shelves
      <3> QED BY <1>r, <2>1, <3>1, <3>2 DEF Shelves
    <2> QED BY <2>2, <2>4, <2>6, SituatedMove DEF Elsewhere
  <1> QED BY <1>1, <1>2, <1>3, <1>4, <1>5, <1>6, <1>7, <1>8, <1>9, <1>10, StepSorts DEF Notable

\* The beginning of a command.
Starting(p, i, base, s) ==
    /\ Free(p) /\ todo' = [todo EXCEPT ![Main(p)] = s] /\ loc' = [loc EXCEPT ![Main(p)] = Context(i, base)]
    /\ history' = IF Quiet THEN history ELSE history \cup {"overlap"}
    /\ UNCHANGED <<stackVars, libraryVars>>
    /\ Unbegun(s) /\ (i \in Insts \/ s \in Seq(StoreSteps \cup {"exit"}))

LEMMA BeginStarts ==
    ASSUME Arguments, Situated, NEW p \in Procs, BeginCommand(p)
    PROVE  \E i, base, s : Starting(p, i, base, s)
  <1>1. PICK c \in mix : Dispatch(p, c)
    BY DEF BeginCommand
  <1>2. UNCHANGED <<stackVars, libraryVars>>
    BY DEF BeginCommand
  <1>3. ASSUME NEW i, NEW base, NEW s, Begin(p, i, base, s), Program(s),
               i \in Insts \/ s \o <<"exit">> \in Seq(StoreSteps \cup {"exit"})
        PROVE  \E j, b, r : Starting(p, j, b, r)
    <2>1. Unbegun(s \o <<"exit">>)
      BY <1>3, ProgramReady, Zenon
    <2>2. Starting(p, i, base, s \o <<"exit">>)
      BY <1>2, <1>3, <2>1, Zenon DEF Begin, Starting
    <2> QED BY <2>2
  <1>4. c[1] \notin HostCommands => c[2] \in Insts
    BY DEF Arguments
  <1>5. CASE c[1] \in DOMAIN StackCommands /\ c[1] # "bundle" /\ Begin(p, c[2], Base, StackCommands[c[1]])
    <2>1. DOMAIN StackCommands =
            {"run", "view", "launch", "prepare", "launchid", "app", "bench", "stop", "status",
             "bundle", "install", "installtls", "bootstrap", "uninstall"}
      BY DEF StackCommands
    <2>2. c[1] \notin HostCommands
      BY <1>5, <2>1 DEF HostCommands
    <2>3. StackCommands["installtls"] = install_with_tls /\ StackCommands["bootstrap"] = bootstrap
      BY DEF StackCommands
    <2>4. c[1] = "installtls" \/ c[1] = "bootstrap" \/ c[1] \in DOMAIN StackCommands \ {"installtls", "bootstrap"}
      BY <1>5
    <2>5. Program(StackCommands[c[1]])
      BY <2>3, <2>4, StackPrograms, KeyPrograms, Zenon
    <2> QED BY <1>3, <1>4, <1>5, <2>2, <2>5, Zenon
  <1>6. CASE /\ c[1] = "bundle" /\ c[2] \in Apps
             /\ Begin(p, bundle[NameOf(c[2])].inst, bundle[NameOf(c[2])].port, run_launch)
    <2>1. NameOf(c[2]) \in Names
      BY <1>6 DEF Names
    <2>2. bundle[NameOf(c[2])].inst \in Insts
      BY <2>1 DEF Situated, Shelves
    <2> QED BY <1>3, <1>6, <2>2, StackPrograms, Zenon
  <1>7. CASE c[1] = "bundle" /\ Begin(p, c[2], Base, run_launch)
    <2>1. "bundle" \notin HostCommands
      BY DEF HostCommands
    <2> QED BY <1>3, <1>4, <1>7, <2>1, StackPrograms, Zenon
  <1>8. CASE c[1] \in DOMAIN LibraryCommands /\ Begin(p, c[2], Base, LibraryCommands[c[1]])
    <2>1. DOMAIN LibraryCommands = {"library", "refresh", "ui", "icons", "apps", "launcher",
                                    "removeapps", "removelauncher"}
      BY DEF LibraryCommands
    <2>2. c[1] \notin HostCommands
      BY <1>8, <2>1 DEF HostCommands
    <2> QED BY <1>3, <1>4, <1>8, <2>2, LibraryPrograms, Zenon
  <1>9. CASE c[1] \in HostCommands /\ Begin(p, c[2], Base, HostSteps(c[1], c[2]))
    <2>1. HostSteps(c[1], c[2]) \in Seq(StoreSteps) /\ Program(HostSteps(c[1], c[2]))
      BY <1>9, HostPrograms
    <2>2. PICK s : s = HostSteps(c[1], c[2])
      OBVIOUS
    <2>3. ASSUME s \in Seq(StoreSteps) PROVE s \o <<"exit">> \in Seq(StoreSteps \cup {"exit"})
      <3>1. s \in Seq(StoreSteps \cup {"exit"}) /\ <<"exit">> \in Seq(StoreSteps \cup {"exit"})
        BY <2>3, MoreSteps
      <3> HIDE <2>2
      <3> QED BY <3>1
    <2> QED BY <1>3, <1>9, <2>1, <2>2, <2>3, Zenon
  <1> QED BY <1>1, <1>5, <1>6, <1>7, <1>8, <1>9 DEF Dispatch

LEMMA SituatedNext ==
    ASSUME Lined, Arguments, Situated, [Next]_vars
    PROVE  Situated'
  <1>0. Formed
    BY DEF Lined
  <1>1. ASSUME NEW p \in Procs, BeginCommand(p) PROVE Situated'
    <2>1. PICK i, base, s : Starting(p, i, base, s)
      BY <1>1, BeginStarts
    <2>2. PICK t : t = Main(p)
      OBVIOUS
    <2>3. t \in Threads /\ t \notin Sides
      BY <2>2 DEF Main, Threads, Sides
    <2>4. /\ todo' = [todo EXCEPT ![t] = s] /\ loc' = [loc EXCEPT ![t] = Context(i, base)]
          /\ UNCHANGED <<cache, bundle>> /\ Fit(s) /\ (i \in Insts \/ s \in Seq(StoreSteps \cup {"exit"}))
      BY <2>1, <2>2 DEF Starting, Unbegun, libraryVars
    <2>5. /\ todo'[t] = s /\ loc'[t].inst = i /\ loc'[t].rows = {}
          /\ \A u \in Threads \ {t} : todo'[u] = todo[u] /\ loc'[u] = loc[u]
      BY <1>0, <2>3, <2>4 DEF Formed, Context, NoContext
    <2>6. Sides \subseteq Threads
      BY DEF Sides, Threads
    <2> QED BY <2>3, <2>4, <2>5, <2>6 DEF Situated, Shelves, I
  <1>2. ASSUME NEW t \in Threads, Step(t) PROVE Situated'
    BY <1>0, <1>2, SituatedStep
  <1>3. ASSUME NEW p \in Procs, KillCommand(p), UNCHANGED <<hostVars, libraryVars, mix>> PROVE Situated'
    <2>1. PICK t : t = Main(p)
      OBVIOUS
    <2>2. t \in Threads /\ todo[t] # <<>> /\ Bail(t) /\ UNCHANGED <<loc, cache, bundle>>
      BY <1>3, <2>1 DEF Main, Threads, KillCommand, Kill, Idle, libraryVars
    <2>3. Advances(todo[t], todo'[t]) /\ \A u \in Threads \ {t} : todo'[u] = todo[u]
      BY <1>0, <2>2, Advancing
    <2>4. Shelves' /\ loc'[t].rows \subseteq Apps
      BY <2>2 DEF Situated, Shelves
    <2> QED BY <1>0, <2>2, <2>3, <2>4, SituatedMove DEF Elsewhere
  <1>4. ASSUME UNCHANGED <<todo, loc, cache, bundle>> PROVE Situated'
    BY <1>4 DEF Situated, Shelves, I
  <1>5. ASSUME Surroundings \/ UNCHANGED vars
        PROVE  \/ UNCHANGED <<todo, loc, cache, bundle>>
               \/ \E p \in Procs : KillCommand(p) /\ UNCHANGED <<hostVars, libraryVars, mix>>
    BY <1>5 DEF Surroundings, CloseViewer, TunnelDies, DaemonRestarts, Upgrade, cliVars, libraryVars, vars
  <1> QED BY <1>1, <1>2, <1>3, <1>4, <1>5 DEF Next

-----------------------------------------------------------------------------
(* A ping is answered by the server of the command's own instance.         *)

\* In the phase between start and ping, no step renames.
LEMMA NoRename ==
    ASSUME NEW s \in Seq(Words), s # <<>>, Fit(s), Past(s, "start", "ping")
    PROVE  Head(s) \notin Renames
  <1>1. 1 \in 1 .. Len(s) /\ Head(s) = s[1]
    OBVIOUS
  <1> QED BY <1>1 DEF Fit, InOrder

\* A step of a thread opens a phase with the step for it.
LEMMA PhaseOpens ==
    ASSUME Formed, Situated, NEW t \in Threads, Advances(todo[t], todo'[t])
    PROVE  /\ todo[t] \in Seq(Words) /\ todo[t] # <<>> /\ Fit(todo[t])
           /\ Past(todo'[t], "start", "ping") =>
                 \/ Past(todo[t], "start", "ping") /\ Head(todo[t]) \notin Renames
                 \/ Head(todo[t]) = "start" /\ todo'[t] = Tail(todo[t])
           /\ Past(todo'[t], "kill.viewer", "kill.control") =>
                 \/ Past(todo[t], "kill.viewer", "kill.control")
                 \/ Head(todo[t]) = "kill.viewer" /\ todo'[t] = Tail(todo[t])
           /\ Past(todo'[t], "kill.tunnel", "kill.control") =>
                 \/ Past(todo[t], "kill.tunnel", "kill.control")
                 \/ Head(todo[t]) = "kill.tunnel" /\ todo'[t] = Tail(todo[t])
  <1>1. todo[t] \in Seq(Words) /\ todo[t] # <<>> /\ Fit(todo[t])
    BY DEF Formed, Situated, Advances
  <1>2. todo[t][1] = Head(todo[t])
    BY <1>1
  <1> QED BY <1>1, <1>2, AdvancesFit, NoRename DEF Opens

\* A thread whose server is left alone, or ended.
LEMMA StaysServed ==
    ASSUME NEW u, Served(u), I(u) \in DOMAIN server, loc'[u].inst = loc[u].inst, loc'[u].port = loc[u].port,
           ended \subseteq ended',
           server'[I(u)] = server[I(u)] \/ (server[I(u)] # 0 => <<I(u), server[I(u)]>> \in ended')
    PROVE  Served(u)'
  BY DEF Served, I

\* A thread in the phase is about an instance.
LEMMA PhaseInst ==
    ASSUME Situated, NEW u \in Threads, Past(todo[u], "start", "ping") PROVE I(u) \in Insts
  <1>1. ASSUME todo[u] \in Seq(StoreSteps \cup {"exit"}) PROVE FALSE
    <2>1. \A k \in 1 .. Len(todo[u]) : todo[u][k] \in StoreSteps \cup {"exit"}
      BY <1>1
    <2>2. "ping" \notin StoreSteps \cup {"exit"}
      BY DEF StoreSteps, Edits
    <2> QED BY <2>1, <2>2 DEF Past, Has
  <1> QED BY <1>1 DEF Situated

\* A step that leaves the servers alone and no thread begins to wait with.
LEMMA OwnAside ==
    ASSUME Formed, Situated, OwnServers, UNCHANGED <<server, ended>>,
           \A u \in Threads : Past(todo'[u], "start", "ping") =>
              /\ Past(todo[u], "start", "ping")
              /\ loc'[u].inst = loc[u].inst /\ loc'[u].port = loc[u].port
    PROVE  OwnServers'
  <1>1. \A u \in Threads : Past(todo'[u], "start", "ping") => Served(u)'
    BY DEF OwnServers, Served, I
  <1> QED BY <1>1 DEF OwnServers

LEMMA OwnStart ==
    ASSUME Formed, Situated, OwnServers, NEW t \in Threads, start_server(t)
    PROVE  OwnServers'
  <1>1. todo[t] # <<>> /\ Head(todo[t]) = "start" /\ (Go(t) \/ Bail(t)) /\ UNCHANGED loc
    BY DEF start_server, Call, Run, At
  <1>2. Advances(todo[t], todo'[t]) /\ \A u \in Threads \ {t} : todo'[u] = todo[u]
    BY <1>1, Advancing
  <1>3. I(t) \in Insts
    <2>1. "start" \notin StoreSteps \cup {"exit"}
      BY DEF StoreSteps, Edits
    <2> QED BY <1>1, <2>1, AtInstance
  <1>4. \A u \in Threads : u # t => (Past(todo'[u], "start", "ping") => Past(todo[u], "start", "ping") /\ Served(u))
    BY <1>2 DEF OwnServers
  <1>5. ASSUME Bail(t) PROVE ~Past(todo'[t], "start", "ping")
    <2>1. todo'[t] = <<"exit">>
      BY <1>5 DEF Bail, Formed
    <2>2. ~Has(<<"exit">>, "ping")
      BY Ends DEF Starts
    <2> QED BY <2>1, <2>2 DEF Past
  <1>6. CASE Bail(t) /\ UNCHANGED <<server, apps, ended>>
    BY <1>1, <1>4, <1>5, <1>6, OwnAside
  <1>7. CASE /\ \A i \in Insts \ {I(t)} : server[i] # loc[t].port
             /\ Run(t)
             /\ server' \in {[server EXCEPT ![I(t)] = loc[t].port], [server EXCEPT ![I(t)] = 0]}
             /\ (server'[I(t)] = 0 => Bail(t))
             /\ EndServer(I(t))
    <2>1. /\ DOMAIN server = Insts /\ DOMAIN server' = Insts
          /\ \A i \in Insts \ {I(t)} : server'[i] = server[i]
          /\ server'[I(t)] \in {loc[t].port, 0}
      BY <1>3, <1>7 DEF OwnServers
    <2>2. /\ ended \subseteq ended'
          /\ server[I(t)] # 0 => <<I(t), server[I(t)]>> \in ended'
      BY <1>7 DEF EndServer
    <2>3. ASSUME NEW i \in Insts, NEW j \in Insts, server'[i] = server'[j], server'[i] # 0
          PROVE  i = j
      BY <1>7, <2>1, <2>3 DEF OwnServers
    <2>4. ASSUME NEW u \in Threads, u # t, Past(todo'[u], "start", "ping") PROVE Served(u)'
      <3>1. I(u) \in Insts /\ Served(u)
        BY <1>4, <2>4, PhaseInst
      <3>2. server'[I(u)] = server[I(u)] \/ (server[I(u)] # 0 => <<I(u), server[I(u)]>> \in ended')
        BY <2>1, <2>2, <3>1
      <3> QED BY <1>1, <2>1, <2>2, <3>1, <3>2, StaysServed
    <2>5. ASSUME Past(todo'[t], "start", "ping") PROVE Served(t)'
      <3>1. server'[I(t)] # 0
        BY <1>5, <1>7, <2>5
      <3>2. server'[I(t)] = loc[t].port /\ loc[t].port # 0
        BY <2>1, <3>1
      <3> QED BY <1>1, <3>2 DEF Served, I
    <2>6. \A u \in Threads : Past(todo'[u], "start", "ping") => Served(u)'
      BY <2>4, <2>5
    <2> QED BY <2>1, <2>3, <2>6 DEF OwnServers
  <1> QED BY <1>6, <1>7 DEF start_server, Call

LEMMA OwnStop ==
    ASSUME Formed, Situated, OwnServers, NEW t \in Threads, StopInstance(t)
    PROVE  OwnServers'
  <1>1. todo[t] # <<>> /\ Head(todo[t]) = "stop" /\ Go(t) /\ UNCHANGED loc
    BY DEF StopInstance, At
  <1>2. Advances(todo[t], todo'[t]) /\ \A u \in Threads \ {t} : todo'[u] = todo[u]
    BY <1>1, Advancing
  <1>3. I(t) \in Insts
    <2>1. "stop" \notin StoreSteps \cup {"exit"}
      BY DEF StoreSteps, Edits
    <2> QED BY <1>1, <2>1, AtInstance
  <1>4. \A u \in Threads : Past(todo'[u], "start", "ping") => Past(todo[u], "start", "ping") /\ Served(u)
    BY <1>1, <1>2, PhaseOpens DEF OwnServers
  <1>5. CASE UNCHANGED <<server, ended>>
    BY <1>1, <1>4, <1>5, OwnAside
  <1>6. CASE EndServer(I(t)) /\ server' = [server EXCEPT ![I(t)] = 0]
    <2>1. /\ DOMAIN server = Insts /\ DOMAIN server' = Insts
          /\ \A i \in Insts \ {I(t)} : server'[i] = server[i]
          /\ server'[I(t)] = 0
      BY <1>3, <1>6 DEF OwnServers
    <2>2. /\ ended \subseteq ended'
          /\ server[I(t)] # 0 => <<I(t), server[I(t)]>> \in ended'
      BY <1>6 DEF EndServer
    <2>3. ASSUME NEW i \in Insts, NEW j \in Insts, server'[i] = server'[j], server'[i] # 0
          PROVE  i = j
      BY <2>1, <2>3 DEF OwnServers
    <2>4. ASSUME NEW u \in Threads, Past(todo'[u], "start", "ping") PROVE Served(u)'
      <3>1. I(u) \in Insts /\ Served(u)
        BY <1>4, <2>4, PhaseInst
      <3>2. server'[I(u)] = server[I(u)] \/ (server[I(u)] # 0 => <<I(u), server[I(u)]>> \in ended')
        BY <2>1, <2>2, <3>1
      <3> QED BY <1>1, <2>1, <2>2, <3>1, <3>2, StaysServed
    <2> QED BY <2>1, <2>3, <2>4 DEF OwnServers
  <1> QED BY <1>5, <1>6 DEF StopInstance

\* The other steps.
LEMMA OwnStep ==
    ASSUME Formed, Situated, OwnServers, NEW t \in Threads, Step(t)
    PROVE  OwnServers'
  <1> DEFINE Held == \A u \in Threads : Past(todo'[u], "start", "ping") =>
                        /\ Past(todo[u], "start", "ping")
                        /\ loc'[u].inst = loc[u].inst /\ loc'[u].port = loc[u].port
  <1>l. DOMAIN loc = Threads /\ DOMAIN loc[t] = Fields /\ DOMAIN todo = Threads
    BY DEF Formed
  <1>f. "inst" \in Fields /\ "port" \in Fields /\ "rows" \in Fields
    BY DEF Fields
  <1>k. ASSUME UNCHANGED keep PROVE UNCHANGED <<server, ended>>
    BY <1>k DEF keep, stackVars, ownVars
  <1>a. ASSUME Advances(todo[t], todo'[t]), \A u \in Threads \ {t} : todo'[u] = todo[u] /\ loc'[u] = loc[u],
               Head(todo[t]) # "start", Head(todo[t]) \in Renames \/ Place(t)
        PROVE  Held
    BY <1>a, PhaseOpens DEF Place
  <1>1. CASE Plodding(t)
    <2>1. Held
      BY <1>1, <1>a DEF Plodding, Still, Elsewhere
    <2> QED BY <1>1, <2>1, OwnAside DEF Plodding
  <1>2. CASE Exit(t) /\ UNCHANGED <<stackVars, libraryVars>>
    <2>1. todo' = [todo EXCEPT ![t] = <<>>] /\ loc' = [loc EXCEPT ![t] = NoContext] /\ UNCHANGED <<server, ended>>
      BY <1>2 DEF Exit, stackVars, ownVars
    <2>2. todo'[t] = <<>> /\ \A u \in Threads \ {t} : todo'[u] = todo[u] /\ loc'[u] = loc[u]
      BY <1>l, <2>1
    <2>3. ~Has(<<>>, "ping")
      BY Ends DEF Starts
    <2>4. Held
      BY <2>2, <2>3 DEF Past
    <2> QED BY <2>1, <2>4, OwnAside
  <1>3. CASE ReadPorts(t) /\ UNCHANGED libraryVars
    <2>1. todo[t] # <<>> /\ Head(todo[t]) = "ports" /\ (Go(t) \/ Bail(t) \/ Skip(t, 3))
      BY <1>3 DEF ReadPorts, At
    <2>2. Advances(todo[t], todo'[t]) /\ \A u \in Threads \ {t} : todo'[u] = todo[u]
      BY <2>1, Advancing
    <2>3. (UNCHANGED loc \/ \E v : loc' = [loc EXCEPT ![t].port = v]) /\ UNCHANGED <<server, ended>>
      BY <1>3 DEF ReadPorts, stackVars, ownVars
    <2>4. \A u \in Threads \ {t} : loc'[u] = loc[u]
      BY <1>l, <2>3
    <2>5. Held
      BY <1>a, <2>1, <2>2, <2>4 DEF Renames
    <2> QED BY <2>3, <2>5, OwnAside
  <1>4. CASE start_server(t)
    BY <1>4, OwnStart
  <1>5. CASE StopInstance(t)
    BY <1>5, OwnStop
  <1>6. CASE SpawnAppId(t)
    <2>1. UNCHANGED <<server, ended>>
      BY <1>6 DEF SpawnAppId, stackVars, ownVars
    <2>2. ~Past(todo'[Side(t)], "start", "ping")
      <3>1. ~Has(todo'[Side(t)], "ping")
        BY <1>6, SpawnFacts, AsideList, Zenon
      <3> QED BY <3>1 DEF Past
    <2>3. Advances(todo[t], todo'[t]) /\ Head(todo[t]) = "app-id"
      BY <1>6, SpawnFacts DEF Advances
    <2>4. Past(todo'[t], "start", "ping") => Past(todo[t], "start", "ping")
      BY <2>3, PhaseOpens
    <2>5. Held
      BY <1>6, <2>2, <2>4, SpawnFacts, Zenon
    <2> QED BY <2>1, <2>5, OwnAside
  <1>7. CASE NeedCache(t) \/ Refresh(t) \/ TryCache(t) \/ find_app_record(t) \/ selected(t)
    <2>1. /\ todo[t] # <<>> /\ (Go(t) \/ Bail(t)) /\ Head(todo[t]) # "start"
          /\ UNCHANGED keep
      BY <1>7 DEF NeedCache, Refresh, TryCache, find_app_record, selected, refresh_app_library, At
    <2>2. Advances(todo[t], todo'[t]) /\ \A u \in Threads \ {t} : todo'[u] = todo[u]
      BY <2>1, Advancing
    <2>3. UNCHANGED loc \/ \E S : loc' = [loc EXCEPT ![t].rows = S]
      BY <1>7 DEF NeedCache, Refresh, TryCache, find_app_record, selected
    <2>4. Place(t) /\ \A u \in Threads \ {t} : loc'[u] = loc[u]
      BY <1>l, <1>f, <2>3 DEF Place
    <2>5. Held
      BY <1>a, <2>1, <2>2, <2>4
    <2> QED BY <1>k, <2>1, <2>5, OwnAside
  <1>8. CASE NextBundle(t)
    <2>1. todo[t] # <<>> /\ Head(todo[t]) = "bundle" /\ UNCHANGED keep /\ (Go(t) \/ Jump(t, NextBundleSteps))
      BY <1>8 DEF NextBundle, NextBundleSteps, At
    <2>2. Advances(todo[t], todo'[t]) /\ \A u \in Threads \ {t} : todo'[u] = todo[u]
      BY <2>1, Advancing
    <2>3. UNCHANGED loc \/ \E a : loc' = [loc EXCEPT ![t].inst = a, ![t].port = Base, ![t].rows = @ \ {a}]
      BY <1>8 DEF NextBundle
    <2>4. \A u \in Threads \ {t} : loc'[u] = loc[u]
      BY <1>l, <2>3
    <2>5. Held
      BY <1>a, <2>1, <2>2, <2>4 DEF Renames
    <2> QED BY <1>k, <2>1, <2>5, OwnAside
  <1>9. CASE WriteApp(t) \/ WriteContext(t) \/ remove_launcher_app(t)
    <2>1. /\ todo[t] # <<>> /\ (Go(t) \/ UNCHANGED todo) /\ Head(todo[t]) # "start" /\ UNCHANGED keep
      BY <1>9 DEF WriteApp, WriteContext, remove_launcher_app, At
    <2>2. Advances(todo[t], todo'[t]) /\ \A u \in Threads \ {t} : todo'[u] = todo[u]
      BY <2>1, Advancing
    <2>3. UNCHANGED loc \/ \E S : loc' = [loc EXCEPT ![t].rows = S]
      BY <1>9 DEF WriteApp, WriteContext, remove_launcher_app
    <2>4. Place(t) /\ \A u \in Threads \ {t} : loc'[u] = loc[u]
      BY <1>l, <1>f, <2>3 DEF Place
    <2>5. Held
      BY <1>a, <2>1, <2>2, <2>4
    <2> QED BY <1>k, <2>1, <2>5, OwnAside
  <1> QED BY <1>1, <1>2, <1>3, <1>4, <1>5, <1>6, <1>7, <1>8, <1>9, StepSorts DEF Notable

LEMMA OwnNext ==
    ASSUME Lined, Arguments, Situated, OwnServers, [Next]_vars
    PROVE  OwnServers'
  <1>0. Formed
    BY DEF Lined
  <1>1. ASSUME NEW p \in Procs, BeginCommand(p) PROVE OwnServers'
    <2>1. PICK i, base, s : Starting(p, i, base, s)
      BY <1>1, BeginStarts
    <2>2. PICK t : t = Main(p)
      OBVIOUS
    <2>3. t \in Threads
      BY <2>2 DEF Main, Threads
    <2>4. /\ todo' = [todo EXCEPT ![t] = s] /\ loc' = [loc EXCEPT ![t] = Context(i, base)]
          /\ UNCHANGED <<server, ended>> /\ ~Past(s, "start", "ping")
      BY <2>1, <2>2 DEF Starting, Unbegun, stackVars, ownVars
    <2>5. /\ todo'[t] = s
          /\ \A u \in Threads \ {t} : todo'[u] = todo[u] /\ loc'[u] = loc[u]
      BY <1>0, <2>3, <2>4 DEF Formed
    <2> QED BY <1>0, <2>4, <2>5, OwnAside
  <1>2. ASSUME NEW t \in Threads, Step(t) PROVE OwnServers'
    BY <1>0, <1>2, OwnStep
  <1>3. ASSUME NEW p \in Procs, KillCommand(p), UNCHANGED <<hostVars, libraryVars, mix>> PROVE OwnServers'
    <2>1. PICK t : t = Main(p)
      OBVIOUS
    <2>2. t \in Threads /\ Bail(t) /\ UNCHANGED <<loc, server, ended>>
      BY <1>3, <2>1 DEF Main, Threads, KillCommand, Kill
    <2>3. todo'[t] = <<"exit">> /\ \A u \in Threads \ {t} : todo'[u] = todo[u]
      BY <1>0, <2>2 DEF Bail, Formed
    <2>4. ~Has(<<"exit">>, "ping")
      BY Ends DEF Starts
    <2>5. ~Past(todo'[t], "start", "ping")
      BY <2>3, <2>4 DEF Past
    <2> QED BY <1>0, <2>2, <2>3, <2>5, OwnAside
  <1>4. ASSUME UNCHANGED <<todo, loc, server, ended>> PROVE OwnServers'
    BY <1>0, <1>4, OwnAside
  <1>5. ASSUME Surroundings \/ UNCHANGED vars
        PROVE  \/ UNCHANGED <<todo, loc, server, ended>>
               \/ \E p \in Procs : KillCommand(p) /\ UNCHANGED <<hostVars, libraryVars, mix>>
    BY <1>5 DEF Surroundings, CloseViewer, TunnelDies, DaemonRestarts, Upgrade, cliVars, stackVars, ownVars, vars
  <1> QED BY <1>1, <1>2, <1>3, <1>4, <1>5 DEF Next

LEMMA InitSituated ==
    ASSUME CommandsInit PROVE Situated /\ OwnServers
  <1>1. /\ \A t \in Threads : todo[t] = <<>> /\ loc[t] = NoContext
        /\ cache = <<>> /\ bundle = [n \in Names |-> NoBundle] /\ server = [i \in Insts |-> 0]
    BY DEF CommandsInit, Init, LibraryInit, StackInit
  <1>2. /\ NoContext.inst = Default /\ NoContext.rows = {} /\ NoBundle.inst = Default /\ Default \in Insts
    BY CliAssumption DEF NoContext, NoBundle
  <1>3. Sides \subseteq Threads /\ <<>> \in Seq(AsideSteps)
    BY DEF Sides, Threads
  <1>4. ~Past(<<>>, "start", "ping") /\ Fit(<<>>)
    BY Ends DEF Past, Starts
  <1>5. Shelves
    BY <1>1, <1>2 DEF Shelves
  <1>6. Situated
    BY <1>1, <1>2, <1>3, <1>4, <1>5 DEF Situated, I
  <1> QED BY <1>1, <1>4, <1>6 DEF OwnServers

\* ReachesOwnServer: a ping that lets a command go on was answered by the
\* server of the command's own instance, or that one had been started and was
\* ended by a later command (runtime.rs's start_stack and wait_ping, with the
\* races for instance-ports.tsv that instance_port allows).
THEOREM OwnServerAlwaysReached == Spec => ReachesOwnServer
  <1> DEFINE Inv == Lined /\ Arguments /\ Situated /\ OwnServers
  <1>1. CommandsInit => Inv
    BY InitLined, InitSituated
  <1>2. Inv /\ [Next]_vars => Inv'
    BY LinedNext, SituatedNext, OwnNext, NextKinds
  <1>3. ASSUME Inv, NEW t \in Threads, At(t, "ping")
        PROVE  Answers(loc[t].port) \subseteq {I(t)} \/ <<I(t), loc[t].port>> \in ended
    <2>1. todo[t] \in Seq(Words) /\ todo[t] # <<>> /\ Fit(todo[t])
      BY <1>3 DEF At, Lined, Formed, Situated
    <2>2. Len(todo[t]) \in Nat /\ 1 \in 1 .. Len(todo[t]) /\ todo[t][1] = "ping"
      BY <1>3, <2>1 DEF At
    <2>3. Past(todo[t], "start", "ping")
      BY <2>1, <2>2 DEF Past, Has, Fit, InOrder
    <2>4. Served(t) /\ I(t) \in Insts
      BY <1>3, <2>3, PhaseInst DEF OwnServers
    <2> QED BY <1>3, <2>4 DEF Served, Answers, OwnServers
  <1>4. Inv /\ [Next]_vars =>
           [\A t \in Threads : At(t, "ping") /\ todo'[t] = Tail(todo[t]) =>
               \/ Answers(loc[t].port) \subseteq {I(t)}
               \/ <<I(t), loc[t].port>> \in ended]_vars
    BY <1>3
  <1> QED BY <1>1, <1>2, <1>4, PTL DEF Spec, ReachesOwnServer

-----------------------------------------------------------------------------
(* When `stop` has run, no process of the instance is left.                *)

\* The steps before which a process is awaited, or with which a phase opens.
Watched ==
    {"pid.viewer", "pid.tunnel", "pid.control", "waitviewer", "kill.viewer", "kill.tunnel", "kill.control"}

\* Process p is as it was.
Same(p) == procs'[p].kind = procs[p].kind /\ procs'[p].inst = procs[p].inst

\* ps is the list of the processes after process k, if there is one, has ended.
Thinned(ps, k) ==
    /\ \E S : ps \in Seq(S)
    /\ Len(ps) = Len(procs) /\ Len(ps) \in Nat /\ DOMAIN ps = 1 .. Len(ps) /\ DOMAIN procs = DOMAIN ps
    /\ \A p \in DOMAIN ps : /\ DOMAIN ps[p] = DOMAIN procs[p]
                            /\ ps[p].kind = procs[p].kind /\ ps[p].inst = procs[p].inst
                            /\ ps[p].alive => procs[p].alive /\ p # k

\* A process that ends.
LEMMA Dying ==
    ASSUME ProcessTypes, NEW k \in DOMAIN procs
    PROVE  Thinned([procs EXCEPT ![k].alive = FALSE], k)
  <1>p. PICK ps : ps = [procs EXCEPT ![k].alive = FALSE]
    OBVIOUS
  <1>0. PICK S : procs \in Seq(S)
    BY DEF ProcessTypes
  <1>1. Len(procs) \in Nat /\ DOMAIN procs = 1 .. Len(procs)
    BY <1>0
  <1>2. PICK x : x = [procs[k] EXCEPT !.alive = FALSE]
    OBVIOUS
  <1>3. {"kind", "inst", "alive"} \subseteq DOMAIN procs[k]
    BY DEF ProcessTypes
  <1>4. x.kind = procs[k].kind /\ x.inst = procs[k].inst /\ x.alive = FALSE /\ DOMAIN x = DOMAIN procs[k]
    BY <1>2, <1>3
  <1>5. ps = [procs EXCEPT ![k] = x]
    BY <1>p, <1>2
  <1> HIDE <1>p, <1>2
  <1>6. procs \in Seq(S \cup {x})
    BY <1>0, MoreSteps
  <1>7. ps \in Seq(S \cup {x}) /\ Len(ps) = Len(procs) /\ DOMAIN ps = DOMAIN procs
    BY <1>5, <1>6
  <1>8. ps[k] = x /\ \A p \in DOMAIN procs : p # k => ps[p] = procs[p]
    BY <1>5
  <1>9. Thinned(ps, k)
    BY <1>1, <1>4, <1>7, <1>8 DEF Thinned
  <1> QED BY <1>p, <1>9

\* The processes that are left when the one a pid file names is killed.
LEMMA KillList ==
    ASSUME ProcessTypes, NEW i \in Insts, NEW kind \in Kinds
    PROVE  Thinned(kill_pid_file(i, kind, procs), pidfile[<<i, kind>>])
  <1>1. (\E S : procs \in Seq(S)) /\ Len(procs) \in Nat /\ DOMAIN procs = 1 .. Len(procs)
    BY DEF ProcessTypes
  <1>2. pidfile[<<i, kind>>] \in 0 .. Len(procs)
    BY DEF ProcessTypes
  <1>3. PICK k : k = pidfile[<<i, kind>>]
    OBVIOUS
  <1>4. CASE k = 0
    <2>1. Thinned(procs, k)
      BY <1>1, <1>4 DEF Thinned
    <2> QED BY <1>3, <1>4, <2>1 DEF kill_pid_file
  <1>5. CASE k # 0
    <2>1. k \in DOMAIN procs
      BY <1>1, <1>2, <1>3, <1>5
    <2>2. Thinned([procs EXCEPT ![k].alive = FALSE], k)
      BY <2>1, Dying
    <2>3. kill_pid_file(i, kind, procs) = [procs EXCEPT ![k].alive = FALSE]
      BY <1>3, <1>5 DEF kill_pid_file
    <2> QED BY <1>3, <2>2, <2>3
  <1> QED BY <1>4, <1>5

\* A process is started.
Grown(ps, x, qs) ==
    /\ \E T : qs \in Seq(T)
    /\ Len(qs) = Len(ps) + 1 /\ DOMAIN qs = 1 .. Len(ps) + 1
    /\ qs[Len(ps) + 1] = x
    /\ \A p \in 1 .. Len(ps) : qs[p] = ps[p]
LEMMA SpawnList ==
    ASSUME NEW S, NEW ps, ps \in Seq(S), NEW x
    PROVE  Grown(ps, x, Append(ps, x))
  <1>1. ps \in Seq(S \cup {x}) /\ x \in S \cup {x}
    BY MoreSteps
  <1>2. Append(ps, x) \in Seq(S \cup {x})
    BY <1>1
  <1> QED BY <1>1, <1>2 DEF Grown

\* The other threads keep theirs, but for the second thread of a launcher.
Mostly(t) ==
    \A u \in Threads \ {t} :
        \/ todo'[u] = todo[u] /\ loc'[u] = loc[u]
        \/ u \in Sides /\ u[1] = t[1] /\ todo'[u] \in Seq(AsideSteps)

\* The second threads await no process and end none.
LEMMA AsideHeads ==
    ASSUME NEW s \in Seq(AsideSteps)
    PROVE  /\ s # <<>> => Head(s) \in AsideSteps /\ Head(s) \notin Watched
           /\ ~Past(s, "kill.viewer", "kill.control") /\ ~Past(s, "kill.tunnel", "kill.control")
  <1>1. "kill.control" \notin AsideSteps /\ AsideSteps \cap Watched = {}
    BY DEF AsideSteps, Watched
  <1>2. \A k \in 1 .. Len(s) : s[k] \in AsideSteps
    OBVIOUS
  <1>3. s # <<>> => Head(s) \in AsideSteps
    BY Rests
  <1> QED BY <1>1, <1>2, <1>3 DEF Past, Has

LEMMA AwaitedHead ==
    ASSUME NEW t, NEW p, Awaited(t, p) PROVE todo[t] # <<>> /\ Head(todo[t]) \in Watched
  BY DEF Awaited, Watched

\* What a step has to do to keep Tidy.
LEMMA TidyMove ==
    ASSUME Formed, Situated, Tidy, NEW t \in Threads, todo[t] # <<>>, Mostly(t),
           history' = history, ProcessTypes',
           ~mixed => \A p \in Running' :
              Named(p)' \/ Awaited(t, p)' \/ (p \in Running /\ ~Named(p) /\ ~Awaited(t, p) /\ Same(p)),
           ~mixed /\ Head(todo[t]) \in AsideSteps => \A p \in Running' : p \in Running /\ Same(p),
           ~mixed => Ended(t)'
    PROVE  Tidy'
  <1> SUFFICES ASSUME ~mixed'
               PROVE  /\ Single'
                      /\ \A p \in Running' : Named(p)' \/ \E u \in Threads : Awaited(u, p)'
                      /\ \A u \in Threads : Ended(u)'
    BY DEF Tidy
  <1>0. ~mixed /\ Single /\ (\A p \in Running : Named(p) \/ \E u \in Threads : Awaited(u, p))
        /\ \A u \in Threads : Ended(u)
    BY DEF Tidy, mixed
  <1>1. \A u \in Threads : u[1] # t[1] => todo[u] = <<>> /\ todo'[u] = <<>>
    BY <1>0 DEF Single, Mostly
  <1>2. Single'
    BY <1>1 DEF Single
  <1>3. \A u \in Sides : u \in Threads /\ todo[u] \in Seq(AsideSteps)
    BY DEF Situated, Sides, Threads
  <1>4. ASSUME NEW p \in Running', ~Named(p)', ~Awaited(t, p)' PROVE \E u \in Threads : Awaited(u, p)'
    <2>1. p \in Running /\ ~Named(p) /\ ~Awaited(t, p) /\ Same(p)
      BY <1>0, <1>4
    <2>2. PICK u \in Threads : Awaited(u, p)
      BY <1>0, <2>1
    <2>3. u # t /\ u \notin Sides
      BY <1>3, <2>1, <2>2, AwaitedHead, AsideHeads
    <2>4. todo'[u] = todo[u] /\ loc'[u] = loc[u]
      BY <2>3 DEF Mostly
    <2> QED BY <2>1, <2>2, <2>4 DEF Awaited, Same, I
  <1>5. ASSUME NEW u \in Threads PROVE Ended(u)'
    <2>1. CASE u = t
      BY <1>0, <2>1
    <2>2. CASE u # t /\ todo'[u] \in Seq(AsideSteps)
      <3>1. ~Past(todo'[u], "kill.viewer", "kill.control") /\ ~Past(todo'[u], "kill.tunnel", "kill.control")
        BY <2>2, AsideHeads
      <3> QED BY <3>1 DEF Ended
    <2>3. CASE u # t /\ todo'[u] \notin Seq(AsideSteps)
      <3>1. todo'[u] = todo[u] /\ loc'[u] = loc[u]
        BY <2>3 DEF Mostly
      <3>0. <<>> \in Seq(AsideSteps)
        OBVIOUS
      <3>2. u \notin Sides /\ todo[u] # <<>>
        BY <1>3, <2>3, <3>0, <3>1, Zenon
      <3>3. u[1] = t[1]
        BY <1>1, <3>2
      <3>4. t \in Sides
        BY <2>3, <3>2, <3>3 DEF Sides, Threads
      <3>5. Head(todo[t]) \in AsideSteps
        BY <1>3, <3>4, AsideHeads
      <3>6. \A p \in Running' : p \in Running /\ Same(p)
        BY <1>0, <3>5
      <3> QED BY <1>0, <3>1, <3>6 DEF Ended, Same, I
    <2> QED BY <2>1, <2>2, <2>3
  <1> QED BY <1>2, <1>4, <1>5

\* A phase goes on while nothing begins.
LEMMA EndedMove ==
    ASSUME Formed, Situated, NEW t \in Threads, Advances(todo[t], todo'[t]), Ended(t),
           Head(todo[t]) \notin {"kill.viewer", "kill.tunnel"},
           loc'[t].inst = loc[t].inst \/ Head(todo[t]) \in Begun \/ todo'[t] = <<>>,
           \A p \in Running' : (p \in Running /\ Same(p)) \/ procs'[p].kind = "control" \/ Head(todo[t]) \in Begun
    PROVE  Ended(t)'
  <1>1. ~Past(<<>>, "kill.viewer", "kill.control") /\ ~Past(<<>>, "kill.tunnel", "kill.control")
    BY Ends DEF Past, Kills
  <1>2. todo[t] \in Seq(Words) /\ todo[t] # <<>> /\ Fit(todo[t])
    BY PhaseOpens
  <1>3. Past(todo[t], "kill.viewer", "kill.control") \/ Past(todo[t], "kill.tunnel", "kill.control")
           => Head(todo[t]) \notin Begun
    <2>1. 1 \in 1 .. Len(todo[t]) /\ Head(todo[t]) = todo[t][1]
      BY <1>2
    <2> QED BY <1>2, <2>1 DEF Fit, InOrder
  <1>4. ASSUME Past(todo'[t], "kill.viewer", "kill.control")
        PROVE  \A p \in Running' : procs'[p].inst = loc'[t].inst => procs'[p].kind \notin {"viewer", "bundle"}
    <2>1. Past(todo[t], "kill.viewer", "kill.control") /\ todo'[t] # <<>>
      BY <1>1, <1>4, PhaseOpens
    <2>2. Head(todo[t]) \notin Begun /\ loc'[t].inst = loc[t].inst
      BY <1>3, <2>1
    <2> QED BY <2>1, <2>2 DEF Ended, Same, I
  <1>5. ASSUME Past(todo'[t], "kill.tunnel", "kill.control")
        PROVE  \A p \in Running' : procs'[p].inst = loc'[t].inst => procs'[p].kind # "tunnel"
    <2>1. Past(todo[t], "kill.tunnel", "kill.control") /\ todo'[t] # <<>>
      BY <1>1, <1>5, PhaseOpens
    <2>2. Head(todo[t]) \notin Begun /\ loc'[t].inst = loc[t].inst
      BY <1>3, <2>1
    <2> QED BY <2>1, <2>2 DEF Ended, Same, I
  <1> QED BY <1>4, <1>5 DEF Ended, I

\* A step that starts, names and kills nothing.
Idling(t) ==
    /\ Advances(todo[t], todo'[t]) /\ Mostly(t) /\ Head(todo[t]) \notin Watched
    /\ loc'[t].inst = loc[t].inst \/ Head(todo[t]) \in Begun \/ todo'[t] = <<>>
    /\ UNCHANGED <<procs, pidfile, leaked>>
    /\ \A u \in Threads : loc'[u].pid \in 0 .. Len(procs)

LEMMA TidyIdling ==
    ASSUME Formed, Situated, Tidy, NEW t \in Threads, Idling(t), history' = history
    PROVE  Tidy'
  <1>1. todo[t] # <<>> /\ Head(todo[t]) \notin {"kill.viewer", "kill.tunnel"}
    BY DEF Idling, Advances, Watched
  <1>2. ProcessTypes'
    BY DEF Idling, ProcessTypes, Tidy
  <1>3. Running' = Running /\ \A p : Same(p) /\ (Named(p)' <=> Named(p))
    BY DEF Idling, Running, Live, Same, Named
  <1>4. \A p : ~Awaited(t, p)
    BY AwaitedHead DEF Idling
  <1>5. ~mixed => Ended(t)'
    BY <1>1, <1>3, EndedMove DEF Idling, Tidy
  <1> QED BY <1>1, <1>2, <1>3, <1>4, <1>5, TidyMove DEF Idling

\* A step that sets at most a local variable that is neither the instance nor
\* the pid.
LEMMA IdlesOn ==
    ASSUME Formed, ProcessTypes, NEW t \in Threads, todo[t] # <<>>, Head(todo[t]) \notin Watched,
           \/ Go(t) \/ Bail(t) \/ UNCHANGED todo
           \/ Head(todo[t]) \in {"control", "ca"} /\ Skip(t, 2)
           \/ Head(todo[t]) = "ports" /\ Skip(t, 3),
           \/ UNCHANGED loc
           \/ \E f \in {"port", "ca", "pair", "flag", "rows"} : \E v :
                 loc' = [loc EXCEPT ![t] = [loc[t] EXCEPT ![f] = v]],
           UNCHANGED <<procs, pidfile, leaked>>
    PROVE  Idling(t)
  <1>1. Advances(todo[t], todo'[t]) /\ \A u \in Threads \ {t} : todo'[u] = todo[u]
    BY Advancing
  <1>2. /\ \A u \in Threads \ {t} : loc'[u] = loc[u]
        /\ loc'[t].inst = loc[t].inst /\ loc'[t].pid = loc[t].pid
    <2>1. CASE UNCHANGED loc
      BY <2>1
    <2>2. ASSUME NEW f \in {"port", "ca", "pair", "flag", "rows"}, NEW v,
                 loc' = [loc EXCEPT ![t] = [loc[t] EXCEPT ![f] = v]]
          PROVE  /\ \A u \in Threads \ {t} : loc'[u] = loc[u]
                 /\ loc'[t].inst = loc[t].inst /\ loc'[t].pid = loc[t].pid
      <3>1. /\ DOMAIN loc = Threads /\ DOMAIN loc[t] = Fields /\ "inst" \in Fields /\ "pid" \in Fields
        BY DEF Formed, Fields
      <3> QED BY <2>2, <3>1
    <2> QED BY <2>1, <2>2
  <1>3. \A u \in Threads : loc'[u].pid \in 0 .. Len(procs)
    BY <1>2 DEF ProcessTypes
  <1> QED BY <1>1, <1>2, <1>3 DEF Idling, Mostly

\* The steps that do more to the processes.
Tending(t) ==
    \/ start_control_tunnel(t) \/ start_tunnel(t) \/ start_viewer_bg(t) \/ OpenView(t)
    \/ \E kind \in Kinds : WritePid(t, kind) \/ KillPid(t, kind)
    \/ KillOwnTunnel(t) \/ wait_viewer(t)

LEMMA StepIdles ==
    ASSUME Formed, Situated, Tidy, NEW t \in Threads, Step(t)
    PROVE  Idling(t) \/ Tending(t)
  <1> DEFINE P == /\ todo[t] # <<>> /\ Head(todo[t]) \notin Watched
                  /\ \/ Go(t) \/ Bail(t) \/ UNCHANGED todo
                     \/ Head(todo[t]) \in {"control", "ca"} /\ Skip(t, 2)
                     \/ Head(todo[t]) = "ports" /\ Skip(t, 3)
                  /\ \/ UNCHANGED loc
                     \/ \E f \in {"port", "ca", "pair", "flag", "rows"} : \E v :
                           loc' = [loc EXCEPT ![t] = [loc[t] EXCEPT ![f] = v]]
                  /\ UNCHANGED <<procs, pidfile, leaked>>
             Q == Idling(t) \/ Tending(t)
  <1>0. ASSUME P PROVE Q
    BY <1>0, IdlesOn DEF Tidy
  <1>p. ProcessTypes /\ Len(procs) \in Nat
    BY DEF Tidy, ProcessTypes
  <1>l. DOMAIN loc = Threads /\ DOMAIN loc[t] = Fields /\ DOMAIN todo = Threads /\ "inst" \in Fields /\ "pid" \in Fields
    BY DEF Formed, Fields
  <1>1. ASSUME Exit(t), UNCHANGED <<stackVars, hostVars, libraryVars, mix>> PROVE Q
    <2>1. /\ todo[t] # <<>> /\ Head(todo[t]) = "exit" /\ todo' = [todo EXCEPT ![t] = <<>>]
          /\ loc' = [loc EXCEPT ![t] = NoContext] /\ UNCHANGED <<procs, pidfile, leaked>>
      BY <1>1 DEF Exit, At, stackVars, ownVars
    <2>2. Advances(todo[t], todo'[t]) /\ todo'[t] = <<>> /\ \A u \in Threads \ {t} : todo'[u] = todo[u]
      BY <1>l, <2>1, Advancing
    <2>3. loc'[t].pid = 0 /\ \A u \in Threads \ {t} : loc'[u] = loc[u]
      BY <1>l, <2>1 DEF NoContext
    <2>4. \A u \in Threads : loc'[u].pid \in 0 .. Len(procs)
      BY <1>p, <2>3 DEF ProcessTypes
    <2> QED BY <2>1, <2>2, <2>3, <2>4 DEF Idling, Mostly, Watched
  <1>2. ASSUME StackStep(t), UNCHANGED <<hostVars, libraryVars, mix>> PROVE Q
    <2>1. CASE ReadPorts(t)
      BY <1>0, <2>1 DEF ReadPorts, At, stackVars, ownVars, Watched
    <2>2. CASE WritePorts(t) \/ RenamePorts(t)
      BY <1>0, <2>2 DEF WritePorts, RenamePorts, Write, Rename, At, stackVars, ownVars, Watched
    <2>3. CASE \/ start_control_tunnel(t) \/ start_tunnel(t) \/ start_viewer_bg(t) \/ OpenView(t)
               \/ (\E kind \in Kinds : WritePid(t, kind)) \/ (\E kind \in Kinds : KillPid(t, kind))
               \/ KillOwnTunnel(t) \/ wait_viewer(t)
      BY <2>3 DEF Tending
    <2>4. CASE ReadViewer(t)
      <3>1. /\ todo[t] # <<>> /\ Head(todo[t]) = "readviewer" /\ Go(t)
            /\ loc' = [loc EXCEPT ![t].pid = pidfile[<<I(t), "viewer">>]] /\ UNCHANGED <<procs, pidfile, leaked>>
        BY <2>4 DEF ReadViewer, At, stackVars, ownVars
      <3>2. Advances(todo[t], todo'[t]) /\ \A u \in Threads \ {t} : todo'[u] = todo[u]
        BY <3>1, Advancing
      <3>3. I(t) \in Insts
        <4>1. "readviewer" \notin StoreSteps \cup {"exit"}
          BY DEF StoreSteps, Edits
        <4> QED BY <3>1, <4>1, AtInstance
      <3>4. pidfile[<<I(t), "viewer">>] \in 0 .. Len(procs)
        BY <1>p, <3>3 DEF ProcessTypes, Kinds
      <3>5. /\ loc'[t].inst = loc[t].inst /\ loc'[t].pid \in 0 .. Len(procs)
            /\ \A u \in Threads \ {t} : loc'[u] = loc[u]
        BY <1>l, <3>1, <3>4
      <3>6. \A u \in Threads : loc'[u].pid \in 0 .. Len(procs)
        BY <1>p, <3>5 DEF ProcessTypes
      <3> QED BY <3>1, <3>2, <3>5, <3>6 DEF Idling, Mostly, Watched
    <2>5. CASE start_server(t) \/ StopInstance(t)
      BY <1>0, <2>5 DEF start_server, StopInstance, Call, Run, At, Watched
    <2>6. CASE wait_ping(t) \/ ping(t) \/ CtlStatus(t) \/ Tool(t)
      BY <1>0, <2>6 DEF wait_ping, ping, CtlStatus, Tool, Run, At, stackVars, ownVars, Watched
    <2>7. CASE wait_socket(t) \/ launch_app(t)
      BY <1>0, <2>7 DEF wait_socket, launch_app, Call, Run, At, Watched
    <2>8. CASE ControlStep(t) /\ UNCHANGED ownVars
      <3>1. UNCHANGED <<procs, pidfile, leaked>>
        BY <2>8 DEF ownVars
      <3>2. CASE tls_bootstrap(t)
        BY <1>0, <3>1, <3>2 DEF tls_bootstrap, Mint, WritePem, At, Watched
      <3>3. CASE \E leaf \in {"server", "client"} : WriteCert(t, leaf)
        BY <1>0, <3>1, <3>3 DEF WriteCert, WritePem, At, Watched
      <3>6. CASE \E field \in {"key", "serverkey", "clientkey"} : write_secret(t, field)
        BY <1>0, <3>1, <3>6 DEF write_secret, WritePem, At, Watched
      <3>4. CASE CopyTls(t) \/ controld_install(t)
        BY <1>0, <3>1, <3>4 DEF CopyTls, controld_install, At, Watched
      <3>5. CASE fetch_control_token(t) \/ controld_uninstall(t)
        BY <1>0, <3>1, <3>5 DEF fetch_control_token, controld_uninstall, Run, At, Watched
      <3> QED BY <2>8, <3>2, <3>3, <3>4, <3>5, <3>6 DEF ControlStep
    <2>9. CASE SpawnAppId(t)
      <3>1. UNCHANGED <<procs, pidfile, leaked>>
        BY <2>9 DEF SpawnAppId, stackVars, ownVars
      <3>2. Advances(todo[t], todo'[t]) /\ Head(todo[t]) = "app-id" /\ loc'[t] = loc[t]
        BY <2>9, SpawnFacts DEF Advances
      <3>3. todo'[Side(t)] \in Seq(AsideSteps) /\ Side(t) \in Sides /\ Side(t)[1] = t[1]
        BY <2>9, SpawnFacts, AsideList, Zenon DEF Side
      <3>4. Mostly(t)
        BY <2>9, <3>3, SpawnFacts, Zenon DEF Mostly
      <3>5. \A u \in Threads : loc'[u].pid \in 0 .. Len(procs)
        <4>1. \A u \in Threads : loc'[u] = loc[u] \/ loc'[u] = loc[t]
          BY <2>9, SpawnFacts, Zenon
        <4> QED BY <1>p, <4>1 DEF ProcessTypes
      <3> QED BY <3>1, <3>2, <3>4, <3>5 DEF Idling, Watched
    <2> QED BY <1>2, <2>1, <2>2, <2>3, <2>4, <2>5, <2>6, <2>7, <2>8, <2>9 DEF StackStep
  <1>3. ASSUME HostStep(t), UNCHANGED <<libraryVars, mix>> PROVE Q
    <2>s. ASSUME UNCHANGED same PROVE UNCHANGED <<loc, procs, pidfile, leaked>>
      BY <2>s DEF same, stackVars, ownVars
    <2>1. CASE find_one(t) \/ set_password(t) \/ delete_password(t) \/ Forget(t)
      BY <1>0, <2>s, <2>1 DEF find_one, set_password, delete_password, Forget, At, Watched
    <2>2. CASE LoadHosts(t) \/ LoadOverrides(t)
      BY <1>0, <2>s, <2>2 DEF LoadHosts, LoadOverrides, Run, At, Watched
    <2>3. CASE \E step \in Edits : Edit(t, step)
      BY <1>0, <2>s, <2>3 DEF Edit, Edits, Write, At, Watched
    <2>4. CASE save(t) \/ save_overrides(t)
      BY <1>0, <2>s, <2>4 DEF save, save_overrides, Rename, At, Watched
    <2>5. CASE control_cmd(t) \/ delete_vm(t)
      BY <1>0, <2>s, <2>5 DEF control_cmd, delete_vm, At, Watched
    <2> QED BY <1>3, <2>1, <2>2, <2>3, <2>4, <2>5 DEF HostStep
  <1>4. ASSUME LibraryStep(t), UNCHANGED mix PROVE Q
    <2>0. ASSUME UNCHANGED keep PROVE UNCHANGED <<procs, pidfile, leaked>>
      BY <2>0 DEF keep, stackVars, ownVars
    <2>1. CASE NeedCache(t) \/ Refresh(t) \/ TryCache(t)
      BY <1>0, <2>0, <2>1 DEF NeedCache, Refresh, TryCache, refresh_app_library, At, Watched
    <2>2. CASE find_app_record(t) \/ selected(t)
      BY <1>0, <2>0, <2>2 DEF find_app_record, selected, At, Watched
    <2>3. CASE fetch_guest_icons(t) \/ TryIcons(t)
      BY <1>0, <2>0, <2>3 DEF fetch_guest_icons, TryIcons, At, Watched
    <2>4. CASE WriteApp(t) \/ WriteContext(t)
      BY <1>0, <2>0, <2>4 DEF WriteApp, WriteContext, At, Watched
    <2>5. CASE remove_launcher_app(t)
      BY <1>0, <2>0, <2>5 DEF remove_launcher_app, At, Watched
    <2>6. CASE write_if_changed(t)
      BY <1>0, <2>0, <2>6 DEF write_if_changed, At, Watched
    <2>7. CASE swiftc(t)
      BY <1>0, <2>0, <2>7 DEF swiftc, Compile, At, Watched
    <2>8. CASE Finish(t) \/ Open(t)
      BY <1>0, <2>0, <2>8 DEF Finish, Open, Run, At, Watched
    <2>9. CASE NextBundle(t)
      <3>1. todo[t] # <<>> /\ Head(todo[t]) = "bundle" /\ UNCHANGED keep /\ (Go(t) \/ Jump(t, NextBundleSteps))
        BY <2>9 DEF NextBundle, NextBundleSteps, At
      <3>2. Advances(todo[t], todo'[t]) /\ \A u \in Threads \ {t} : todo'[u] = todo[u]
        BY <3>1, Advancing
      <3>3. UNCHANGED loc \/ \E a : loc' = [loc EXCEPT ![t].inst = a, ![t].port = Base, ![t].rows = @ \ {a}]
        BY <2>9 DEF NextBundle
      <3>4. loc'[t].pid = loc[t].pid /\ \A u \in Threads \ {t} : loc'[u] = loc[u]
        BY <1>l, <3>3
      <3>5. \A u \in Threads : loc'[u].pid \in 0 .. Len(procs)
        BY <1>p, <3>4 DEF ProcessTypes
      <3> QED BY <2>0, <3>1, <3>2, <3>4, <3>5 DEF Idling, Mostly, Watched, Begun
    <2> QED BY <1>4, <2>1, <2>2, <2>3, <2>4, <2>5, <2>6, <2>7, <2>8, <2>9 DEF LibraryStep
  <1> QED BY <1>1, <1>2, <1>3, <1>4 DEF Step

\* While a thread is not about to name a process or waiting for one, pid
\* files name all that run.
LEMMA OnlyNamed ==
    ASSUME Situated, Tidy, ~mixed, NEW t \in Threads, todo[t] # <<>>, Head(todo[t]) \notin AsideSteps,
           Head(todo[t]) \notin {"pid.viewer", "pid.tunnel", "pid.control", "waitviewer"}, NEW p \in Running
    PROVE  Named(p)
  <1> SUFFICES ASSUME NEW u \in Threads, Awaited(u, p) PROVE FALSE
    BY DEF Tidy
  <1>1. \A v \in Sides : v \in Threads /\ todo[v] \in Seq(AsideSteps)
    BY DEF Situated, Sides, Threads
  <1>2. t \notin Sides /\ u \notin Sides
    BY <1>1, AwaitedHead, AsideHeads
  <1>3. todo[u] # <<>> /\ u[1] = t[1]
    BY DEF Tidy, Single, Awaited
  <1>4. u = t
    BY <1>2, <1>3 DEF Sides, Threads
  <1> QED BY <1>4 DEF Awaited

\* A process is started.
LEMMA TidySpawn ==
    ASSUME Formed, Situated, Tidy, NEW t \in Threads, todo[t] # <<>>, Go(t), history' = history, leaked' = leaked,
           NEW kind \in Kinds \cup {"bundle"}, I(t) \in Insts,
           \/ (Head(todo[t]) = "control" /\ kind = "control")
           \/ (Head(todo[t]) = "tunnel" /\ kind = "tunnel")
           \/ (Head(todo[t]) = "viewer" /\ kind = "viewer")
           \/ (Head(todo[t]) = "view" /\ kind = "bundle"),
           NEW ps, \E S : ps \in Seq(S), Len(ps) = Len(procs),
           \A p \in DOMAIN procs : /\ DOMAIN ps[p] = DOMAIN procs[p]
                                   /\ ps[p].kind = procs[p].kind /\ ps[p].inst = procs[p].inst
                                   /\ ps[p].alive => procs[p].alive,
           Spawn(t, kind, loc[t].port, ps) \/ Spawn(t, kind, Ctl, ps),
           pidfile' \in [Insts \X Kinds -> 0 .. Len(procs)],
           \A p \in DOMAIN procs : ps[p].alive /\ Named(p) => pidfile'[<<procs[p].inst, procs[p].kind>>] = p
    PROVE  Tidy'
  <1>1. Advances(todo[t], todo'[t]) /\ \A u \in Threads \ {t} : todo'[u] = todo[u]
    BY Advancing
  <1>2. todo[t] \in Seq(Words) /\ Fit(todo[t]) /\ todo'[t] = Tail(todo[t])
    BY DEF Formed, Situated, Go
  <1>3. /\ Tail(todo[t]) # <<>>
        /\ Head(todo[t]) = "control" => Head(Tail(todo[t])) = "pid.control"
        /\ Head(todo[t]) = "tunnel" => Head(Tail(todo[t])) = "pid.tunnel"
        /\ Head(todo[t]) = "viewer" => Head(Tail(todo[t])) = "pid.viewer"
        /\ Head(todo[t]) = "view" => Head(Tail(todo[t])) = "waitviewer"
    <2>1. PICK s : s = todo[t]
      OBVIOUS
    <2>2. s \in Seq(Words) /\ s # <<>> /\ Chained(s) /\ Head(s) \in {"control", "tunnel", "viewer", "view"}
      BY <1>2, <2>1 DEF Fit
    <2> HIDE <2>1
    <2>3. Len(s) \in Nat /\ Head(s) = s[1] /\ s[Len(s)] = "exit" /\ Len(s) # 0
      BY <2>2 DEF Chained
    <2>4. Len(s) >= 2
      BY <2>2, <2>3
    <2>5. Link(s[1], s[2])
      BY <2>2, <2>3, <2>4 DEF Chained
    <2>6. Rest(s, 1, Tail(s))
      BY <2>2, RestOf
    <2>7. Tail(s) \in Seq(Words) /\ Len(Tail(s)) = Len(s) - 1 /\ \A k \in 1 .. Len(Tail(s)) : Tail(s)[k] = s[k + 1]
      BY <2>6 DEF Rest
    <2>8. 1 \in 1 .. Len(Tail(s))
      BY <2>3, <2>4, <2>7
    <2>9. Tail(s)[1] = s[2]
      BY <2>7, <2>8
    <2>10. Tail(s) # <<>> /\ Head(Tail(s)) = Tail(s)[1]
      <3>1. PICK r : r = Tail(s)
        OBVIOUS
      <3>2. r \in Seq(Words) /\ 1 \in 1 .. Len(r)
        BY <2>7, <2>8, <3>1
      <3> HIDE <3>1
      <3>3. r # <<>> /\ Head(r) = r[1]
        BY <3>2
      <3> QED BY <3>1, <3>3
    <2> QED BY <2>1, <2>3, <2>5, <2>9, <2>10 DEF Link
  <1>4. /\ DOMAIN loc = Threads /\ DOMAIN loc[t] = Fields /\ "inst" \in Fields /\ "pid" \in Fields
        /\ loc' = [loc EXCEPT ![t].pid = Len(ps) + 1]
    BY DEF Formed, Fields, Spawn
  <1>5. loc'[t].inst = loc[t].inst /\ loc'[t].pid = Len(ps) + 1 /\ \A u \in Threads \ {t} : loc'[u] = loc[u]
    BY <1>4
  <1>6. PICK x : /\ procs' = Append(ps, x)
                 /\ x.kind = kind /\ x.inst = I(t) /\ {"kind", "inst", "alive"} \subseteq DOMAIN x
    BY DEF Spawn
  <1>n. PICK n : n = Len(procs)
    OBVIOUS
  <1>7. /\ n \in Nat /\ DOMAIN procs = 1 .. n
        /\ \E S : procs' \in Seq(S)
        /\ Len(procs') = n + 1 /\ DOMAIN procs' = 1 .. n + 1 /\ procs'[n + 1] = x
        /\ \A p \in 1 .. n : procs'[p] = ps[p]
    <2>1. n \in Nat /\ DOMAIN procs = 1 .. n
      BY <1>n DEF Tidy, ProcessTypes
    <2>2. PICK S : ps \in Seq(S)
      OBVIOUS
    <2>3. procs' = Append(ps, x) /\ Len(ps) = n
      BY <1>6, <1>n
    <2>4. Grown(ps, x, Append(ps, x))
      BY <2>2, SpawnList
    <2>5. Grown(ps, x, procs')
      BY <2>3, <2>4, Zenon
    <2> QED BY <2>1, <2>3, <2>5 DEF Grown
  <1>8. ProcessTypes'
    <2>1. \A p \in DOMAIN procs' :
             /\ {"kind", "inst", "alive"} \subseteq DOMAIN procs'[p]
             /\ procs'[p].kind \in Kinds \cup {"bundle"} /\ procs'[p].inst \in Insts
      <3>1. \A p \in 1 .. n : /\ {"kind", "inst", "alive"} \subseteq DOMAIN procs[p]
                              /\ procs[p].kind \in Kinds \cup {"bundle"} /\ procs[p].inst \in Insts
        BY <1>7 DEF Tidy, ProcessTypes
      <3>2. \A p \in 1 .. n + 1 : p \in 1 .. n \/ p = n + 1
        BY <1>7
      <3> QED BY <1>6, <1>7, <3>1, <3>2
    <2>2. pidfile' \in [Insts \X Kinds -> 0 .. Len(procs')]
      <3>1. 0 .. n \subseteq 0 .. n + 1
        BY <1>7
      <3> QED BY <1>7, <1>n, <3>1
    <2>3. \A u \in Threads : loc'[u].pid \in 0 .. Len(procs')
      <3>1. \A u \in Threads : loc[u].pid \in 0 .. n
        BY <1>n DEF Tidy, ProcessTypes
      <3> QED BY <1>5, <1>7, <1>n, <3>1
    <2> QED BY <1>7, <2>1, <2>2, <2>3 DEF ProcessTypes
  <1>9. ASSUME NEW p \in Running', p # n + 1
        PROVE  p \in Running /\ Same(p) /\ (Named(p) => Named(p)')
    <2>1. p \in 1 .. n /\ procs'[p] = ps[p] /\ ps[p].alive /\ p \notin leaked
      BY <1>7, <1>9 DEF Running, Live
    <2>2. p \in Running /\ Same(p)
      BY <1>7, <2>1 DEF Running, Live, Same
    <2> QED BY <1>7, <2>1, <2>2 DEF Named, Same
  <1>10. Awaited(t, n + 1)'
    <2>1. todo'[t] # <<>> /\ loc'[t].pid = n + 1 /\ procs'[n + 1] = x
      BY <1>2, <1>3, <1>5, <1>7, <1>n
    <2>2. loc'[t].inst = procs'[n + 1].inst /\ procs'[n + 1].kind = kind
      BY <1>5, <1>6, <2>1 DEF I
    <2>3. \/ kind = "viewer" /\ Head(todo'[t]) = "pid.viewer"
          \/ kind = "tunnel" /\ Head(todo'[t]) = "pid.tunnel"
          \/ kind = "control" /\ Head(todo'[t]) = "pid.control"
          \/ kind = "bundle" /\ Head(todo'[t]) = "waitviewer"
      BY <1>2, <1>3
    <2> QED BY <2>1, <2>2, <2>3, Zenon DEF Awaited, I
  <1>11. \A p : ~Awaited(t, p)
    BY AwaitedHead DEF Watched
  <1>12. Head(todo[t]) \notin AsideSteps /\ (Head(todo[t]) \in Begun \/ kind = "control")
    BY DEF AsideSteps, Begun
  <1>13. ~mixed => Ended(t)'
    <2>1. \A p \in Running' :
             (p \in Running /\ Same(p)) \/ procs'[p].kind = "control" \/ Head(todo[t]) \in Begun
      BY <1>6, <1>7, <1>9, <1>12
    <2> QED BY <1>1, <1>5, <2>1, EndedMove DEF Tidy
  <1>14. \A p \in Running' :
            Named(p)' \/ Awaited(t, p)' \/ (p \in Running /\ ~Named(p) /\ ~Awaited(t, p) /\ Same(p))
    <2> SUFFICES ASSUME NEW p \in Running', p # n + 1
                 PROVE  Named(p)' \/ (p \in Running /\ ~Named(p) /\ ~Awaited(t, p) /\ Same(p))
      BY <1>10, Zenon
    <2> QED BY <1>9, <1>11
  <1>15. Mostly(t)
    BY <1>1, <1>5 DEF Mostly
  <1> QED BY <1>8, <1>12, <1>13, <1>14, <1>15, TidyMove

\* The process types after one has ended.
LEMMA ThinnedTypes ==
    ASSUME ProcessTypes, NEW k, Thinned(procs', k),
           pidfile' \in [Insts \X Kinds -> 0 .. Len(procs)],
           \A u \in Threads : loc'[u].pid \in 0 .. Len(procs)
    PROVE  /\ ProcessTypes'
           /\ leaked' = leaked => \A p \in Running' : p \in Running /\ Same(p) /\ p # k
  <1>1. \A p \in DOMAIN procs' : /\ {"kind", "inst", "alive"} \subseteq DOMAIN procs'[p]
                                 /\ procs'[p].kind \in Kinds \cup {"bundle"} /\ procs'[p].inst \in Insts
    BY DEF Thinned, ProcessTypes
  <1>2. ProcessTypes'
    BY <1>1 DEF Thinned, ProcessTypes
  <1> QED BY <1>2 DEF Thinned, Running, Live, Same

\* A process is killed.
LEMMA TidyKill ==
    ASSUME Formed, Situated, Tidy, NEW t \in Threads, todo[t] # <<>>, Go(t), UNCHANGED <<loc, leaked, history>>,
           I(t) \in Insts, NEW kind \in Kinds,
           Head(todo[t]) = KillSteps[kind] \/ (Head(todo[t]) = "kill.own" /\ kind = "control"),
           procs' = kill_pid_file(I(t), kind, procs),
           pidfile' = [pidfile EXCEPT ![<<I(t), kind>>] = 0]
    PROVE  Tidy'
  <1>1. Advances(todo[t], todo'[t]) /\ \A u \in Threads \ {t} : todo'[u] = todo[u]
    BY Advancing
  <1>2. ProcessTypes
    BY DEF Tidy
  <1>3. Thinned(procs', pidfile[<<I(t), kind>>])
    BY <1>2, KillList
  <1>4. <<I(t), kind>> \in Insts \X Kinds /\ Len(procs) \in Nat /\ pidfile \in [Insts \X Kinds -> 0 .. Len(procs)]
    BY <1>2 DEF ProcessTypes
  <1>5. PICK f : f = <<I(t), kind>>
    OBVIOUS
  <1>6. /\ pidfile' \in [Insts \X Kinds -> 0 .. Len(procs)]
        /\ \A g \in Insts \X Kinds : g # f => pidfile'[g] = pidfile[g]
    <2>1. pidfile' = [pidfile EXCEPT ![f] = 0]
      BY <1>5
    <2> QED BY <1>4, <2>1
  <1>7. \A u \in Threads : loc'[u].pid \in 0 .. Len(procs)
    BY <1>2 DEF ProcessTypes
  <1>8. ProcessTypes' /\ \A p \in Running' : p \in Running /\ Same(p) /\ p # pidfile[f]
    BY <1>2, <1>3, <1>5, <1>6, <1>7, ThinnedTypes
  <1>9. ASSUME NEW p \in Running', Named(p) PROVE Named(p)'
    <2>1. p \in Running /\ Same(p) /\ p # pidfile[f]
      BY <1>8
    <2>2. PICK g : g = <<procs[p].inst, procs[p].kind>>
      OBVIOUS
    <2>3. pidfile[g] = p /\ procs[p].kind # "bundle"
      BY <1>9, <2>2 DEF Named
    <2>4. g # f /\ g \in Insts \X Kinds
      BY <1>2, <2>1, <2>2, <2>3 DEF ProcessTypes, Running, Live
    <2>5. pidfile'[g] = p
      BY <1>6, <2>3, <2>4
    <2>6. g = <<procs'[p].inst, procs'[p].kind>> /\ procs'[p].kind # "bundle"
      BY <2>1, <2>2, <2>3 DEF Same
    <2> QED BY <2>5, <2>6 DEF Named
  <1>10. /\ Head(todo[t]) \in {"kill.viewer", "kill.tunnel", "kill.control", "kill.own"}
         /\ Head(todo[t]) = "kill.viewer" => kind = "viewer"
         /\ Head(todo[t]) = "kill.tunnel" => kind = "tunnel"
    BY DEF KillSteps, Kinds
  <1>11. Head(todo[t]) \notin AsideSteps
         /\ Head(todo[t]) \notin {"pid.viewer", "pid.tunnel", "pid.control", "waitviewer"}
    BY <1>10 DEF AsideSteps
  <1>12. \A p : ~Awaited(t, p)
    BY <1>11 DEF Awaited
  <1>13. ASSUME ~mixed PROVE Ended(t)'
    <2>0. Ended(t) /\ loc'[t].inst = I(t)
      BY <1>13 DEF Tidy, I
    <2>1. CASE Head(todo[t]) \notin {"kill.viewer", "kill.tunnel"}
      BY <1>1, <1>8, <2>0, <2>1, EndedMove DEF I
    <2>2. ASSUME NEW p \in Running', procs'[p].inst = loc'[t].inst
          PROVE  procs'[p].kind # kind /\ procs'[p].kind # "bundle"
      <3>1. p \in Running /\ Same(p) /\ p # pidfile[f]
        BY <1>8
      <3>2. Named(p)
        BY <1>11, <1>13, <3>1, OnlyNamed
      <3> QED BY <1>5, <2>0, <2>2, <3>1, <3>2 DEF Named, Same
    <2>3. CASE Head(todo[t]) = "kill.viewer"
      <3>1. Past(todo'[t], "kill.tunnel", "kill.control") => Past(todo[t], "kill.tunnel", "kill.control")
        BY <1>1, <2>3, PhaseOpens
      <3>2. Past(todo'[t], "kill.tunnel", "kill.control") =>
               \A p \in Running' : procs'[p].inst = loc'[t].inst => procs'[p].kind # "tunnel"
        BY <1>8, <2>0, <3>1 DEF Ended, Same
      <3>3. \A p \in Running' : procs'[p].inst = loc'[t].inst => procs'[p].kind \notin {"viewer", "bundle"}
        BY <1>10, <2>2, <2>3
      <3> QED BY <3>2, <3>3 DEF Ended, I
    <2>4. CASE Head(todo[t]) = "kill.tunnel"
      <3>1. Past(todo'[t], "kill.viewer", "kill.control") => Past(todo[t], "kill.viewer", "kill.control")
        BY <1>1, <2>4, PhaseOpens
      <3>2. Past(todo'[t], "kill.viewer", "kill.control") =>
               \A p \in Running' : procs'[p].inst = loc'[t].inst => procs'[p].kind \notin {"viewer", "bundle"}
        BY <1>8, <2>0, <3>1 DEF Ended, Same
      <3>3. \A p \in Running' : procs'[p].inst = loc'[t].inst => procs'[p].kind # "tunnel"
        BY <1>10, <2>2, <2>4
      <3> QED BY <3>2, <3>3 DEF Ended, I
    <2> QED BY <2>1, <2>3, <2>4
  <1>14. Mostly(t)
    BY <1>1 DEF Mostly
  <1>15. \A p \in Running' :
            Named(p)' \/ Awaited(t, p)' \/ (p \in Running /\ ~Named(p) /\ ~Awaited(t, p) /\ Same(p))
    BY <1>8, <1>9, <1>12
  <1> QED BY <1>8, <1>11, <1>13, <1>14, <1>15, TidyMove

\* A pid file is written.
LEMMA TidyWrite ==
    ASSUME Formed, Situated, Tidy, NEW t \in Threads, NEW kind \in Kinds, WritePid(t, kind)
    PROVE  Tidy'
  <1>1. /\ todo[t] # <<>> /\ Head(todo[t]) = PidSteps[kind] /\ Go(t) /\ UNCHANGED <<loc, procs, history>>
        /\ leaked' = leaked \cup ({pidfile[<<I(t), kind>>]} \cap Live)
        /\ pidfile' = [pidfile EXCEPT ![<<I(t), kind>>] = loc[t].pid]
    BY DEF WritePid, At, others
  <1>2. Advances(todo[t], todo'[t]) /\ \A u \in Threads \ {t} : todo'[u] = todo[u]
    BY <1>1, Advancing
  <1>3. /\ Head(todo[t]) \in {"pid.viewer", "pid.tunnel", "pid.control"}
        /\ Head(todo[t]) = "pid.viewer" => kind = "viewer"
        /\ Head(todo[t]) = "pid.tunnel" => kind = "tunnel"
        /\ Head(todo[t]) = "pid.control" => kind = "control"
    BY <1>1 DEF PidSteps, Kinds
  <1>4. I(t) \in Insts
    <2>1. Head(todo[t]) \notin StoreSteps \cup {"exit"}
      BY <1>3 DEF StoreSteps, Edits
    <2> QED BY <1>1, <2>1, AtInstance
  <1>5. /\ ProcessTypes /\ Len(procs) \in Nat /\ loc[t].pid \in 0 .. Len(procs)
        /\ pidfile \in [Insts \X Kinds -> 0 .. Len(procs)]
    BY DEF Tidy, ProcessTypes
  <1>6. PICK f : f = <<I(t), kind>>
    OBVIOUS
  <1>7. /\ f \in Insts \X Kinds /\ pidfile' \in [Insts \X Kinds -> 0 .. Len(procs)]
        /\ pidfile'[f] = loc[t].pid /\ \A g \in Insts \X Kinds : g # f => pidfile'[g] = pidfile[g]
    <2>1. pidfile' = [pidfile EXCEPT ![f] = loc[t].pid] /\ f \in Insts \X Kinds
      BY <1>1, <1>4, <1>6
    <2> QED BY <1>5, <2>1
  <1>8. ProcessTypes'
    BY <1>1, <1>5, <1>7 DEF ProcessTypes
  <1>9. \A p \in Running' : p \in Running /\ Same(p) /\ p # pidfile[f]
    BY <1>1, <1>6 DEF Running, Live, Same
  <1>10. ASSUME NEW p \in Running', Named(p) \/ Awaited(t, p) PROVE Named(p)'
    <2>1. p \in Running /\ p # pidfile[f]
      BY <1>9
    <2>2. PICK g : g = <<procs[p].inst, procs[p].kind>>
      OBVIOUS
    <2>3. CASE Named(p)
      <3>1. pidfile[g] = p /\ procs[p].kind # "bundle"
        BY <2>2, <2>3 DEF Named
      <3>2. g # f /\ g \in Insts \X Kinds
        BY <1>5, <2>1, <2>2, <3>1 DEF ProcessTypes, Running, Live
      <3>3. pidfile'[g] = p
        BY <1>7, <3>1, <3>2
      <3> QED BY <1>1, <2>2, <3>1, <3>3 DEF Named
    <2>4. CASE Awaited(t, p)
      <3>1. loc[t].pid = p /\ I(t) = procs[p].inst /\ procs[p].kind = kind
        BY <1>3, <2>4 DEF Awaited
      <3>2. g = f /\ kind # "bundle"
        BY <1>6, <2>2, <3>1 DEF Kinds
      <3>3. pidfile'[g] = p
        BY <1>7, <3>1, <3>2
      <3> QED BY <1>1, <2>2, <3>1, <3>2, <3>3 DEF Named
    <2> QED BY <1>10, <2>3, <2>4
  <1>11. ~mixed => Ended(t)'
    BY <1>1, <1>2, <1>3, <1>9, EndedMove DEF Tidy
  <1>12. Mostly(t) /\ Head(todo[t]) \notin AsideSteps
    BY <1>1, <1>2, <1>3 DEF Mostly, AsideSteps
  <1>13. \A p \in Running' :
            Named(p)' \/ Awaited(t, p)' \/ (p \in Running /\ ~Named(p) /\ ~Awaited(t, p) /\ Same(p))
    BY <1>9, <1>10
  <1> QED BY <1>1, <1>8, <1>11, <1>12, <1>13, TidyMove

\* The viewer a command has waited for is closed.
LEMMA TidyWait ==
    ASSUME Formed, Situated, Tidy, NEW t \in Threads, wait_viewer(t)
    PROVE  Tidy'
  <1>1. /\ todo[t] # <<>> /\ Head(todo[t]) = "waitviewer" /\ Go(t) /\ ~Alive(loc[t].pid)
        /\ UNCHANGED <<loc, procs, pidfile, leaked, history>>
    BY DEF wait_viewer, At, others, stackVars, ownVars
  <1>2. Advances(todo[t], todo'[t]) /\ \A u \in Threads \ {t} : todo'[u] = todo[u]
    BY <1>1, Advancing
  <1>3. ProcessTypes'
    BY <1>1 DEF ProcessTypes, Tidy
  <1>4. Running' = Running /\ \A p : Same(p) /\ (Named(p)' <=> Named(p))
    BY <1>1 DEF Running, Live, Same, Named
  <1>5. \A p \in Running : ~Awaited(t, p)
    <2>1. \A p \in Running : procs[p].alive /\ p # 0
      BY DEF Running, Live, Tidy, ProcessTypes
    <2> QED BY <1>1, <2>1 DEF Awaited, Alive
  <1>6. ~mixed => Ended(t)'
    BY <1>1, <1>2, <1>4, EndedMove DEF Tidy
  <1>7. Mostly(t) /\ Head(todo[t]) \notin AsideSteps
    BY <1>1, <1>2 DEF Mostly, AsideSteps
  <1> QED BY <1>1, <1>3, <1>4, <1>5, <1>6, <1>7, TidyMove

\* The steps that start, name and kill processes.
LEMMA TidyTending ==
    ASSUME Formed, Situated, Tidy, NEW t \in Threads, Tending(t), history' = history
    PROVE  Tidy'
  <1>0. \A s \in {"control", "tunnel", "viewer", "view", "kill.viewer", "kill.tunnel", "kill.control", "kill.own"} :
           todo[t] # <<>> /\ Head(todo[t]) = s => I(t) \in Insts
    <2>1. {"control", "tunnel", "viewer", "view", "kill.viewer", "kill.tunnel", "kill.control", "kill.own"}
             \cap (StoreSteps \cup {"exit"}) = {}
      BY DEF StoreSteps, Edits
    <2> QED BY <2>1, AtInstance
  <1>p. ProcessTypes /\ (\E S : procs \in Seq(S)) /\ pidfile \in [Insts \X Kinds -> 0 .. Len(procs)]
        /\ Len(procs) \in Nat
    BY DEF Tidy, ProcessTypes
  <1>1. CASE start_control_tunnel(t)
    <2>0. todo[t] # <<>> /\ Head(todo[t]) = "control" /\ leaked' = leaked /\ I(t) \in Insts
      BY <1>0, <1>1 DEF start_control_tunnel, At
    <2>1. CASE Listening(Ctl)
      <3>1. Skip(t, 2) /\ UNCHANGED <<loc, procs, pidfile, leaked>> /\ Head(todo[t]) \notin Watched
        BY <1>1, <2>0, <2>1 DEF start_control_tunnel, Watched
      <3>2. Idling(t)
        BY <1>p, <2>0, <3>1, IdlesOn
      <3> QED BY <3>2, TidyIdling
    <2>2. CASE ~Listening(Ctl)
      <3>1. PICK ps : ps = kill_pid_file(I(t), "control", procs)
        OBVIOUS
      <3>2. Go(t) /\ Spawn(t, "control", Ctl, ps) /\ pidfile' = [pidfile EXCEPT ![<<I(t), "control">>] = 0]
        BY <1>1, <2>2, <3>1 DEF start_control_tunnel
      <3>3. "control" \in Kinds /\ "control" \in Kinds \cup {"bundle"}
        BY DEF Kinds
      <3>4. PICK f : f = <<I(t), "control">>
        OBVIOUS
      <3>5. Thinned(ps, pidfile[f])
        BY <1>p, <2>0, <3>1, <3>3, <3>4, KillList
      <3>6. /\ pidfile' \in [Insts \X Kinds -> 0 .. Len(procs)]
            /\ \A g \in Insts \X Kinds : g # f => pidfile'[g] = pidfile[g]
        <4>1. pidfile' = [pidfile EXCEPT ![f] = 0] /\ f \in Insts \X Kinds
          BY <2>0, <3>2, <3>3, <3>4
        <4> QED BY <1>p, <4>1
      <3>7. ASSUME NEW p \in DOMAIN procs, ps[p].alive, Named(p)
            PROVE  pidfile'[<<procs[p].inst, procs[p].kind>>] = p
        <4>1. PICK g : g = <<procs[p].inst, procs[p].kind>>
          OBVIOUS
        <4>2. pidfile[g] = p /\ procs[p].kind # "bundle"
          BY <3>7, <4>1 DEF Named
        <4>3. p # pidfile[f] /\ g \in Insts \X Kinds
          BY <1>p, <3>5, <3>7, <4>1, <4>2 DEF Thinned, ProcessTypes
        <4> QED BY <3>6, <4>1, <4>2, <4>3
      <3>8. /\ \E S : ps \in Seq(S)
            /\ Len(ps) = Len(procs)
            /\ \A p \in DOMAIN procs : /\ DOMAIN ps[p] = DOMAIN procs[p]
                                       /\ ps[p].kind = procs[p].kind /\ ps[p].inst = procs[p].inst
                                       /\ ps[p].alive => procs[p].alive
        BY <3>5 DEF Thinned
      <3> HIDE <3>1
      <3> QED BY <2>0, <3>2, <3>3, <3>6, <3>7, <3>8, TidySpawn
    <2> QED BY <2>1, <2>2
  <1>2. ASSUME NEW kind \in Kinds \cup {"bundle"}, todo[t] # <<>>, Go(t), UNCHANGED <<pidfile, leaked>>,
               \/ (Head(todo[t]) = "tunnel" /\ kind = "tunnel")
               \/ (Head(todo[t]) = "viewer" /\ kind = "viewer")
               \/ (Head(todo[t]) = "view" /\ kind = "bundle"),
               Spawn(t, kind, loc[t].port, procs)
        PROVE  Tidy'
    <2>1. I(t) \in Insts
      BY <1>0, <1>2
    <2>2. \A p \in DOMAIN procs : Named(p) => pidfile'[<<procs[p].inst, procs[p].kind>>] = p
      BY <1>2 DEF Named
    <2>3. PICK ps : ps = procs
      OBVIOUS
    <2>4. /\ \E S : ps \in Seq(S)
          /\ Len(ps) = Len(procs)
          /\ \A p \in DOMAIN procs : /\ DOMAIN ps[p] = DOMAIN procs[p]
                                     /\ ps[p].kind = procs[p].kind /\ ps[p].inst = procs[p].inst
                                     /\ ps[p].alive => procs[p].alive
          /\ Spawn(t, kind, loc[t].port, ps)
      BY <1>p, <1>2, <2>3, Zenon
    <2> QED BY <1>p, <1>2, <2>1, <2>2, <2>4, TidySpawn
  <1>3. CASE start_tunnel(t)
    BY <1>2, <1>3 DEF start_tunnel, At, Kinds
  <1>4. CASE start_viewer_bg(t)
    BY <1>2, <1>4 DEF start_viewer_bg, At, Kinds
  <1>5. CASE OpenView(t)
    BY <1>2, <1>5 DEF OpenView, At
  <1>6. ASSUME NEW kind \in Kinds, WritePid(t, kind) PROVE Tidy'
    BY <1>6, TidyWrite
  <1>7. ASSUME NEW kind \in Kinds, KillPid(t, kind) PROVE Tidy'
    <2>1. /\ todo[t] # <<>> /\ Head(todo[t]) = KillSteps[kind] /\ Go(t) /\ UNCHANGED <<loc, leaked, history>>
          /\ procs' = kill_pid_file(I(t), kind, procs) /\ pidfile' = [pidfile EXCEPT ![<<I(t), kind>>] = 0]
      BY <1>7 DEF KillPid, At
    <2>2. Head(todo[t]) \in {"kill.viewer", "kill.tunnel", "kill.control"}
      BY <2>1 DEF KillSteps, Kinds
    <2>3. I(t) \in Insts
      BY <1>0, <2>1, <2>2
    <2> QED BY <2>1, <2>3, TidyKill
  <1>8. CASE KillOwnTunnel(t)
    <2>1. todo[t] # <<>> /\ Head(todo[t]) = "kill.own" /\ Go(t) /\ UNCHANGED <<loc, leaked, history>>
      BY <1>8 DEF KillOwnTunnel, At
    <2>2. I(t) \in Insts
      BY <1>0, <2>1
    <2>3. CASE loc[t].pid = 0
      <3>1. UNCHANGED <<procs, pidfile>> /\ Head(todo[t]) \notin Watched
        BY <1>8, <2>1, <2>3 DEF KillOwnTunnel, Watched
      <3>2. Idling(t)
        BY <1>p, <2>1, <3>1, IdlesOn
      <3> QED BY <3>2, TidyIdling
    <2>4. CASE loc[t].pid # 0
      <3>1. /\ procs' = kill_pid_file(I(t), "control", procs) /\ "control" \in Kinds
            /\ pidfile' = [pidfile EXCEPT ![<<I(t), "control">>] = 0]
        BY <1>8, <2>4 DEF KillOwnTunnel, Kinds
      <3> QED BY <2>1, <2>2, <3>1, TidyKill
    <2> QED BY <2>3, <2>4
  <1>9. CASE wait_viewer(t)
    BY <1>9, TidyWait
  <1> QED BY <1>1, <1>3, <1>4, <1>5, <1>6, <1>7, <1>8, <1>9 DEF Tending

\* A process ends by itself, or a command ends it on its own way out.
LEMMA TidyDeath ==
    ASSUME Tidy, NEW k \in DOMAIN procs, procs' = [procs EXCEPT ![k].alive = FALSE],
           UNCHANGED <<todo, loc, pidfile, leaked, history>>
    PROVE  Tidy'
  <1>1. ProcessTypes
    BY DEF Tidy
  <1>2. Thinned(procs', k)
    BY <1>1, Dying
  <1>3. ProcessTypes' /\ \A p \in Running' : p \in Running /\ Same(p)
    BY <1>1, <1>2, ThinnedTypes DEF ProcessTypes
  <1>4. ASSUME ~mixed PROVE Single' /\ \A u \in Threads : Ended(u)'
    <2>1. Single /\ \A u \in Threads : Ended(u)
      BY <1>4 DEF Tidy
    <2> QED BY <1>3, <2>1 DEF Single, Ended, Same, I
  <1>5. ASSUME ~mixed, NEW p \in Running' PROVE Named(p)' \/ \E u \in Threads : Awaited(u, p)'
    <2>1. p \in Running /\ Same(p) /\ (Named(p) \/ \E u \in Threads : Awaited(u, p))
      BY <1>3, <1>5 DEF Tidy
    <2>2. CASE Named(p)
      BY <2>1, <2>2 DEF Named, Same
    <2>3. ASSUME NEW u \in Threads, Awaited(u, p) PROVE Awaited(u, p)'
      BY <2>1, <2>3 DEF Awaited, Same, I
    <2> QED BY <2>1, <2>2, <2>3
  <1> QED BY <1>3, <1>4, <1>5 DEF Tidy, mixed

\* A command begins.
LEMMA TidyBegin ==
    ASSUME Formed, Tidy, NEW q \in Procs, NEW i, NEW base, NEW s, Starting(q, i, base, s)
    PROVE  Tidy'
  <1>1. PICK t : t = Main(q)
    OBVIOUS
  <1>2. t \in Threads
    BY <1>1 DEF Main, Threads
  <1>3. /\ todo' = [todo EXCEPT ![t] = s] /\ loc' = [loc EXCEPT ![t] = Context(i, base)]
        /\ UNCHANGED <<procs, pidfile, leaked>>
        /\ ~Past(s, "kill.viewer", "kill.control") /\ ~Past(s, "kill.tunnel", "kill.control")
    BY <1>1 DEF Starting, Unbegun, stackVars, ownVars
  <1>4. /\ todo'[t] = s /\ loc'[t].pid = 0
        /\ \A u \in Threads \ {t} : todo'[u] = todo[u] /\ loc'[u] = loc[u]
    BY <1>2, <1>3 DEF Formed, Context, NoContext
  <1>5. ProcessTypes'
    <2>1. ProcessTypes /\ Len(procs) \in Nat
      BY DEF Tidy, ProcessTypes
    <2>2. \A u \in Threads : loc'[u].pid \in 0 .. Len(procs)
      BY <1>4, <2>1 DEF ProcessTypes
    <2> QED BY <1>3, <2>1, <2>2 DEF ProcessTypes
  <1>6. ASSUME ~mixed' PROVE ~mixed /\ \A u \in Threads : todo[u] = <<>>
    BY <1>6 DEF Starting, mixed, Quiet, Idle
  <1>7. ASSUME ~mixed', NEW p \in Running' PROVE Named(p)'
    <2>1. p \in Running
      BY <1>3 DEF Running, Live
    <2>2. \A u \in Threads : ~Awaited(u, p)
      BY <1>6, <1>7 DEF Awaited
    <2>3. Named(p)
      BY <1>6, <1>7, <2>1, <2>2 DEF Tidy
    <2> QED BY <1>3, <2>3 DEF Named
  <1>8. ASSUME ~mixed' PROVE Single'
    BY <1>4, <1>6, <1>8 DEF Single
  <1>9. ASSUME ~mixed', NEW u \in Threads PROVE Ended(u)'
    <2>1. ~Past(<<>>, "kill.viewer", "kill.control") /\ ~Past(<<>>, "kill.tunnel", "kill.control")
      BY Ends DEF Past, Kills
    <2>2. ~Past(todo'[u], "kill.viewer", "kill.control") /\ ~Past(todo'[u], "kill.tunnel", "kill.control")
      BY <1>3, <1>4, <1>6, <1>9, <2>1
    <2> QED BY <2>2 DEF Ended
  <1> QED BY <1>5, <1>7, <1>8, <1>9 DEF Tidy

\* Tidy is an invariant.
LEMMA TidyNext ==
    ASSUME Lined, Arguments, Situated, Tidy, [Next]_vars
    PROVE  Tidy'
  <1>0. Formed
    BY DEF Lined
  <1>1. ASSUME NEW p \in Procs, BeginCommand(p) PROVE Tidy'
    BY <1>0, <1>1, BeginStarts, TidyBegin
  <1>2. ASSUME NEW t \in Threads, Step(t) PROVE Tidy'
    <2>1. history' = history
      BY <1>0, <1>2, StepTracks DEF Tracks
    <2> QED BY <1>0, <1>2, <2>1, StepIdles, TidyIdling, TidyTending
  <1>3. ASSUME NEW p \in Procs, KillCommand(p) PROVE Tidy'
    <2>1. PICK t : t = Main(p)
      OBVIOUS
    <2>2. /\ t \in Threads /\ UNCHANGED <<loc, pidfile>> /\ mixed'
          /\ \/ procs' = procs
             \/ loc[t].pid # 0 /\ procs' = [procs EXCEPT ![loc[t].pid].alive = FALSE]
      BY <1>3, <2>1 DEF Main, Threads, KillCommand, Kill, Alive, mixed
    <2>3. ProcessTypes /\ Len(procs) \in Nat /\ DOMAIN procs = 1 .. Len(procs) /\ loc[t].pid \in 0 .. Len(procs)
      BY <2>2 DEF Tidy, ProcessTypes
    <2>4. CASE procs' = procs
      BY <2>2, <2>3, <2>4 DEF Tidy, ProcessTypes
    <2>5. CASE loc[t].pid # 0 /\ procs' = [procs EXCEPT ![loc[t].pid].alive = FALSE]
      <3>1. loc[t].pid \in DOMAIN procs
        BY <2>3, <2>5
      <3>2. Thinned(procs', loc[t].pid)
        BY <2>3, <2>5, <3>1, Dying
      <3>3. ProcessTypes'
        BY <2>2, <2>3, <3>2, ThinnedTypes DEF ProcessTypes
      <3> QED BY <2>2, <3>3 DEF Tidy
    <2> QED BY <2>2, <2>4, <2>5
  <1>4. ASSUME NEW p \in Live, CloseViewer(p) \/ TunnelDies(p) PROVE Tidy'
    <2>1. p \in DOMAIN procs /\ procs' = [procs EXCEPT ![p].alive = FALSE]
          /\ UNCHANGED <<todo, loc, pidfile, leaked, history>>
      BY <1>4 DEF CloseViewer, TunnelDies, Live, cliVars
    <2> QED BY <2>1, TidyDeath
  <1>5. ASSUME UNCHANGED <<todo, loc, procs, pidfile, leaked, history>> PROVE Tidy'
    BY <1>5 DEF Tidy, mixed, ProcessTypes, Single, Named, Awaited, Ended, Running, Live, I
  <1>6. ASSUME Upgrade \/ (DaemonRestarts /\ UNCHANGED ownVars) \/ UNCHANGED vars
        PROVE  UNCHANGED <<todo, loc, procs, pidfile, leaked, history>>
    BY <1>6 DEF Upgrade, DaemonRestarts, cliVars, stackVars, ownVars, vars
  <1> QED BY <1>1, <1>2, <1>3, <1>4, <1>5, <1>6 DEF Next, Surroundings

\* What changes a thread that has only the control tunnel left to kill.
LEMMA LastKill ==
    ASSUME Lined, Arguments, Situated, Tidy, [Next]_vars, NEW t \in Threads,
           todo[t] = <<"kill.control", "exit">>, todo'[t] # todo[t], ~mixed'
    PROVE  ~mixed /\ KillPid(t, "control")
  <1>0. Formed /\ todo[t] # <<>> /\ Head(todo[t]) = "kill.control"
    BY DEF Lined
  <1>1. ASSUME NEW p \in Procs, BeginCommand(p) PROVE FALSE
    <2>1. PICK i, base, s : Starting(p, i, base, s)
      BY <1>1, BeginStarts
    <2>2. Main(p) # t /\ todo' = [todo EXCEPT ![Main(p)] = s]
      BY <1>0, <2>1 DEF Starting, Free, Idle
    <2> QED BY <1>0, <2>2 DEF Formed
  <1>2. ASSUME NEW u \in Threads, Step(u), u # t PROVE FALSE
    <2>1. todo'[t] = todo[t] \/ t \in Sides
      BY <1>0, <1>2, StepTracks DEF Tracks, Moves
    <2>2. t \in Sides
      BY <2>1
    <2>3. Head(todo[t]) \in AsideSteps
      BY <1>0, <2>2, AsideHeads DEF Situated
    <2> QED BY <1>0, <2>3 DEF AsideSteps
  <1>3. ASSUME Step(t) PROVE ~mixed /\ KillPid(t, "control")
    <2>1. history' = history
      BY <1>0, <1>3, StepTracks DEF Tracks
    <2>2. Tending(t)
      BY <1>0, <1>3, StepIdles DEF Idling, Watched
    <2>3. KillPid(t, "control")
      BY <1>0, <2>2 DEF Tending, start_control_tunnel, start_tunnel, start_viewer_bg, OpenView, WritePid, KillPid,
                        KillOwnTunnel, wait_viewer, At, Kinds, PidSteps, KillSteps
    <2> QED BY <2>1, <2>3 DEF mixed
  <1>4. ASSUME NEW p \in Procs, KillCommand(p) PROVE FALSE
    BY <1>4 DEF KillCommand, Kill, mixed
  <1>5. ASSUME (\E p \in Live : CloseViewer(p) \/ TunnelDies(p)) \/ DaemonRestarts \/ Upgrade \/ UNCHANGED vars
        PROVE  FALSE
    BY <1>5 DEF CloseViewer, TunnelDies, DaemonRestarts, Upgrade, cliVars, vars
  <1> QED BY <1>1, <1>2, <1>3, <1>4, <1>5 DEF Next, Surroundings

\* StopIsClean: when `stop` has run, commands having run one at a time, no
\* process of the instance that a pid file named is left (runtime.rs's stop
\* and its kill_pid_file, whatever run, view, launch, status, a launcher and
\* failures on their way have started, named, overwritten and killed before).
THEOREM StopAlwaysClean == Spec => StopIsClean
  <1> DEFINE Inv == Lined /\ Arguments /\ Situated /\ Tidy
  <1>1. CommandsInit => Inv
    <2> SUFFICES ASSUME CommandsInit PROVE Tidy
      BY InitLined, InitSituated
    <2>1. /\ \A t \in Threads : todo[t] = <<>> /\ loc[t].pid = 0
          /\ procs = <<>> /\ leaked = {} /\ pidfile = [x \in Insts \X Kinds |-> 0]
      BY DEF CommandsInit, Init, StackInit, NoContext
    <2>2. procs \in Seq({}) /\ Len(procs) = 0 /\ DOMAIN procs = {}
      BY <2>1
    <2>3. ProcessTypes
      BY <2>1, <2>2 DEF ProcessTypes
    <2>4. Running = {}
      BY <2>2 DEF Running, Live
    <2> QED BY <2>1, <2>3, <2>4 DEF Tidy, Single, Ended
  <1>2. Inv /\ [Next]_vars => Inv'
    BY LinedNext, SituatedNext, TidyNext, NextKinds
  <1>3. ASSUME Inv, [Next]_vars, NEW t \in Threads,
               ~mixed', todo[t] = <<"kill.control", "exit">>, todo'[t] # todo[t],
               NEW p \in Live, procs[p].inst = I(t), procs'[p].alive, p \notin leaked
        PROVE  FALSE
    <2>1. ~mixed /\ KillPid(t, "control") /\ p \in Running
      BY <1>3, LastKill DEF Running
    <2>2. todo[t] # <<>> /\ Head(todo[t]) = "kill.control"
      BY <1>3
    <2>3. Past(todo[t], "kill.viewer", "kill.control") /\ Past(todo[t], "kill.tunnel", "kill.control")
      <3>1. Len(todo[t]) = 2 /\ todo[t][1] = "kill.control" /\ todo[t][2] = "exit"
        BY <1>3
      <3>2. \A k \in 1 .. Len(todo[t]) : k = 1 \/ k = 2
        BY <3>1
      <3>3. 1 \in 1 .. Len(todo[t])
        BY <3>1
      <3> QED BY <3>1, <3>2, <3>3 DEF Past, Has
    <2>4. procs[p].kind \notin {"viewer", "bundle", "tunnel"}
      BY <1>3, <2>1, <2>3 DEF Tidy, Ended
    <2>5. ProcessTypes /\ procs[p].kind \in Kinds \cup {"bundle"} /\ I(t) \in Insts /\ p \in DOMAIN procs
      BY <1>3 DEF Tidy, ProcessTypes, Live
    <2>6. procs[p].kind = "control" /\ "control" \in Kinds
      BY <2>4, <2>5 DEF Kinds
    <2>7. "kill.control" \notin AsideSteps
      BY DEF AsideSteps
    <2>8. Named(p)
      BY <1>3, <2>1, <2>2, <2>7, OnlyNamed
    <2>9. pidfile[<<I(t), "control">>] = p
      BY <1>3, <2>6, <2>8 DEF Named
    <2>10. Thinned(procs', p)
      BY <2>1, <2>5, <2>6, <2>9, KillList DEF KillPid
    <2> QED BY <1>3, <2>5, <2>10 DEF Thinned
  <1>4. Inv /\ [Next]_vars =>
           [\A t \in Threads : ~mixed' /\ todo[t] = <<"kill.control", "exit">> /\ todo'[t] # todo[t] =>
               \A p \in Live : procs[p].inst = I(t) /\ procs'[p].alive => p \in leaked]_vars
    BY <1>3
  <1> QED BY <1>1, <1>2, <1>4, PTL DEF Spec, StopIsClean
=============================================================================
