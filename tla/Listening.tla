----------------------------- MODULE Listening -----------------------------
(***************************************************************************)
(* How the proxy comes to listen: BindHost and Url read addresses, Config  *)
(* collects the hosts, TlsConfig makes a certificate with TlsGen when it   *)
(* has none, TlsContext loads it, and Proxy::connect binds a Server for    *)
(* each host.                                                              *)
(*                                                                         *)
(* An address is a sequence of tokens: brackets, colons, slashes, schemes, *)
(* numbers and words; Size and Number say how long a token is and what     *)
(* strtol makes of it.  A file of the pair is absent, torn or of one       *)
(* generation, and a pair fits when both are of the same.                  *)
(***************************************************************************)
EXTENDS Integers, Sequences, SequencesExt, FiniteSets

CONSTANTS Size, Number,     \* of a token
          IPv4, IPv6,       \* the hosts that uv_ip4_addr and uv_ip6_addr take
          AnyHost,          \* 0.0.0.0 and ::, for the hosts that are bound by default
          DefaultPort,
          Schemes,          \* of the tokens that are schemes: <<scheme, tls>>
          Confs,            \* configurations to start with
          SystemRefuses,    \* versions a new SSL_CTX is told to refuse
          NoHost,           \* a host that is null
          MaxMade, MaxRemoved, MaxFaults

Versions == {"TLSv1", "TLSv1.1", "TLSv1.2", "TLSv1.3"}

Anything  == DOMAIN Size
ListeningAssumption ==
    /\ Size \in [Anything -> Nat] /\ Number \in [Anything -> Nat] /\ DefaultPort \in 1 .. 2 ^ 16 - 1
    /\ SystemRefuses \subseteq Versions /\ {MaxMade, MaxRemoved, MaxFaults} \subseteq Nat

(* A file of the pair: of the generation n, none, or opened and not written.*)
Absent == -1
Torn   == 0

VARIABLES conf,    \* the configuration file: its bind list, its TLS, and the ports others hold
          hosts,   \* m_bind
          stage,   \* "off", "key", "write key", "cert", "write cert", "load", "bind", "up"
          pair,    \* the files TlsConfig names: "none", "own", "made"
          key, cert, \* cert_key.pem and cert.pem
          ctx,     \* m_tls: what was loaded and the versions it refuses
          at,      \* how many hosts have been tried
          servers, \* m_servers
          made, removed, faults

vars == <<conf, hosts, stage, pair, key, cert, ctx, at, servers, made, removed, faults>>

---------------------------------------------------------------------------
(* strchr() from a place on: where the token is, 0 when it is not there.   *)
Find(token, s, from) == SelectInSeq([i \in 1 .. Len(s) |-> IF i < from THEN <<>> ELSE <<s[i]>>],
                                    LAMBDA x : x = <<token>>)
Chars(s) == FoldLeft(LAMBDA n, t : n + Size[t], 0, s)

(* strtol() into an uint16_t.                                              *)
PortOf(s) == IF s = <<>> THEN 0 ELSE Number[s[1]] % 2 ^ 16
After(s, i) == SubSeq(s, i + 1, Len(s))

Unread == [version |-> 0, host |-> NoHost, port |-> 0, tls |-> FALSE]
Valid(h) == h.version > 0 /\ h.host # NoHost /\ h.port > 0

ParseIPv4(s) == LET colon == Find(":", s, 1)
                IN  IF colon = 0 THEN Unread
                    ELSE [Unread EXCEPT !.version = 4, !.host = SubSeq(s, 1, colon - 1),
                                        !.port = PortOf(After(s, colon))]

(* A host in brackets, the colon of the port anywhere behind them.         *)
ParseIPv6(s) == LET end   == Find("]", s, 1)
                    colon == Find(":", s, end)
                IN  IF end = 0 \/ colon = 0 THEN Unread
                    ELSE [Unread EXCEPT !.version = 6, !.host = SubSeq(s, 2, end - 1),
                                        !.port = PortOf(After(s, colon))]

(* The constructor that takes an address.                                  *)
BindHost(s) == CASE Chars(s) < 5 -> Unread
                 [] Chars(s) >= 5 /\ s[1] = "["  -> ParseIPv6(s)
                 [] Chars(s) >= 5 /\ s[1] # "["  -> ParseIPv4(s)

(* parseHost().                                                            *)
ParseHost(s) ==
    LET end == Find("]", s, 1)
    IN  CASE Chars(s) < 2 -> Unread
          [] Chars(s) >= 2 /\ s[1] = "[" /\ end = 0 -> Unread
          [] Chars(s) >= 2 /\ s[1] = "[" /\ end > 0 ->
                 [Unread EXCEPT !.version = 6, !.host = SubSeq(s, 2, end - 1)]
          [] Chars(s) >= 2 /\ s[1] # "[" ->
                 [Unread EXCEPT !.version = IF Find(":", s, 1) > 0 THEN 6 ELSE 4, !.host = s]

(* BindHost(object) and toJSON().                                          *)
FromJSON(o) == LET h == ParseHost(o.host)
               IN  IF h.version = 0 THEN Unread ELSE [h EXCEPT !.port = o.port % 2 ^ 16, !.tls = o.tls]
ToJSON(h)   == [host |-> h.host, port |-> h.port, tls |-> h.tls]

(* An entry of the list is an address or an object; an option is read as   *)
(* an address and put on the list as an object, or not at all.             *)
Entry(e) == CASE e.kind = "text"   -> BindHost(e.text)
              [] e.kind = "object" -> FromJSON(e.object)
              [] e.kind \in {"bind", "tls-bind"} ->
                     LET h == BindHost(e.text)
                     IN  IF Valid(h) THEN FromJSON([ToJSON(h) EXCEPT !.tls = (e.kind = "tls-bind")])
                         ELSE Unread

(* Config::read(): the hosts that can be used, or the default ones.        *)
ReadBind(list) ==
    LET read == SelectSeq([i \in DOMAIN list |-> Entry(list[i])], Valid)
    IN  IF read # <<>> THEN read
        ELSE <<[version |-> 4, host |-> AnyHost[1], port |-> DefaultPort, tls |-> FALSE],
               [version |-> 6, host |-> AnyHost[2], port |-> DefaultPort, tls |-> FALSE]>>

(* Url::parse().                                                           *)
NoUrl == [host |-> NoHost, port |-> DefaultPort, scheme |-> "none", tls |-> FALSE]
ParseUrl(s) ==
    LET named == \E i \in DOMAIN s : s[i] \in DOMAIN Schemes
        base  == IF named THEN Tail(s) ELSE s
        whose == IF named THEN [NoUrl EXCEPT !.scheme = Schemes[s[1]][1], !.tls = Schemes[s[1]][2]]
                 ELSE NoUrl
        h     == IF base[1] = "[" THEN ParseIPv6(base) ELSE ParseIPv4(base)
    IN  CASE s = <<>> -> NoUrl
          [] s # <<>> /\ named /\ (s[1] \notin DOMAIN Schemes \/ Schemes[s[1]][1] = "unknown") -> NoUrl
          [] OTHER -> IF base = <<>> \/ base[1] = "/" THEN whose
                      ELSE IF h.version > 0 THEN [whose EXCEPT !.host = h.host, !.port = h.port]
                      ELSE IF base[1] = "[" THEN whose ELSE [whose EXCEPT !.host = base]
UrlValid(u) == u.host # NoHost /\ u.port > 0

---------------------------------------------------------------------------
(* The TLS of a configuration: what its value is, and for an object which  *)
(* files it names ("none", "half" of them, its "own" or the "made" ones),  *)
(* whether its own load, the protocols listed and whether what it says of  *)
(* suites and parameters is any good.                                      *)
Object(c)    == c.tls.is = "object"
Named(c)     == IF Object(c) /\ c.tls.names \in {"own", "made"} THEN c.tls.names ELSE "none"
Protocols(c) == IF Object(c) THEN c.tls.protocols \cap Versions ELSE {}

(* TlsConfig(value): a pair is asked for unless it is named or unwanted.   *)
Generates(c) == \/ c.tls.is = "auto"
                \/ Object(c) /\ c.tls.enabled /\ Named(c) = "none"

(* isFileExist() of both.                                                  *)
BothThere == key # Absent /\ cert # Absent

(* The program reads its configuration; TlsGen::generate() returns at once *)
(* when there are both files.                                              *)
Read == /\ stage = "off"
        /\ hosts' = ReadBind(conf.bind)
        /\ \/ /\ Generates(conf) /\ ~BothThere /\ made < MaxMade
              /\ stage' = "key" /\ pair' = "none"
           \/ /\ Generates(conf) => BothThere
              /\ stage' = "load" /\ pair' = IF Generates(conf) THEN "made" ELSE Named(conf)
        /\ UNCHANGED <<conf, key, cert, ctx, at, servers, made, removed, faults>>

(* A file that cannot be opened or written ends it: generate() logs what   *)
(* was thrown and names no files.                                          *)
GiveUp == stage' = "load" /\ faults < MaxFaults /\ faults' = faults + 1

(* write(): the key first, each file opened, which empties it, and written *)
(* with what has been made for this run.                                   *)
OpenKey == /\ stage = "key"
           /\ \/ stage' = "write key" /\ key' = Torn /\ made' = made + 1 /\ UNCHANGED faults
              \/ GiveUp /\ UNCHANGED <<key, made>>
           /\ UNCHANGED <<conf, hosts, pair, cert, ctx, at, servers, removed>>
WriteKey == /\ stage = "write key"
            /\ \/ stage' = "cert" /\ key' = made /\ UNCHANGED faults
               \/ GiveUp /\ UNCHANGED key
            /\ UNCHANGED <<conf, hosts, pair, cert, ctx, at, servers, made, removed>>
OpenCert == /\ stage = "cert"
            /\ \/ stage' = "write cert" /\ cert' = Torn /\ UNCHANGED faults
               \/ GiveUp /\ UNCHANGED cert
            /\ UNCHANGED <<conf, hosts, pair, key, ctx, at, servers, made, removed>>
WriteCert == /\ stage = "write cert"
             /\ \/ stage' = "load" /\ cert' = made /\ pair' = "made" /\ UNCHANGED faults
                \/ GiveUp /\ UNCHANGED <<cert, pair>>
             /\ UNCHANGED <<conf, hosts, key, ctx, at, servers, made, removed>>

Fits == key = cert /\ key > Torn

NoCtx == [is |-> "none", refuses |-> {}]

(* setProtocols(): TLSv1 alone is never taken back.                        *)
Refused(listed) == IF listed = {} THEN SystemRefuses
                   ELSE (SystemRefuses \cap {"TLSv1"}) \union (Versions \ listed)

(* isEnabled(), and load(): ciphers that are no good are reported and      *)
(* passed over, suites and parameters are not.                             *)
Enabled    == pair # "none" /\ (Object(conf) => conf.tls.enabled)
PairLoads  == \/ pair = "own" /\ conf.tls.loads
              \/ pair = "made" /\ Fits
Suitable   == Object(conf) => conf.tls.suites # "bad" /\ conf.tls.dh # "bad"

Load == /\ stage = "load" /\ stage' = "bind" /\ at' = 0
        /\ ctx' = IF Enabled /\ PairLoads /\ Suitable
                  THEN [is |-> pair, refuses |-> Refused(Protocols(conf))] ELSE NoCtx
        /\ UNCHANGED <<conf, hosts, pair, key, cert, servers, made, removed, faults>>

---------------------------------------------------------------------------
(* Server(): an IPv6 address, else an IPv4 one, else none.                 *)
Family(h) == IF h.version = 6 /\ h.host \in IPv6 THEN 6 ELSE IF h.host \in IPv4 THEN 4 ELSE 0
Endpoint(h) == <<Family(h), h.host, h.port>>

(* uv_listen() fails on an endpoint in use; an IPv6 one does not take IPv4 *)
(* connections, so it is in no other's way.                                *)
InUse(h) == \/ h.port \in conf.busy
            \/ \E s \in servers : s.port = h.port /\ s.family = Family(h)
                                  /\ (s.host = h.host \/ {s.host, h.host} \cap Range(AnyHost) # {})

(* Proxy::bind(), for each host: trouble with one leaves the others alone. *)
Bind == /\ stage = "bind" /\ at < Len(hosts) /\ at' = at + 1
        /\ LET h == hosts[at + 1]
           IN  IF (h.tls => ctx # NoCtx) /\ Family(h) > 0 /\ ~InUse(h)
               THEN servers' = servers \union {[family |-> Family(h), host |-> h.host, port |-> h.port,
                                                tls |-> h.tls, ctx |-> ctx]}
               ELSE UNCHANGED servers
        /\ UNCHANGED <<conf, hosts, stage, pair, key, cert, ctx, made, removed, faults>>

Up == /\ stage = "bind" /\ at = Len(hosts) /\ stage' = "up"
      /\ UNCHANGED <<conf, hosts, pair, key, cert, ctx, at, servers, made, removed, faults>>

(* The configuration is saved: getJSON() writes the hosts and the files in *)
(* use, those that were made too.                                          *)
Saved == [conf EXCEPT
    !.bind = [i \in DOMAIN hosts |-> [kind |-> "object", object |-> ToJSON(hosts[i])]],
    !.tls  = IF Object(conf) THEN [conf.tls EXCEPT !.names = IF pair = "none" THEN @ ELSE pair]
             ELSE [is |-> "object", enabled |-> conf.tls.is = "auto", names |-> pair, loads |-> FALSE,
                   protocols |-> {}, suites |-> "none", dh |-> "none"]]
Save == /\ stage = "up" /\ conf' = Saved
        /\ UNCHANGED <<hosts, stage, pair, key, cert, ctx, at, servers, made, removed, faults>>

(* The end of the program, or its death wherever it is.                    *)
Off == /\ stage # "off" /\ stage' = "off"
       /\ IF stage \in {"write key", "cert", "write cert"}
          THEN faults < MaxFaults /\ faults' = faults + 1 ELSE UNCHANGED faults
       /\ hosts' = <<>> /\ pair' = "none" /\ ctx' = NoCtx /\ at' = 0 /\ servers' = {}
       /\ UNCHANGED <<conf, key, cert, made, removed>>

(* The owner removes a file while the program does not run.                *)
RemoveFile ==
    /\ stage = "off" /\ removed < MaxRemoved /\ removed' = removed + 1
    /\ \/ key # Absent /\ key' = Absent /\ UNCHANGED cert
       \/ cert # Absent /\ cert' = Absent /\ UNCHANGED key
    /\ UNCHANGED <<conf, hosts, stage, pair, ctx, at, servers, made, faults>>

Init == /\ conf \in Confs /\ hosts = <<>> /\ stage = "off" /\ pair = "none" /\ key = Absent /\ cert = Absent
        /\ ctx = NoCtx /\ at = 0 /\ servers = {} /\ made = 0 /\ removed = 0 /\ faults = 0

Next == \/ Read \/ OpenKey \/ WriteKey \/ OpenCert \/ WriteCert \/ Load \/ Bind \/ Up
        \/ Save \/ Off \/ RemoveFile
Spec == Init /\ [][Next]_vars

---------------------------------------------------------------------------
Files == Absent .. MaxMade
TypeOK ==
    /\ stage \in {"off", "key", "write key", "cert", "write cert", "load", "bind", "up"}
    /\ pair \in {"none", "own", "made"} /\ key \in Files /\ cert \in Files
    /\ ctx.is \in {"none", "own", "made"} /\ ctx.refuses \subseteq Versions
    /\ at \in 0 .. Len(hosts) /\ \A i \in DOMAIN hosts : Valid(hosts[i])
    /\ made \in 0 .. MaxMade /\ removed \in 0 .. MaxRemoved /\ faults \in 0 .. MaxFaults

(* A port for TLS is served with a certificate or not at all, and with the *)
(* one the configuration asks for.                                         *)
TlsPortsSealed ==
    \A s \in servers : s.tls => s.ctx # NoCtx /\ s.ctx.is = IF Generates(conf) THEN "made" ELSE Named(conf)

(* A server speaks the versions that are listed and no others, but for     *)
(* TLSv1 where the system refuses it.                                      *)
ProtocolsMeant ==
    \A s \in servers : s.ctx # NoCtx /\ Protocols(conf) # {} =>
        LET spoken == Versions \ s.ctx.refuses
        IN  spoken \subseteq Protocols(conf) /\ Protocols(conf) \ spoken \subseteq {"TLSv1"}

(* A certificate that is made is loaded, on this start and on every later  *)
(* one, whatever the owner has removed, as long as no write failed or was  *)
(* cut short.                                                              *)
MadeCertificateServes ==
    Generates(conf) /\ Suitable /\ faults = 0 /\ stage \in {"bind", "up"} => ctx.is = "made" /\ Fits

(* When the proxy is up it listens on every endpoint of its list that can  *)
(* be listened on, on each once: both families of the default, and what    *)
(* others hold or has no address keeps no one else from it.                *)
Wanted == {h \in Range(hosts) : Family(h) > 0 /\ h.port \notin conf.busy /\ (h.tls => ctx # NoCtx)}
Clash(h, g) == h.port = g.port /\ Family(h) = Family(g)
ListensWhereItCan ==
    /\ \A s \in servers, r \in servers :
           [s EXCEPT !.tls = TRUE] = [r EXCEPT !.tls = TRUE] => s = r
    /\ stage = "up" => \A h \in Wanted :
           (\A g \in Wanted : Clash(h, g) => g = h) => Endpoint(h) \in {<<s.family, s.host, s.port>> : s \in servers}

(* What the proxy can listen on, it can after its configuration was saved  *)
(* and read again, and nothing else: but a list of nothing of the kind,    *)
(* that comes back without a host and gives way to the default one.        *)
Reached(hs) == {<<Endpoint(h), h.tls>> : h \in {g \in Range(hs) : Family(g) > 0}}
SavedListens == stage = "up" => Reached(hosts) \in {{}, Reached(ReadBind(Saved.bind))}

(* A pool and a bind address read the same host and port out of a text.    *)
AddressesAgree ==
    \A i \in DOMAIN conf.bind :
        LET e == conf.bind[i]
            h == BindHost(e.text)
            u == ParseUrl(e.text)
            s == ParseUrl(<<"stratum+ssl://">> \o e.text)
        IN  e.kind = "text" /\ Valid(h) /\ e.text[1] # "/" =>
                /\ UrlValid(u) /\ u.host = h.host /\ u.port = h.port /\ ~u.tls
                /\ UrlValid(s) /\ s.host = h.host /\ s.port = h.port /\ s.tls

(* A pair that fits is never written over by the program.                  *)
PairStays == Fits => key' \in {key, Absent} /\ cert' \in {cert, Absent}
=============================================================================
