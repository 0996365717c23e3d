----------------------------- MODULE MCProgram -----------------------------
(***************************************************************************)
(* Small instances of the program around the proxy's work: its             *)
(* configuration, from the command line to the reload, the API, the log    *)
(* and the books it keeps of miners, and its beginning and end; and of     *)
(* what it computes: scalars, coordinates and points, keys and signatures, *)
(* digests, addresses, texts, the worth of shares, and the blocks that are *)
(* made of templates.                                                      *)
(*                                                                         *)
(* These parts share no state, so a run is of one part: part says of       *)
(* which, and v1, v2, .. are its variables, in the order its module        *)
(* declares them.  Zero from the first one that the part has no use for.   *)
(***************************************************************************)
EXTENDS Integers, Sequences, TLC

CONSTANTS Parts,
          NoFile  \* no value of a configuration

VARIABLES part, v1, v2, v3, v4, v5, v6, v7, v8, v9, v10, v11, v12, v13
vars == <<part, v1, v2, v3, v4, v5, v6, v7, v8, v9, v10, v11, v12, v13>>

Rest13 == <<v13>>
Zero13 == v13 = 0
Rest11 == <<v11, v12, Rest13>>
Zero11 == v11 = 0 /\ v12 = 0 /\ Zero13
Rest10 == <<v10, Rest11>>
Zero10 == v10 = 0 /\ Zero11
Rest9  == <<v9, Rest10>>
Zero9  == v9 = 0 /\ Zero10
Rest8  == <<v8, Rest9>>
Zero8  == v8 = 0 /\ Zero9
Rest7  == <<v7, Rest8>>
Zero7  == v7 = 0 /\ Zero8
Rest5  == <<v5, v6, Rest7>>
Zero5  == v5 = 0 /\ v6 = 0 /\ Zero7
Rest4  == <<v4, Rest5>>
Zero4  == v4 = 0 /\ Zero5

---------------------------------------------------------------------------
(* Command lines of options for one pool, for two pools, and for the rest  *)
(* with a file.                                                            *)
OnePool  == {<<"url", "u1">>, <<"user", "a">>, <<"user", "b">>, <<"algo", "x">>, <<"algo", "y">>,
             <<"tls", "yes">>, <<"daemon", "yes">>, <<"pass", "p">>, <<"zmq", "18083">>}
TwoPools == {<<"url", "u1">>, <<"url", "u2">>, <<"user", "a">>, <<"user", "b">>,
             <<"algo", "x">>, <<"algo", "y">>}
Mixed    == {<<"url", "u1">>, <<"user", "a">>, <<"retries", "5">>, <<"retries", "0">>, <<"config", "f">>,
             <<"port", "8080">>, <<"token", "s">>, <<"restricted", "no">>}
Edits    == {<<"url", "u9">>, <<"user", "c">>, <<"pass", "r">>, <<"algo", "z">>, <<"tls", "yes">>,
             <<"daemon", "yes">>, <<"poll", "2000">>, <<"poll", "-5">>, <<"tls", "7">>, <<"enabled", "no">>,
             <<"zmq", "18084">>}
Numbers  == {"0", "1000", "2", "2000", "3", "4", "5", "7", "10", "60", "500", "8080", "9000", "18083", "18084"}

(* For the empty document alone.                                           *)
Plain == INSTANCE ConfigFile WITH
    Options <- {}, MaxOptions <- 0, File <- 0, Default <- 0, Edits <- {}, Unsigned <- Numbers, Negative <- {"-1", "-5"},
    t <- v1, line <- v2, cfg <- v3, again <- v4, stage <- v5, how <- v6

Named   == [Plain!Empty EXCEPT
               !.retries = "3", !["print-time"] = "10",
               !.http = [Plain!NoHttp EXCEPT !.port = "9000", !.restricted = "no"],
               !.pools = <<[Plain!NoPool EXCEPT !.url = "u3", !.pass = "q"],
                           [Plain!NoPool EXCEPT !.url = "u4", !.daemon = "yes", !.poll = "500", !.enabled = "no"]>>]
Besides == [Plain!Empty EXCEPT !.retries = "4", !.pools = <<[Plain!NoPool EXCEPT !.url = "u5"]>>]

One == INSTANCE ConfigFile WITH
    Options <- OnePool, MaxOptions <- 5, File <- Named, Default <- Besides, Edits <- {}, Unsigned <- Numbers, Negative <- {"-1", "-5"},
    t <- v1, line <- v2, cfg <- v3, again <- v4, stage <- v5, how <- v6
Two == INSTANCE ConfigFile WITH
    Options <- TwoPools, MaxOptions <- 6, File <- Named, Default <- Besides, Edits <- {}, Unsigned <- Numbers, Negative <- {"-1", "-5"},
    t <- v1, line <- v2, cfg <- v3, again <- v4, stage <- v5, how <- v6
Mix == INSTANCE ConfigFile WITH
    Options <- Mixed, MaxOptions <- 4, File <- Named, Default <- Besides, Edits <- {}, Unsigned <- Numbers, Negative <- {"-1", "-5"},
    t <- v1, line <- v2, cfg <- v3, again <- v4, stage <- v5, how <- v6
Changed == INSTANCE ConfigFile WITH
    Options <- OnePool, MaxOptions <- 3, File <- Named, Default <- Besides, Edits <- Edits, Unsigned <- Numbers, Negative <- {"-1", "-5"},
    t <- v1, line <- v2, cfg <- v3, again <- v4, stage <- v5, how <- v6

(* Configurations that differ in each member that is compared, and one     *)
(* that cannot be used; a file that is replaced whole, and one that is     *)
(* removed and written by anybody while ports are taken.                   *)
All == [ok : {TRUE}, watch : BOOLEAN, http : {0, 1, 2}, set : {1}, extra : {0}, dns : {1}]
       \cup [ok : {TRUE}, watch : {TRUE}, http : {1}, set : {1, 2}, extra : {0, 1}, dns : {1}]
       \cup [ok : {FALSE}, watch : {TRUE}, http : {0}, set : {1}, extra : {0}, dns : {2}]

Reload == INSTANCE ConfigReload WITH
    Configs <- All, Ports <- {1, 2}, NoFile <- NoFile, Atomic <- TRUE, Quiet <- TRUE,
    MaxEdits <- 2, MaxPuts <- 2, PortFree <- TRUE,
    file <- v1, conf <- v2, dns <- v3, watcher <- v4, httpd <- v5, bound <- v6,
    taken <- v7, touched <- v8, edit <- v9, put <- v10, edits <- v11, puts <- v12
Ported == INSTANCE ConfigReload WITH
    Configs <- All, Ports <- {1, 2}, NoFile <- NoFile, Atomic <- FALSE, Quiet <- FALSE,
    MaxEdits <- 1, MaxPuts <- 1, PortFree <- FALSE,
    file <- v1, conf <- v2, dns <- v3, watcher <- v4, httpd <- v5, bound <- v6,
    taken <- v7, touched <- v8, edit <- v9, put <- v10, edits <- v11, puts <- v12

(* An API that is closed, open to either of two tokens, to anybody, or     *)
(* restricted with a token; one that only differs in its pools, and one    *)
(* that cannot be used.  Every request there is.                           *)
Access(restricted, token, watch) ==
    [restricted |-> restricted, token |-> token, watch |-> watch, usable |-> TRUE, n |-> 0]
Accesses == {Access(TRUE, "empty", TRUE), Access(FALSE, "t1", TRUE), Access(FALSE, "t2", FALSE),
             Access(FALSE, "empty", TRUE), Access(TRUE, "t1", TRUE),
             [Access(FALSE, "t1", TRUE) EXCEPT !.n = 1], [Access(FALSE, "t1", FALSE) EXCEPT !.n = 2],
             [Access(FALSE, "t1", TRUE) EXCEPT !.usable = FALSE]}

Shape == INSTANCE ApiAccess WITH
    Configs <- Accesses, NoToken <- "empty", Tokens <- {"t1", "t2"}, SaveFails <- TRUE, Requests <- {},
    conf <- v1, file <- v2, watcher <- v3, last <- v4
Asked == {r \in Shape!AllRequests : Shape!Makes(r)}

Api == INSTANCE ApiAccess WITH
    Configs <- Accesses, NoToken <- "empty", Tokens <- {"t1", "t2"}, SaveFails <- TRUE, Requests <- Asked,
    conf <- v1, file <- v2, watcher <- v3, last <- v4

(* Two threads, and two runs over one file, so that one writes after the   *)
(* lines of another.                                                       *)
Log == INSTANCE LogFile WITH
    Threads <- {"loop", "worker"}, MaxPrints <- 1, MaxSize <- 2, MaxRuns <- 2, Fails <- 1,
    log <- v1, run <- v2, printed <- v3, buffers <- v4, lock <- v5, next <- v6, upto <- v7, woken <- v8,
    requests <- v9, pos <- v10, file <- v11, lost <- v12, fails <- v13

(* Three miners: a and b share a user, b and c an address; a and b may     *)
(* name a pool of their own.                                               *)
NameOf == [user |-> [a |-> "u", b |-> "u", c |-> "v"],
           ip   |-> [a |-> "x", b |-> "y", c |-> "y"]]

Rows == INSTANCE Statistics WITH
    Miners <- {"a", "b", "c"}, OwnPool <- {"a", "b"}, Modes <- {"user", "ip"}, Name <- NameOf,
    MaxShares <- 2, MaxReloads <- 2,
    miner <- v1, mode <- v2, customs <- v3, workers <- v4, index <- v5, stats <- v6, lines <- v7,
    missed <- v8, since <- v9, alive <- v10, shares <- v11, reloads <- v12

(* Two miners and every part with a handle.                                *)
Handles == {"signals", "log", "access", "console", "tty", "watcher", "httpd", "proxyTimer",
            "minersTimer", "server", "poolTimer"}
Life == INSTANCE AppLife WITH
    Miners <- {"a", "b"}, Parts <- Handles,
    phase <- v1, handles <- v2, miners <- v3, stored <- v4, pool <- v5, daemon <- v6, freed <- v7, alive <- v8

(* Every TLS there is with two ports for it and one without; every address *)
(* of up to six tokens; and lists that meet on a port, with an option.     *)
Text(t)      == [kind |-> "text", text |-> t]
At(h, p, x)  == [kind |-> "object", object |-> [host |-> h, port |-> p, tls |-> x]]
Option(k, t) == [kind |-> k, text |-> t]
Colons       == <<":", ":">>
V4           == <<"1.2.3.4">>
NoTls        == [is |-> "off"]
Tls == {NoTls, [is |-> "auto"]}
       \cup [is : {"object"}, enabled : BOOLEAN, names : {"none", "own", "half"}, loads : BOOLEAN,
             protocols : {{}, {"TLSv1.2", "TLSv1.3"}, {"TLSv1", "TLSv1.2"}},
             suites : {"none", "bad"}, dh : {"none", "bad"}]
Start(binds, tls, busy) == [bind : binds, tls : tls, busy : busy]
Sealed == <<At(<<"1.2.3.4">>, 3333, TRUE), At(Colons, 65537, TRUE), Text(<<"1.2.3.4", ":", "3333">>)>>
Words6(s) == \A i \in 1 .. Len(s) - 1 : ~({s[i], s[i + 1]} \subseteq {"1.2.3.4", "3333", "65536"})
Texts  == {s \in UNION {[1 .. n -> {"[", "]", ":", "1.2.3.4", "3333"}] : n \in 0 .. 6}
                 \cup UNION {[1 .. n -> {"/", ":", "1.2.3.4", "65536"}] : n \in 0 .. 4} : Words6(s)}
Hosts  == {Text(<<"1.2.3.4", ":", "3333">>), Text(<<"[", ":", ":", "]", ":", "3333">>),
           At(Colons, 3333, FALSE), At(<<"[", ":", ":", "]">>, 1, TRUE), At(<<"0.0.0.0">>, 3333, FALSE),
           At(<<"1.2.3.4">>, 65536, FALSE), Option("bind", <<"1.2.3.4", ":", "1.2.3.4">>),
           Option("tls-bind", <<"[", "1.2.3.4", "]", ":", "3333">>), Option("bind", <<"1.2.3.4">>)}
Lists  == UNION {[1 .. n -> Hosts] : n \in 0 .. 3}

Ear == INSTANCE Listening WITH
    Size   <- [t \in {"[", "]", ":", "/"} |-> 1] @@ [t \in {"1.2.3.4", "0.0.0.0"} |-> 7]
              @@ ("3333" :> 4) @@ ("65536" :> 5) @@ ("stratum+ssl://" :> 14),
    Number <- [t \in {"[", "]", ":", "/", "0.0.0.0", "stratum+ssl://"} |-> 0]
              @@ ("1.2.3.4" :> 1) @@ ("3333" :> 3333) @@ ("65536" :> 65536),
    IPv4 <- {<<"1.2.3.4">>, <<"0.0.0.0">>}, IPv6 <- {Colons, Colons \o V4}, AnyHost <- <<<<"0.0.0.0">>, Colons>>,
    DefaultPort <- 3333, Schemes <- "stratum+ssl://" :> <<"stratum", TRUE>>,
    Confs <- Start({Sealed}, Tls, {{}, {3333}}) \cup Start({<<Text(t)>> : t \in Texts}, {NoTls}, {{}})
             \cup Start(Lists, {NoTls, [is |-> "auto"]}, {{}, {1}}),
    SystemRefuses <- {"TLSv1", "TLSv1.1"}, NoHost <- NoFile,
    MaxMade <- 2, MaxRemoved <- 2, MaxFaults <- 1,
    conf <- v1, hosts <- v2, stage <- v3, pair <- v4, key <- v5, cert <- v6, ctx <- v7, at <- v8, servers <- v9,
    made <- v10, removed <- v11, faults <- v12

---------------------------------------------------------------------------
(* Scalars: four limbs of three bits, and the order 2^12 + 31, a prime.    *)
(* The operands are the ends, the order and its neighbours, and others;    *)
(* what is wide, pairs of halves.                                          *)
Wide == {x + 16384 * y : x \in {0, 1, 4095, 4127, 9999, 16383},
                         y \in {0, 1, 2, 15, 255, 1024, 4095, 4096, 4127, 8191, 12345, 16382, 16383}}

Scalar == INSTANCE ScalarOps WITH
    W <- 3, N <- 4, X <- 2, Mu <- <<1, -4>>, Word <- 10, V <- 2,
    Wide <- Wide, Narrow <- 0..(2 ^ 14 - 1),
    Scalars <- {0, 1, 7, 8, 511, 2047, 4095, 4126, 4127, 4128, 8254, 16383},
    op <- v1, a <- v2, b <- v3, c <- v4, s <- v5, pc <- v6

(* Coordinates: six limbs of 11 and 10 bits and the number 2^63 - 5, of    *)
(* which 213 and 42013 are divisors.  Limbs at the ends of their ranges,   *)
(* and more at single places.  Powers at their real size: eighteen primes  *)
(* below 2^16 and above 2^15, whose product is above 2^270.                *)
Cuts  == [i \in 0..6 |-> <<0, 14, 24, 33, 42, 55, 63>>[i + 1]]
Left  == [0..5 -> {-2, 2}] \cup {[i \in 0..5 |-> IF i = j THEN x ELSE y] : j \in 0..5, x \in -2..2, y \in {-1, 0, 2}}
Right == {[i \in 0..5 |-> IF i % 2 = 0 THEN x ELSE y] : x, y \in -2..2}

Ones(b, full(_), z) == [i \in 0..5 |-> IF i = 0 THEN z ELSE IF b[i] THEN full(i) ELSE 0]
Near  == LET all == {Ones(b, LAMBDA i : 2 ^ (IF i % 2 = 0 THEN 11 ELSE 10) - 1, z) :
                       b \in [1..5 -> BOOLEAN], z \in {-1, 0, 4, 5, 6, 2042, 2043, 2044}}
         IN  all \cup {[i \in 0..5 |-> -x[i]] : x \in all}
Units == {Ones(b, LAMBDA i : 2 ^ (Cuts[i + 1] - Cuts[i]) - 1, z) :
            b \in [1..5 -> BOOLEAN], z \in {0, 1, 9999, 16378, 16379, 16380, 16383}}

Field == INSTANCE FieldOps WITH
    A <- 11, H <- 2, C <- 5, Slack <- 160, Word <- 30, HalfWord <- 15, Moduli <- {213, 42013},
    Cuts <- Cuts, Left <- Left, Right <- Right, Near <- Near, Texts <- Units,
    RealBits <- 255, RealC <- 19,
    Bases <- {32771, 32779, 32783, 32789, 32797, 32801, 32803, 32831, 32833,
              32839, 32843, 32869, 32887, 32909, 32911, 32917, 32933, 32939},
    op <- v1, f <- v2, g <- v3, h <- v4, pc <- v5, k <- v6

(* Points: the curve of 56 points modulo 53, with a base point of order 7; *)
(* scalars of two bytes.                                                   *)
Points    == {p \in (0..52) \X (0..52) : (p[2] * p[2] - p[1] * p[1] - 1 - 39 * p[1] * p[1] * p[2] * p[2]) % 53 = 0}
Inverses  == [x \in 0..52 |-> IF x = 0 THEN 0 ELSE CHOOSE y \in 0..52 : (x * y) % 53 = 1]
Sum(p, q) == LET t == (39 * p[1] * p[2] * q[1] * q[2]) % 53
             IN  << ((p[1] * q[2] + p[2] * q[1]) * Inverses[(1 + t) % 53]) % 53,
                    ((p[2] * q[2] + p[1] * q[1]) * Inverses[(1 - t) % 53]) % 53 >>
Table     == [p \in Points |-> LET m[k \in 0..55] == IF k = 0 THEN <<0, 1>> ELSE Sum(m[k - 1], p) IN m]
Base      == <<11, 14>>
Singles   == (0..255) \cup {a \in 0..(2 ^ 15 - 1) : a % 16 \in {7, 8, 15} /\ (a \div 16) % 16 \in {0, 7, 8, 15}}
Multiples == ({0, 1, 7, 8, 9, 127, 128, 2048, 30583, 32639, 32760, 32767} \X Points)
             \cup ((0..255) \X {<<14, 45>>})
Pairs     == {0, 1, 15, 16, 31, 511, 1365, 2730, 8191}
Others    == {p \in Points : p[1] < 8}
Combos    == {<< <<a, p>>, <<b, Base>> >> : a, b \in Pairs, p \in Others}
             \cup {<< <<a, p>>, <<b, q>> >> : a, b \in {0, 2730, 7679}, p, q \in Others}
             \cup {<< <<a, Base>>, <<b, p>>, <<c, q>> >> : a, b, c \in {0, 8177}, p, q \in Others}
             \cup {<< <<a, Base>>, <<8191 - a, Base>> >> : a \in 0..511}

Edwards == INSTANCE EdwardsOps WITH
    P <- 53, D <- 39, MA <- 14, Inverse <- Inverses, Points <- Points, Table <- Table, Base <- Base, Bytes <- 2, Scalars <- Singles, Multiples <- Multiples,
    Combos <- Combos, Addends <- {p \in Points : p[1] % 16 = 11} \cup {<<0, 1>>, <<0, 52>>},
    op <- v1, terms <- v2, pc <- v3, i <- v4, e <- v5, carry <- v6, tab <- v7, r <- v8, text <- v9

(* Keys and signatures: an order of 3, indices of two bytes.               *)
Signing == INSTANCE Signatures WITH
    L <- 3, Secrets <- {2, 3, 5}, Stale <- {0, 2}, Group <- 2, Width <- 4, TextRoom <- 2,
    pc <- v1, spend <- v2, view <- v3, tx <- v4, index <- v5, hs <- v6, ephPub <- v7, ephSec <- v8,
    ch <- v9, k <- v10, c <- v11, r <- v12, accepted <- v13

(* Digests at their real size: messages around the ends of blocks of 136   *)
(* bytes, and one of 3 bytes, "abc".                                       *)
Byte(n)  == {b \in 0..7 : (n \div 2 ^ b) % 2 = 1}
AsBytes(s) == [i \in DOMAIN s |-> Byte(s[i])]
Message(n) == [i \in 1..n |-> Byte((37 * i + 11) % 256)]
Abc      == AsBytes(<<97, 98, 99>>)

Digest == INSTANCE Keccak WITH
    Messages <- {Message(n) : n \in {0, 1, 76, 135, 136, 137, 271, 272}} \cup {Abc},
    MdLens <- {32, 200},
    Known <- {<< <<>>, AsBytes(<<197, 210, 70, 1, 134, 247, 35, 60, 146, 126, 125, 178, 220, 199, 3, 192,
                               229, 0, 182, 83, 202, 130, 39, 59, 123, 250, 216, 4, 93, 133, 164, 112>>) >>,
              << Abc, AsBytes(<<78, 3, 101, 122, 234, 69, 169, 79, 199, 212, 123, 168, 38, 200, 214, 103,
                              192, 209, 230, 227, 58, 100, 160, 54, 236, 68, 245, 143, 161, 45, 108, 69>>) >>},
    msg <- v1, mdlen <- v2, at <- v3, phase <- v4, round <- v5, st <- v6, ref <- v7

(* Addresses: three digits, bytes of four values and blocks of three bytes *)
(* that are 3, 9, 27 and 81 against 1, 4, 16 and 64, so that there is no   *)
(* last block of one character.                                            *)
LOCAL INSTANCE SequencesExt
Check(bytes) == FoldLeft(LAMBDA s, b : s + 3 * b + 1, 1, bytes) % 4

Wallet == INSTANCE WalletAddress WITH
    Alphabet <- 3, Bytes <- 4, Sizes <- <<0, 2, 3, 4>>, MinSize <- 6, MaxSize <- 8, MinData <- 4, KeyBytes <- 2,
    Sum <- Check,
    Texts <- [1..7 -> 0..2] \cup [1..8 -> 1..2] \cup [1..6 -> {-1, 1, 2}] \cup [1..5 -> {1, 2}] \cup [1..9 -> {2}],
    Olds <- {[tag |-> 0, keys |-> <<>>, text |-> <<>>],
             [tag |-> 1, keys |-> <<3, 3>>, text |-> <<1, 1, 1, 1, 1, 1>>]},
    obj <- v1, prefix <- v2, text <- v3, block <- v4, j <- v5, num <- v6, order <- v7, data <- v8, said <- v9

(* Blocks: two miners of a coin whose blocks are signed, two that are told *)
(* apart by extra nonces, and one with up to nine transactions.            *)
Signed == INSTANCE BlockTemplate WITH
    Miners <- {1, 2}, ExtraNonces <- FALSE, Coin <- "wownero", MaxTemplates <- 2, Txs <- {0, 2}, Base <- 2,
    tpl <- v1, str <- v2, job <- v3, up <- v4, miner <- v5, sent <- v6, last <- v7, count <- v8
Extra == INSTANCE BlockTemplate WITH
    Miners <- {1, 2}, ExtraNonces <- TRUE, Coin <- "plain", MaxTemplates <- 2, Txs <- {0, 2}, Base <- 2,
    tpl <- v1, str <- v2, job <- v3, up <- v4, miner <- v5, sent <- v6, last <- v7, count <- v8
Tree == INSTANCE BlockTemplate WITH
    Miners <- {1}, ExtraNonces <- FALSE, Coin <- "plain", MaxTemplates <- 1, Txs <- 0..9, Base <- 2,
    tpl <- v1, str <- v2, job <- v3, up <- v4, miner <- v5, sent <- v6, last <- v7, count <- v8

(* Shares: words of eight bits.  Every target that has half a word, and of *)
(* the others the ends and those around which a division changes.          *)
Worth == INSTANCE ShareWorth WITH
    HalfBits <- 4, IntMax <- 7, MinCustom <- 2,
    Texts <- ({"half"} \X (1..15)) \cup ({"word"} \X {0, 1, 2, 17, 36, 85, 128, 254, 255}),
    Diffs <- {0, 3, 11, 16, 100, 255}, Asked <- {0, 1, 2, 3, 6, 7, 9},
    custom <- v1, diff <- v2, shown <- v3

(* Texts: every character in both halves of a byte, texts of up to four    *)
(* characters with more room and less, every byte, and words of a letter   *)
(* between spaces.                                                         *)
Pairs2   == {<<c, 48>> : c \in 0..255} \cup {<<97, c>> : c \in 0..255}
Roomy    == {<<s, 1>> : s \in Pairs2}
            \cup ((UNION {[1..m -> {49, 70, 71}] : m \in 0..4}) \X (0..2))

Texting == INSTANCE TextOps WITH
    Codes <- Roomy, Sep <- 32, Words <- {<<>>, <<65>>, <<66>>, <<65, 66>>},
    Bytes <- {<<>>} \cup {<<b>> : b \in 0..255} \cup {<<b, 9, 160>> : b \in {0, 9, 10, 15, 16, 153, 159, 160, 255}},
    Lists <- UNION {[1..m -> {32, 65}] : m \in 0..6},
    op <- v1, text <- v2, room <- v3, pos <- v4, acc <- v5, odd <- v6, out <- v7, res <- v8, box <- v9, meant <- v10

---------------------------------------------------------------------------
PartsAssumption == Parts \subseteq {"one", "two", "mix", "changed", "reload", "ported", "api",
                                    "log", "rows", "life", "listen", "scalars", "field", "edwards",
                                    "signing", "digest", "wallet", "worth", "texts", "signed", "extra", "tree"}
ASSUME /\ PartsAssumption
       /\ One!OptionsAssumption /\ Two!OptionsAssumption /\ Mix!OptionsAssumption /\ Changed!OptionsAssumption
       /\ Reload!ConfigsAssumption /\ Ported!ConfigsAssumption /\ Api!ApiAssumption
       /\ Log!LogAssumption /\ Rows!StatisticsAssumption /\ Life!AppAssumption
       /\ Ear!ListeningAssumption
       /\ Worth!WorthAssumption /\ Texting!TextAssumption /\ Scalar!ScalarsAssumption /\ Field!FieldAssumption
       /\ Edwards!EdwardsAssumption /\ Signing!SignaturesAssumption /\ Digest!KeccakAssumption
       /\ Wallet!AddressAssumption
       /\ Signed!TemplateAssumption /\ Extra!TemplateAssumption /\ Tree!TemplateAssumption

---------------------------------------------------------------------------
Init == /\ part \in Parts
        /\ \/ part = "one"     /\ One!Init     /\ Zero7
           \/ part = "two"     /\ Two!Init     /\ Zero7
           \/ part = "mix"     /\ Mix!Init     /\ Zero7
           \/ part = "changed" /\ Changed!Init /\ Zero7
           \/ part = "reload"  /\ Reload!Init  /\ Zero13
           \/ part = "ported"  /\ Ported!Init  /\ Zero13
           \/ part = "api"     /\ Api!Init     /\ Zero5
           \/ part = "log"     /\ Log!Init
           \/ part = "rows"    /\ Rows!Init    /\ Zero13
           \/ part = "life"    /\ Life!Init    /\ Zero9
           \/ part = "listen"  /\ Ear!Init     /\ Zero13
           \/ part = "scalars"   /\ Scalar!Init /\ Zero7
           \/ part = "field"     /\ Field!Init   /\ Zero7
           \/ part = "edwards"   /\ Edwards!Init /\ Zero10
           \/ part = "signing"   /\ Signing!Init
           \/ part = "digest"    /\ Digest!Init  /\ Zero8
           \/ part = "wallet"    /\ Wallet!Init  /\ Zero10
           \/ part = "worth"     /\ Worth!Init   /\ Zero4
           \/ part = "texts"     /\ Texting!Init /\ Zero11
           \/ part = "signed"    /\ Signed!Init  /\ Zero9
           \/ part = "extra"     /\ Extra!Init   /\ Zero9
           \/ part = "tree"      /\ Tree!Init    /\ Zero9

Of(p) == part = p /\ UNCHANGED part

OneStep     == Of("one")     /\ One!Next     /\ UNCHANGED Rest7
TwoStep     == Of("two")     /\ Two!Next     /\ UNCHANGED Rest7
MixStep     == Of("mix")     /\ Mix!Next     /\ UNCHANGED Rest7
ChangedStep == Of("changed") /\ Changed!Next /\ UNCHANGED Rest7
ReloadStep  == Of("reload")  /\ Reload!Next  /\ UNCHANGED Rest13
PortedStep  == Of("ported")  /\ Ported!Next  /\ UNCHANGED Rest13
ApiStep     == Of("api")     /\ Api!Next     /\ UNCHANGED Rest5
LogStep     == Of("log")     /\ Log!Next
RowsStep    == Of("rows")    /\ Rows!Next    /\ UNCHANGED Rest13
LifeStep    == Of("life")    /\ Life!Next    /\ UNCHANGED Rest9
ListenStep  == Of("listen")  /\ Ear!Next     /\ UNCHANGED Rest13
ScalarStep  == Of("scalars") /\ Scalar!Next /\ UNCHANGED Rest7
FieldStep   == Of("field")   /\ Field!Next   /\ UNCHANGED Rest7
PointStep   == Of("edwards") /\ Edwards!Next /\ UNCHANGED Rest10
SigningStep == Of("signing") /\ Signing!Next
DigestStep  == Of("digest")  /\ Digest!Next  /\ UNCHANGED Rest8
WalletStep  == Of("wallet")  /\ Wallet!Next  /\ UNCHANGED Rest10
WorthStep   == Of("worth")   /\ Worth!Next   /\ UNCHANGED Rest4
TextStep    == Of("texts")   /\ Texting!Next /\ UNCHANGED Rest11
SignedStep  == Of("signed")  /\ Signed!Next  /\ UNCHANGED Rest9
ExtraStep   == Of("extra")   /\ Extra!Next   /\ UNCHANGED Rest9
TreeStep    == Of("tree")    /\ Tree!Next    /\ UNCHANGED Rest9

Next == \/ OneStep \/ TwoStep \/ MixStep \/ ChangedStep \/ ReloadStep \/ PortedStep
        \/ ApiStep \/ LogStep \/ RowsStep \/ LifeStep \/ ListenStep
        \/ ScalarStep \/ FieldStep \/ PointStep \/ SigningStep
        \/ DigestStep \/ WalletStep \/ WorthStep \/ TextStep \/ SignedStep \/ ExtraStep \/ TreeStep

Spec == Init /\ [][Next]_vars

---------------------------------------------------------------------------
(* Options mean the same in whatever order they come, each is its pool's,  *)
(* the last one counts; saving loses nothing that a pool works with, and   *)
(* an edit of it is noticed.                                               *)
OptionsKept ==
    /\ part = "one"     => One!FreeOrder /\ One!SavedServes
    /\ part = "two"     => Two!TypeOK /\ Two!OwnOptions /\ Two!AlgoOfPool
    /\ part = "mix"     => Mix!LaterCounts /\ Mix!SavedServes
    /\ part = "changed" => Changed!EditSeen

(* The API listens where the running configuration says, a change that is  *)
(* accepted is in use or will be read; it is made and shown by the token   *)
(* alone, and each request that can be answered is answered once.  The     *)
(* proxy listens where its list says, saved and read again too, and for    *)
(* TLS with the certificate and the versions that are meant.               *)
ConfigurationHolds ==
    /\ part = "reload" => Reload!TypeOK /\ Reload!ApiWhereConfigured /\ Reload!WaitsForReload
    /\ part = "ported" => Ported!ApiWhereConfigured
    /\ part = "api"    => Api!TypeOK /\ Api!OnlyWithToken /\ Api!OneReply /\ Api!MembersOnce /\ Api!AcceptedStays
    /\ part = "listen" => /\ Ear!TypeOK /\ Ear!TlsPortsSealed /\ Ear!ProtocolsMeant /\ Ear!ListensWhereItCan
                          /\ Ear!MadeCertificateServes /\ Ear!SavedListens /\ Ear!AddressesAgree

(* What was printed is in the file, in order, on its way or lost by name;  *)
(* the rows of the workers, the statistics and the access log agree about  *)
(* every session; and the program's callbacks reach what lives, and        *)
(* nothing of it stays open behind its end.                                *)
BooksAndLife ==
    /\ part = "log"  => Log!TypeOK /\ Log!InOrder /\ Log!LinesAccounted
    /\ part = "rows" => /\ Rows!TypeOK /\ Rows!ConnectionsExact /\ Rows!BooksAgree
                        /\ Rows!AccessPairs /\ Rows!ConnectionsOpen
    /\ part = "life" => Life!TypeOK /\ Life!OwnersLive /\ Life!NothingOpenAfter

(* Numbers come out exactly: no pass over the limbs of a scalar or of a    *)
(* coordinate changes what they stand for, none overflows its integer, the *)
(* result is the one remainder, and the chains raise to their powers; and  *)
(* of a share all who divide agree what it is worth.                       *)
NumbersExact ==
    /\ part = "scalars" => /\ Scalar!TypeOK /\ Scalar!ValueKept /\ Scalar!LimbsFit
                           /\ Scalar!Canonical /\ Scalar!CheckExact /\ Scalar!ResultPasses
    /\ part = "field"   => /\ Field!TypeOK /\ Field!ValueKept /\ Field!Fits
                           /\ Field!OneUnit /\ Field!Remainder /\ Field!OneText
                           /\ Field!PowerExact /\ Field!WrittenFirst
    /\ part = "worth"   => /\ Worth!TypeOK /\ Worth!FoundNotRefused /\ Worth!WorthReachesPool
                           /\ Worth!CreditEarned /\ Worth!ShownAsAsked

(* Multiples of points are the group's, digit by digit, and a text is read *)
(* as the one point that is written so; what is signed with the keys of a  *)
(* block is accepted, and the keys belong together.                        *)
SignaturesHold ==
    /\ part = "edwards" => /\ Edwards!TypeOK /\ Edwards!DigitsKeep /\ Edwards!DigitsFit /\ Edwards!Accumulates
                           /\ Edwards!Multipliable /\ Edwards!TextExact /\ Edwards!HashOnCurve
    /\ part = "signing" => /\ Signing!TypeOK /\ Signing!KeysBelong /\ Signing!SignedAccepted
                           /\ Signing!ResponseGiven /\ Signing!IndexText

(* The rounds that work in place are those of the definition, and an       *)
(* address is accepted if and only if it is what its bytes and their       *)
(* checksum are written as; and bytes, words and Strings come out of texts *)
(* as they went in.                                                        *)
DigestsAgree ==
    /\ part = "digest" => Digest!TypeOK /\ Digest!AsDefined /\ Digest!DigestKnown
    /\ part = "wallet" => /\ Wallet!TypeOK /\ Wallet!DataWhole /\ Wallet!AcceptedIsWritten
                          /\ Wallet!WrittenIsAccepted /\ Wallet!RefusedNotValid
    /\ part = "texts"  => /\ Texting!TypeOK /\ Texting!ReadExact /\ Texting!WriteExact
                          /\ Texting!SplitExact /\ Texting!BoxesHold

(* The block that is submitted is the one that was hashed, whatever was    *)
(* received, served and submitted in between; no two miners are sent the   *)
(* same work; and the branch agrees with the tree for every number of      *)
(* transactions.                                                           *)
BlocksAsHashed ==
    /\ part = "signed" => Signed!TypeOK /\ Signed!BlockAsHashed
    /\ part = "extra"  => Extra!TypeOK /\ Extra!BlockAsHashed /\ Extra!WorkApart
    /\ part = "tree"   => Tree!TreeAgrees

(* No write lands on a line that is in the file, a certificate that fits   *)
(* its key stays, and the loop ends under no program that was not told to. *)
Undisturbed == [][/\ part = "log"  => Log!NothingOverwritten
                  /\ part = "listen" => Ear!PairStays
                  /\ part = "life" => Life!RunsUntilTold]_vars
=============================================================================
