--------------------------- MODULE GatewayConfig ---------------------------
(***************************************************************************)
(* The configuration of a gateway: config.Load (src/internal/config/       *)
(* config.go) and the constructors that Initialize gives its result to.    *)
(*                                                                         *)
(* A key stands for all keys of the source that are treated alike.  A text *)
(* is a sequence of words; blanks, slashes and commas are words of their   *)
(* own.  A duration is a number.                                           *)
(***************************************************************************)
EXTENDS Texts, FiniteSets

CONSTANTS
    Written,     \* texts somebody writes
    Durations,   \* durations somebody writes
    URLs,        \* texts redis.ParseURL parses
    HostPorts,   \* texts net.SplitHostPort parses
    MaxSettings  \* bound: settings that are not left alone

\* The words of the source.
Words == {"/", "hub", "default", "kim:gateway:push", ":users", ":group", ":broadcast"}

ASSUME ConfigAssumption ==
    /\ Words \subseteq Chars \ {Blank}
    /\ Written \subseteq Text
    /\ Durations \subseteq Int
    /\ HostPorts \subseteq Text \ {<<>>}
    /\ MaxSettings \in Nat

\* What has the highest priority comes first.
Sources == <<"flag", "env", "file">>

Channels == {"users", "group", "broadcast"}

\* "dsn" is redis.dsn, and http.addr, which Load treats alike and no
\* constructor parses.
TextKeys == {"dsn", "grpc", "path", "endpoints", "push"} \cup Channels

\* "shutdown" is shutdown.timeout, "ping" is the interval and the timeout.
DurationKeys == {"shutdown", "ping", "routeTTL"}

Keys == TextKeys \cup DurationKeys

Suffix(k) == CASE k = "users" -> ":users" [] k = "group" -> ":group"
               [] OTHER -> ":broadcast"

BaseChannel == <<"kim:gateway:push">>

Defaults ==
    [k \in Keys |->
        CASE k = "push" -> BaseChannel
          [] k \in Channels -> Append(BaseChannel, Suffix(k))
          [] k = "path" -> <<"/", "hub">>
          [] k \in {"dsn", "grpc", "endpoints"} -> <<"default">>
          [] k \in DurationKeys -> 60]

Settings ==
    [source : {"flag", "env", "file"}, key : TextKeys, value : Written]
        \cup [source : {"flag", "env", "file"}, key : DurationKeys, value : Durations]

VARIABLES
    settings,  \* what flags, environment and file say
    file,      \* whether the configuration file is there
    cfg,       \* what Load makes of it
    status

vars == <<settings, file, cfg, status>>

TypeOK ==
    /\ settings \subseteq Settings
    /\ file \in {"read", "absent", "missing"}
    /\ status \in {"initial", "rejected", "loaded", "refused", "panicked", "addressless",
                   "constructed"}
    /\ status \in {"loaded", "constructed"} =>
          /\ \A k \in TextKeys \ {"endpoints"} : cfg[k] = TrimSpace(cfg[k])
          /\ Head(cfg["path"]) = "/"

\* A file that was not named on the command line may be absent; one that was
\* may be missing.
Init ==
    /\ settings = {}
    /\ file \in {"read", "absent", "missing"}
    /\ cfg = Defaults
    /\ status = "initial"

\* Somebody sets a key, before the process starts.
Sets(x) ==
    /\ status = "initial" /\ Cardinality(settings) < MaxSettings
    /\ x.source = "file" => file = "read"
    /\ \A y \in settings : y.source # x.source \/ y.key # x.key
    /\ settings' = settings \cup {x}
    /\ UNCHANGED <<file, cfg, status>>

-----------------------------------------------------------------------------
\* Load.

\* What a source says of a key.  An empty variable of the environment is not
\* set; an empty flag or entry of the file is.
Given(source, k) ==
    {x \in settings :
        /\ x.source = source /\ x.key = k
        /\ source = "env" /\ k \in TextKeys => x.value # <<>>}

\* viper.Get.
Value(k) ==
    LET givers == {i \in DOMAIN Sources : Given(Sources[i], k) # {}}
    IN  IF givers = {} THEN Defaults[k]
        ELSE LET first == CHOOSE i \in givers : \A j \in givers : i <= j
             IN  (CHOOSE x \in Given(Sources[first], k) : TRUE).value

\* Mutant: the prefix is forgotten.
TrimsPath(path) == IF TrimSpace(path) = <<>> THEN Defaults["path"] ELSE TrimSpace(path)

normalizePath(path) ==
    LET trimmed == TrimSpace(path)
    IN  IF trimmed = <<>> THEN Defaults["path"]
        ELSE IF Head(trimmed) = "/" THEN trimmed ELSE <<"/">> \o trimmed

\* Mutant: the default base is used, not the configured one.
DefaultPushChannels(c) ==
    LET base == IF c["push"] = <<>> THEN Defaults["push"] ELSE c["push"]
    IN  [k \in Keys |->
            CASE k = "push" -> base
              [] k \in Channels /\ c[k] = <<>> -> Append(Defaults["push"], Suffix(k))
              [] OTHER -> c[k]]

normalizePushChannels(c) ==
    LET base == IF c["push"] = <<>> THEN Defaults["push"] ELSE c["push"]
    IN  [k \in Keys |->
            CASE k = "push" -> base
              [] k \in Channels /\ c[k] = <<>> -> Append(base, Suffix(k))
              [] OTHER -> c[k]]

\* What is between the commas, word by word; a part that is blank is left out.
Endpoints(text) == SelectSeq(TrimSpace(text), LAMBDA word : word \notin {",", Blank})

normalize(c) ==
    normalizePushChannels(
        [k \in Keys |-> CASE k = "path" -> normalizePath(c[k])
                          [] k = "endpoints" -> Endpoints(c[k])
                          [] k \in TextKeys \ {"path", "endpoints"} -> TrimSpace(c[k])
                          [] k \in DurationKeys -> c[k]])

\* Mutant: texts are not looked at.
ValidatesDurations(c) == c["shutdown"] > 0 /\ c["ping"] >= 0 /\ c["routeTTL"] > 0

Validate(c) ==
    /\ \A k \in TextKeys \ {"endpoints"} : c[k] # <<>>
    /\ c["shutdown"] > 0 /\ c["ping"] >= 0 /\ c["routeTTL"] > 0

Load ==
    /\ status = "initial"
    /\ LET loaded == normalize([k \in Keys |-> Value(k)])
       IN  IF file # "missing" /\ Validate(loaded)
           THEN status' = "loaded" /\ cfg' = loaded
           ELSE status' = "rejected" /\ UNCHANGED cfg
    /\ UNCHANGED <<settings, file>>

-----------------------------------------------------------------------------
\* Initialize.  What the machine has to offer is found out on the way.

Found == [redis : BOOLEAN,    \* Redis answers the ping
          handler : BOOLEAN,  \* there is a server id, and signalg takes its options
          port : BOOLEAN,     \* the address can be bound
          address : BOOLEAN]  \* the machine has an internal address

\* data.New.
DataTakes(c, found) ==
    /\ TrimSpace(c["dsn"]) # <<>> /\ TrimSpace(c["dsn"]) \in URLs
    /\ found.redis

\* NewUserRouteStore.
StoreTakes(c) == c["routeTTL"] > 0

\* newPushChannels, of the publisher and again of the subscriber.
ChannelsTake(c) == \A k \in Channels : TrimSpace(c[k]) # <<>>

\* clientv3.New.
EtcdClientTakes(c) == c["endpoints"] # <<>>

\* net.Listen.  No address at all is any port of the machine.
Listens(c, found) == c["grpc"] \in HostPorts \cup {<<>>} /\ found.port

\* Everything up to the address for etcd.
ConstructorsTake(c, found) ==
    /\ DataTakes(c, found) /\ StoreTakes(c) /\ found.handler /\ ChannelsTake(c)
    /\ EtcdClientTakes(c) /\ Listens(c, found)

\* etcdInternalAddr panics when it cannot split the address that is listened on,
\* and when the machine has no address to tell ("addressless").
Construct ==
    /\ status = "loaded"
    /\ \E found \in Found :
          status' = IF ~ ConstructorsTake(cfg, found) THEN "refused"
                    ELSE IF cfg["grpc"] \notin HostPorts THEN "panicked"
                    ELSE IF ~ found.address THEN "addressless" ELSE "constructed"
    /\ UNCHANGED <<settings, file, cfg>>

Next == Load \/ Construct \/ \E x \in Settings : Sets(x)

Spec == Init /\ [][Next]_vars

-----------------------------------------------------------------------------

\* The address never panics Initialize for its form.  net.Listen lets the empty
\* address pass that etcdInternalAddr cannot split (rpc/server.go:31 and 128);
\* what keeps it away is that Load accepts no address that is empty once trimmed,
\* whichever source it comes from.
AddressNeverPanics == status # "panicked"

\* A channel that is set to a blank, wherever that is, is derived from the base
\* in use, wherever that comes from.
BlankChannelIsDerived ==
    status = "loaded" =>
        \A k \in Channels :
            TrimSpace(Value(k)) = <<>> => cfg[k] = Append(cfg["push"], Suffix(k))

\* The plan of the push channels keeps redis.push_channel as the base prefix,
\* and derives the channels that are not set from it
\* (docs/superpowers/plans/2026-05-16-cluster-push-channel-split.md:20).
UnsetChannelIsDerived ==
    status = "loaded" =>
        \A k \in Channels :
            (\A x \in settings : x.key # k) => cfg[k] = Append(cfg["push"], Suffix(k))

=============================================================================
