------------------------ MODULE GatewayConfigProofs ------------------------
(***************************************************************************)
(* Proofs about GatewayConfig, for whatever texts and durations somebody   *)
(* writes into flags, environment and file: what Load accepts is cleaned,  *)
(* and the address in it never panics Initialize for its form.             *)
(***************************************************************************)
EXTENDS GatewayConfig, TextsProofs

-----------------------------------------------------------------------------
\* The values Load starts from.

\* A configuration whose texts are texts.
Raw(c) == /\ c = [k \in Keys |-> c[k]]
          /\ \A k \in TextKeys : c[k] \in Text

\* A word of the source behind a trimmed text, or before one, does not change
\* that it is trimmed.
LEMMA WordBehind ==
  ASSUME NEW text, Trimmed(text), NEW w \in Words
  PROVE  Trimmed(Append(text, w))
<1>1. text \in Seq(Chars) /\ w \in Chars /\ w # Blank
  BY ConfigAssumption DEF Trimmed, Text
<1>2. Len(text) \in Nat \ {0}  BY <1>1, LenProperties, EmptySeq DEF Trimmed
<1> DEFINE whole == Append(text, w)
<1>3. /\ whole \in Seq(Chars) /\ whole # <<>> /\ Len(whole) = Len(text) + 1
      /\ whole[1] = text[1] /\ whole[Len(text) + 1] = w
  BY <1>1, <1>2, AppendProperties
<1> HIDE DEF whole
<1>4. Trimmed(whole)  BY <1>1, <1>3 DEF Trimmed, Text
<1> QED  BY <1>4 DEF whole

LEMMA WordBefore ==
  ASSUME NEW text, Trimmed(text), NEW w \in Words
  PROVE  Trimmed(<<w>> \o text) /\ Head(<<w>> \o text) = w
<1>1. text \in Seq(Chars) /\ w \in Chars /\ w # Blank /\ <<w>> \in Seq(Chars)
  BY ConfigAssumption DEF Trimmed, Text
<1>2. Len(text) \in Nat \ {0}  BY <1>1, LenProperties, EmptySeq DEF Trimmed
<1> DEFINE n == Len(text)
           whole == <<w>> \o text
<1>3. /\ whole \in Seq(Chars) /\ Len(whole) = 1 + n
      /\ \A i \in 1 .. 1 + n : whole[i] = IF i <= 1 THEN <<w>>[i] ELSE text[i - 1]
  BY <1>1, ConcatProperties
<1> HIDE DEF whole
<1>4. whole[1] = w /\ whole[1 + n] = text[n]  BY <1>2, <1>3
<1>5. whole # <<>>  BY <1>2, <1>3, EmptySeq
<1>6. Trimmed(whole) /\ Head(whole) = w
  BY <1>1, <1>3, <1>4, <1>5, HeadTailProperties DEF Trimmed, Text
<1> QED  BY <1>6 DEF whole

\* The defaults are texts with ink at both ends.
LEMMA DefaultsTrimmed == \A k \in TextKeys : Trimmed(Defaults[k])
<1>1. ASSUME NEW w \in Words  PROVE Trimmed(<<w>>)
  BY ConfigAssumption DEF Trimmed, Text
<1>2. Trimmed(<<"/", "hub">>)  BY ConfigAssumption DEF Words, Trimmed, Text
<1>3. \A k \in Channels : Suffix(k) \in Words  BY DEF Channels, Suffix, Words
<1>4. Trimmed(BaseChannel)  BY <1>1 DEF BaseChannel, Words
<1>5. ASSUME NEW k \in Channels  PROVE Trimmed(Append(BaseChannel, Suffix(k)))
  BY <1>3, <1>4, WordBehind
<1>6. Trimmed(<<"default">>)  BY <1>1 DEF Words
<1> SUFFICES ASSUME NEW k \in TextKeys  PROVE Trimmed(Defaults[k])
  OBVIOUS
<1>7. CASE k \in Channels
  BY <1>5, <1>7 DEF Defaults, TextKeys, DurationKeys, Keys, Channels
<1>8. CASE k \in {"dsn", "grpc", "path", "endpoints", "push"}
  BY <1>2, <1>4, <1>6, <1>8 DEF Defaults, TextKeys, DurationKeys, Keys, Channels
<1> QED  BY <1>7, <1>8 DEF TextKeys

\* viper.Get returns a text for the key of a text, wherever it finds it.
LEMMA ValuesAreTexts ==
  ASSUME settings \subseteq Settings
  PROVE  Raw([k \in Keys |-> Value(k)])
<1> SUFFICES ASSUME NEW k \in TextKeys  PROVE Value(k) \in Text
  BY DEF Raw, Keys
<1> DEFINE givers == {i \in DOMAIN Sources : Given(Sources[i], k) # {}}
           first == CHOOSE i \in givers : \A j \in givers : i <= j
<1>1. CASE givers = {}
  BY <1>1, DefaultsTrimmed DEF Value, Trimmed
<1>2. CASE givers # {}
  <2>1. givers \subseteq Nat
    <3>1. DOMAIN Sources = 1 .. 3  BY DEF Sources
    <3> QED  BY <3>1
  <2>2. first \in givers  BY <1>2, <2>1, LeastElement
  <2>3. Given(Sources[first], k) # {}  BY <2>2
  <2>4. Value(k) = (CHOOSE x \in Given(Sources[first], k) : TRUE).value
    BY <1>2 DEF Value
  <2> HIDE DEF first, givers
  <2>5. PICK x \in Given(Sources[first], k) : Value(k) = x.value  BY <2>3, <2>4
  <2>6. x \in Settings /\ x.key = k  BY <2>5 DEF Given
  <2>7. k \notin DurationKeys  BY DEF TextKeys, DurationKeys, Channels
  <2>8. x.value \in Written  BY <2>6, <2>7 DEF Settings
  <2> QED  BY <2>5, <2>8, ConfigAssumption
<1> QED  BY <1>1, <1>2

-----------------------------------------------------------------------------
\* What normalize makes of them.

\* The base of the push channels in use.
Base(c) == IF TrimSpace(c["push"]) = <<>> THEN Defaults["push"] ELSE TrimSpace(c["push"])

\* The cleaned configuration, key by key.
LEMMA NormalizedKeys ==
  ASSUME NEW c, Raw(c)
  PROVE  /\ normalize(c)["dsn"] = TrimSpace(c["dsn"])
         /\ normalize(c)["grpc"] = TrimSpace(c["grpc"])
         /\ normalize(c)["path"] = normalizePath(c["path"])
         /\ normalize(c)["push"] = Base(c)
         /\ \A k \in Channels :
               normalize(c)[k] = IF TrimSpace(c[k]) = <<>>
                                 THEN Append(Base(c), Suffix(k)) ELSE TrimSpace(c[k])
<1> DEFINE n == [k \in Keys |-> CASE k = "path" -> normalizePath(c[k])
                                  [] k = "endpoints" -> Endpoints(c[k])
                                  [] k \in TextKeys \ {"path", "endpoints"} -> TrimSpace(c[k])
                                  [] k \in DurationKeys -> c[k]]
<1>1. n["dsn"] = TrimSpace(c["dsn"]) /\ n["grpc"] = TrimSpace(c["grpc"])
  BY DEF Keys, TextKeys, DurationKeys
<1>2. n["path"] = normalizePath(c["path"])
  BY DEF Keys, TextKeys, DurationKeys
<1>3. n["push"] = TrimSpace(c["push"])  BY DEF Keys, TextKeys, DurationKeys
<1>4. ASSUME NEW k \in Channels  PROVE n[k] = TrimSpace(c[k])
  BY DEF Keys, TextKeys, DurationKeys, Channels
<1>5. normalize(c) = normalizePushChannels(n)  BY DEF normalize
<1> HIDE DEF n
<1> DEFINE base == IF n["push"] = <<>> THEN Defaults["push"] ELSE n["push"]
           m == [k \in Keys |->
                    CASE k = "push" -> base
                      [] k \in Channels /\ n[k] = <<>> -> Append(base, Suffix(k))
                      [] OTHER -> n[k]]
<1>6. base = Base(c)  BY <1>3 DEF Base
<1>7. normalize(c) = m  BY <1>5 DEF normalizePushChannels
<1> HIDE DEF base
<1>8. m["dsn"] = n["dsn"] /\ m["grpc"] = n["grpc"] /\ m["path"] = n["path"] /\ m["push"] = base
  BY DEF Keys, TextKeys, Channels
<1>9. ASSUME NEW k \in Channels  PROVE m[k] = IF n[k] = <<>> THEN Append(base, Suffix(k)) ELSE n[k]
  BY DEF Keys, TextKeys, Channels
<1> HIDE DEF m
<1> QED  BY <1>1, <1>2, <1>4, <1>6, <1>7, <1>8, <1>9


\* normalizePath returns a trimmed text that begins with a slash.
LEMMA PathBeginsWithSlash ==
  ASSUME NEW path \in Text
  PROVE  Trimmed(normalizePath(path)) /\ Head(normalizePath(path)) = "/"
<1> DEFINE trimmed == TrimSpace(path)
<1>1. trimmed # <<>> => Trimmed(trimmed)  BY TrimSpaceTrims
<1>2. normalizePath(path) = IF trimmed = <<>> THEN Defaults["path"]
                            ELSE IF Head(trimmed) = "/" THEN trimmed ELSE <<"/">> \o trimmed
  BY DEF normalizePath
<1> HIDE DEF trimmed
<1>3. Trimmed(Defaults["path"]) /\ Head(Defaults["path"]) = "/"
  <2>1. Defaults["path"] = <<"/", "hub">>  
    BY DEF Defaults, Keys, TextKeys, DurationKeys, Channels
  <2>2. Head(<<"/", "hub">>) = "/"  OBVIOUS
  <2> QED  BY <2>1, <2>2, DefaultsTrimmed DEF TextKeys
<1>4. CASE trimmed = <<>>  BY <1>2, <1>3, <1>4
<1>5. CASE trimmed # <<>> /\ Head(trimmed) = "/"  BY <1>1, <1>2, <1>5
<1>6. CASE trimmed # <<>> /\ Head(trimmed) # "/"
  <2>1. Trimmed(<<"/">> \o trimmed) /\ Head(<<"/">> \o trimmed) = "/"
    BY <1>1, <1>6, WordBefore DEF Words
  <2> QED  BY <1>2, <1>6, <2>1
<1> QED  BY <1>4, <1>5, <1>6

\* The base in use is trimmed, and what is derived from it is.
LEMMA BaseIsTrimmed ==
  ASSUME NEW c, Raw(c)
  PROVE  Trimmed(Base(c)) /\ \A k \in Channels : Trimmed(Append(Base(c), Suffix(k)))
<1>1. "push" \in TextKeys  BY DEF TextKeys
<1>2. c["push"] \in Text  BY <1>1 DEF Raw
<1>3. Trimmed(Base(c))  BY <1>1, <1>2, DefaultsTrimmed, TrimSpaceTrims DEF Base
<1>4. \A k \in Channels : Suffix(k) \in Words  BY DEF Channels, Suffix, Words
<1> QED  BY <1>3, <1>4, WordBehind

\* What normalize makes of any texts is trimmed, or empty if it is the DSN or an
\* address: path and channels never stay empty.
LEMMA NormalizedAreTrimmed ==
  ASSUME NEW c, Raw(c)
  PROVE  /\ \A k \in TextKeys \ {"endpoints", "dsn", "grpc"} : Trimmed(normalize(c)[k])
         /\ \A k \in {"dsn", "grpc"} : normalize(c)[k] # <<>> => Trimmed(normalize(c)[k])
         /\ Head(normalize(c)["path"]) = "/"
<1> DEFINE n == normalize(c)
<1>1. \A k \in TextKeys : c[k] \in Text  BY DEF Raw
<1>2. c["dsn"] \in Text /\ c["grpc"] \in Text /\ c["path"] \in Text  BY <1>1 DEF TextKeys
<1>3. ASSUME NEW k \in {"dsn", "grpc"}, n[k] # <<>>  PROVE Trimmed(n[k])
  <2>1. n[k] = TrimSpace(c[k]) /\ c[k] \in Text  BY <1>2, NormalizedKeys
  <2> QED  BY <1>3, <2>1, TrimSpaceTrims
<1>4. Trimmed(n["path"]) /\ Head(n["path"]) = "/"
  BY <1>2, NormalizedKeys, PathBeginsWithSlash
<1>5. Trimmed(n["push"])  BY NormalizedKeys, BaseIsTrimmed
<1>6. ASSUME NEW k \in Channels  PROVE Trimmed(n[k])
  <2>1. c[k] \in Text  BY <1>1 DEF TextKeys
  <2>2. n[k] = IF TrimSpace(c[k]) = <<>> THEN Append(Base(c), Suffix(k)) ELSE TrimSpace(c[k])
    BY NormalizedKeys
  <2>3. CASE TrimSpace(c[k]) = <<>>  BY <2>2, <2>3, BaseIsTrimmed
  <2>4. CASE TrimSpace(c[k]) # <<>>
    <3>1. Trimmed(TrimSpace(c[k]))  BY <2>1, <2>4, TrimSpaceTrims
    <3> QED  BY <2>2, <2>4, <3>1
  <2> QED  BY <2>3, <2>4
<1> HIDE DEF n
<1>7. \A k \in TextKeys \ {"endpoints", "dsn", "grpc"} : Trimmed(n[k])
  BY <1>4, <1>5, <1>6 DEF TextKeys
<1> QED  BY <1>3, <1>4, <1>7 DEF n

-----------------------------------------------------------------------------
\* The invariant.

Types == /\ settings \subseteq Settings
         /\ file \in {"read", "absent", "missing"}
         /\ status \in {"initial", "rejected", "loaded", "refused", "panicked",
                        "addressless", "constructed"}

\* What Load accepted is what it made of the settings, which nobody changes
\* afterwards, and it has passed Validate; an address that is listened on and
\* cannot be split is the empty one.
Accepted ==
    /\ status \notin {"initial", "rejected"} =>
          cfg = normalize([k \in Keys |-> Value(k)]) /\ Validate(cfg)
    /\ status = "panicked" => cfg["grpc"] = <<>>

IInv == Types /\ Accepted

LEMMA Initially == Init => IInv
BY DEF Init, IInv, Types, Accepted

LEMMA Steps == IInv /\ [Next]_vars => IInv'
<1> SUFFICES ASSUME IInv, [Next]_vars  PROVE IInv'
  OBVIOUS
<1> USE DEF IInv, Types, Accepted
<1>1. ASSUME NEW x \in Settings, Sets(x)  PROVE IInv'
  BY <1>1 DEF Sets
<1>2. CASE Load
  <2>1. Types'  BY <1>2 DEF Load
  <2>2. status' \in {"loaded", "rejected"}  BY <1>2 DEF Load
  <2>3. ASSUME status' = "loaded"
        PROVE  cfg' = normalize([k \in Keys |-> Value(k)]) /\ Validate(normalize([k \in Keys |-> Value(k)]))
    BY <1>2, <2>3 DEF Load
  <2>4. [k \in Keys |-> Value(k)]' = [k \in Keys |-> Value(k)]
    BY <1>2 DEF Load, Value, Given
  <2>5. normalize([k \in Keys |-> Value(k)])' = normalize([k \in Keys |-> Value(k)])
    BY <2>4
  <2> QED  BY <2>1, <2>2, <2>3, <2>5
<1>3. CASE Construct
  <2>1. Types' /\ cfg' = cfg  BY <1>3 DEF Construct
  <2>2. status' \in {"refused", "panicked", "addressless", "constructed"}
    BY <1>3 DEF Construct
  <2>3. status' = "panicked" => cfg["grpc"] = <<>>
    BY <1>3 DEF Construct, ConstructorsTake, Listens
  <2>4. cfg = normalize([k \in Keys |-> Value(k)]) /\ Validate(cfg)
    BY <1>3 DEF Construct
  <2>5. normalize([k \in Keys |-> Value(k)])' = normalize([k \in Keys |-> Value(k)])
    <3>1. settings' = settings  BY <1>3 DEF Construct
    <3>2. [k \in Keys |-> Value(k)]' = [k \in Keys |-> Value(k)]
      BY <3>1 DEF Value, Given
    <3> QED  BY <3>2
  <2> QED  BY <2>1, <2>2, <2>3, <2>4, <2>5
<1>4. CASE UNCHANGED vars
  <2>1. normalize([k \in Keys |-> Value(k)])' = normalize([k \in Keys |-> Value(k)])
    BY <1>4 DEF vars, Value, Given
  <2> QED  BY <1>4, <2>1 DEF vars
<1> QED  BY <1>1, <1>2, <1>3, <1>4 DEF Next

THEOREM Invariance == Spec => []IInv
BY Initially, Steps, PTL DEF Spec

-----------------------------------------------------------------------------
\* The properties.

\* What Load accepted has ink at both ends of every text but the endpoints.
LEMMA AcceptedAreTrimmed ==
  ASSUME IInv, status \notin {"initial", "rejected"}
  PROVE  /\ \A k \in TextKeys \ {"endpoints"} : Trimmed(cfg[k])
         /\ Head(cfg["path"]) = "/"
<1> DEFINE c == [k \in Keys |-> Value(k)]
<1>1. Raw(c)  BY ValuesAreTexts DEF IInv, Types
<1>2. cfg = normalize(c) /\ Validate(cfg)  BY DEF IInv, Accepted
<1> HIDE DEF c
<1>3. \A k \in {"dsn", "grpc"} : cfg[k] # <<>>  BY <1>2 DEF Validate, TextKeys
<1> QED  BY <1>1, <1>2, <1>3, NormalizedAreTrimmed

\* The settings, the file and the status keep their types, and every text Load
\* accepted is one that TrimSpace does not change: config.go:251-316, for
\* whatever texts are written and however many of them.
THEOREM ConfigTypes == Spec => []TypeOK
<1>1. IInv => TypeOK
  <2> SUFFICES ASSUME IInv  PROVE TypeOK
    OBVIOUS
  <2>1. status \in {"loaded", "constructed"} =>
          /\ \A k \in TextKeys \ {"endpoints"} : cfg[k] = TrimSpace(cfg[k])
          /\ Head(cfg["path"]) = "/"
    BY AcceptedAreTrimmed, TrimmedStays
  <2> QED  BY <2>1 DEF IInv, Types, TypeOK
<1> QED  BY <1>1, Invariance, PTL

\* The address in what Load accepted never panics etcdInternalAddr for its form
\* (rpc/server.go:126-131), for whatever is written where, whatever the machine
\* has to offer, and whatever net.SplitHostPort parses.
THEOREM AddressParses == Spec => []AddressNeverPanics
<1>1. IInv => AddressNeverPanics
  <2> SUFFICES ASSUME IInv, status = "panicked"  PROVE FALSE
    BY DEF AddressNeverPanics
  <2>1. cfg["grpc"] = <<>> /\ Validate(cfg)  BY DEF IInv, Accepted
  <2> QED  BY <2>1 DEF Validate, TextKeys
<1> QED  BY <1>1, Invariance, PTL

\* A channel set to a blank is derived from the base in use, whichever of the
\* sources sets either of them.
THEOREM BlankChannels == Spec => []BlankChannelIsDerived
<1>1. IInv => BlankChannelIsDerived
  <2> SUFFICES ASSUME IInv, status = "loaded",
                      NEW k \in Channels, TrimSpace(Value(k)) = <<>>
               PROVE  cfg[k] = Append(cfg["push"], Suffix(k))
    BY DEF BlankChannelIsDerived
  <2> DEFINE c == [l \in Keys |-> Value(l)]
  <2>1. Raw(c)  BY ValuesAreTexts DEF IInv, Types
  <2>2. cfg = normalize(c)  BY DEF IInv, Accepted
  <2>3. TrimSpace(c[k]) = <<>>  BY DEF Keys, TextKeys
  <2> HIDE DEF c
  <2> QED  BY <2>1, <2>2, <2>3, NormalizedKeys
<1> QED  BY <1>1, Invariance, PTL

=============================================================================
