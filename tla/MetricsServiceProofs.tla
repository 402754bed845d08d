------------------------ MODULE MetricsServiceProofs ------------------------
(***************************************************************************)
(* The metrics service over any rooms and peers, with any names that its   *)
(* callers register: its registry keeps one account of each name, its two  *)
(* flags say what was registered, and a scrape shows the rooms as they     *)
(* are.                                                                    *)
(***************************************************************************)
EXTENDS MetricsService, RoomRegistryProofs, FiniteSetTheorems

Entry == [type : Types, name : Names, maker : {"caller", "collector", "service"}]
Label == [name : Names, type : Types]
Registries == [instruments : SUBSET Entry, descriptors : SUBSET Label, threw : BOOLEAN]

MetricsTypeOK ==
    /\ strict \in BOOLEAN /\ ready \in BOOLEAN /\ initialized \in BOOLEAN /\ fresh \in BOOLEAN
    /\ instruments \subseteq Entry
    /\ descriptors \subseteq Label
    /\ media \subseteq Peers
    /\ removed \subseteq Names
    /\ connected \in Nat
    /\ joined \in Nat
    /\ roomSeries \in [Rooms -> Nat \cup {None}]
    /\ mediaSeries \in [Rooms -> [Peers -> Nat \cup {None}]]

\* OneInstrumentPerName of any registry.
OneStory(reg) ==
    /\ {[name |-> e.name, type |-> e.type] : e \in reg.instruments} = reg.descriptors
    /\ \A e, f \in reg.instruments : e.name = f.name => e = f

\* The collector's instruments are all there, but for the names that callers
\* removed, or none of them is.
Standards == {Standard[1], Standard[2], Standard[3], Standard[4], Standard[5]}
Together(entries, names) ==
    \/ \A e \in Standards : e \in entries \/ e.name \in names
    \/ \A e \in Standards : e \notin entries

\* The flags of the two initialize methods.
FlagsTruthful ==
    /\ initialized => ready
    /\ strict /\ ready => Together(instruments, removed)

SessionsFinite == IsFiniteSet(sessions)

MetricsServiceInv ==
    /\ RegistryInv
    /\ SessionsFinite
    /\ MetricsTypeOK
    /\ OneInstrumentPerName
    /\ FlagsTruthful
    /\ ScrapeCurrent

-----------------------------------------------------------------------------
(* MetricRegistry.register. *)

\* Whatever it is asked to enter, a registry keeps one account of each name;
\* it takes nothing out, and on a strict one it enters the instrument or throws.
LEMMA RegisterResult ==
    ASSUME strict \in BOOLEAN, NEW reg \in Registries, OneStory(reg), NEW e \in Entry
    PROVE  /\ Register(reg, e) \in Registries
           /\ OneStory(Register(reg, e))
           /\ reg.threw => Register(reg, e).threw
           /\ reg.instruments \subseteq Register(reg, e).instruments
           /\ Register(reg, e).instruments \subseteq reg.instruments \cup {e}
           /\ strict /\ ~Register(reg, e).threw => e \in Register(reg, e).instruments
  <1> DEFINE label == [name |-> e.name, type |-> e.type]
             more == [instruments |-> reg.instruments \cup {e},
                      descriptors |-> {d \in reg.descriptors : d.name # e.name} \cup {label},
                      threw |-> FALSE]
             Clash == \E d \in reg.descriptors : d.name = e.name /\ d.type # e.type
  <1>1. /\ reg.instruments \in SUBSET Entry /\ reg.descriptors \in SUBSET Label /\ reg.threw \in BOOLEAN
        /\ label \in Label
    BY DEF Registries, Entry, Label
  <1>2. CASE reg.threw
    <2>1. Register(reg, e) = reg
      BY <1>2 DEF Register
    <2> QED  BY <2>1, <1>2
  <1>3. CASE ~reg.threw /\ InStore(reg, e)
    <2>1. Register(reg, e) = [reg EXCEPT !.threw = strict]
      BY <1>3 DEF Register
    <2>2. [reg EXCEPT !.threw = strict] \in Registries
      BY DEF Registries
    <2>3. /\ Register(reg, e).instruments = reg.instruments
          /\ Register(reg, e).descriptors = reg.descriptors
          /\ Register(reg, e).threw = strict
      BY <2>1 DEF Registries
    <2> QED  BY <2>1, <2>2, <2>3, <1>3 DEF OneStory
  <1>4. CASE ~reg.threw /\ ~InStore(reg, e) /\ Clash
    <2>1. Register(reg, e) = [reg EXCEPT !.threw = TRUE]
      BY <1>4 DEF Register
    <2>2. [reg EXCEPT !.threw = TRUE] \in Registries
      BY DEF Registries
    <2>3. /\ Register(reg, e).instruments = reg.instruments
          /\ Register(reg, e).descriptors = reg.descriptors
          /\ Register(reg, e).threw = TRUE
      BY <2>1 DEF Registries
    <2> QED  BY <2>1, <2>2, <2>3, <1>4 DEF OneStory
  <1>5. CASE ~reg.threw /\ ~InStore(reg, e) /\ ~Clash
    <2>1. Register(reg, e) = more
      BY <1>5 DEF Register
    <2>2. more \in Registries
      BY <1>1 DEF Registries
    <2>3. \A x \in reg.instruments : x.name # e.name
      <3>1. ASSUME NEW x \in reg.instruments, x.name = e.name  PROVE FALSE
        <4>1. [name |-> x.name, type |-> x.type] \in reg.descriptors
          BY <3>1 DEF OneStory
        <4>2. x.type = e.type
          BY <4>1, <3>1, <1>5
        <4> QED  BY <4>2, <3>1, <1>5 DEF InStore
      <3> QED  BY <3>1
    <2>4. \A d \in reg.descriptors : d.name # e.name
      BY <2>3 DEF OneStory
    <2>5. more.instruments = reg.instruments \cup {e} /\ more.descriptors = reg.descriptors \cup {label}
      BY <2>4
    <2>6. {[name |-> x.name, type |-> x.type] : x \in more.instruments} = more.descriptors
      BY <2>5 DEF OneStory
    <2>7. \A x, y \in more.instruments : x.name = y.name => x = y
      BY <2>3, <2>5 DEF OneStory
    <2>8. OneStory(more)
      BY <2>6, <2>7 DEF OneStory
    <2>9. more.threw = FALSE
      OBVIOUS
    <2> HIDE DEF more
    <2> QED  BY <2>1, <2>2, <2>5, <2>8, <2>9, <1>5
  <1> QED  BY <1>2, <1>3, <1>4, <1>5, <1>1

\* A name that is nobody's yet is entered, on a lenient registry as well.
LEMMA RegisterNew ==
    ASSUME strict \in BOOLEAN, NEW reg \in Registries, OneStory(reg), NEW e \in Entry,
           ~reg.threw, \A x \in reg.instruments : x.name # e.name
    PROVE  Register(reg, e).instruments = reg.instruments \cup {e} /\ ~Register(reg, e).threw
  <1>1. ~InStore(reg, e)
    BY DEF InStore
  <1>2. ~\E d \in reg.descriptors : d.name = e.name /\ d.type # e.type
    BY DEF OneStory
  <1> QED  BY <1>1, <1>2 DEF Register

-----------------------------------------------------------------------------
(* The registrations of initialize. *)

LEMMA StandardEntries ==
    /\ DOMAIN Standard = {1, 2, 3, 4, 5}
    /\ Standard[1] \in Entry /\ Standard[1].name = "connected" /\ Standard[1].maker = "collector"
    /\ Standard[2] \in Entry /\ Standard[2].name = "joined" /\ Standard[2].maker = "collector"
    /\ Standard[3] \in Entry /\ Standard[3].name = "rooms" /\ Standard[3].maker = "collector"
    /\ Standard[4] \in Entry /\ Standard[4].name = "media" /\ Standard[4].maker = "collector"
    /\ Standard[5] \in Entry /\ Standard[5].name = "requests" /\ Standard[5].maker = "collector"
    /\ BuiltIn \in Entry /\ BuiltIn.maker = "service"
  <1>1. DOMAIN Standard = 1 .. 5
    BY DEF Standard
  <1>2. /\ Standard[1] = Instrument("gauge", "connected", "collector")
        /\ Standard[2] = Instrument("counter", "joined", "collector")
        /\ Standard[3] = Instrument("gauge", "rooms", "collector")
        /\ Standard[4] = Instrument("gauge", "media", "collector")
        /\ Standard[5] = Instrument("histogram", "requests", "collector")
    BY DEF Standard
  <1>3. {"connected", "joined", "rooms", "media", "requests", "up"} \subseteq Names
    BY DEF Names
  <1>4. BuiltIn \in Entry /\ BuiltIn.maker = "service"
    BY <1>3 DEF BuiltIn, Instrument, Entry, Types
  <1>5. ASSUME NEW t \in Types, NEW n \in {"connected", "joined", "rooms", "media", "requests", "up"}
        PROVE  /\ Instrument(t, n, "collector") \in Entry
               /\ Instrument(t, n, "collector").name = n
               /\ Instrument(t, n, "collector").maker = "collector"
    BY <1>3 DEF Instrument, Entry
  <1>6. "gauge" \in Types /\ "counter" \in Types /\ "histogram" \in Types
    BY DEF Types
  <1> QED  BY <1>1, <1>2, <1>4, <1>5, <1>6

\* The collector's five registrations, on any registry.
LEMMA RegisterStandardResult ==
    ASSUME strict \in BOOLEAN, NEW reg \in Registries, OneStory(reg)
    PROVE  LET all == RegisterStandard(reg)
           IN /\ all \in Registries
              /\ OneStory(all)
              /\ reg.instruments \subseteq all.instruments
              /\ strict /\ ~all.threw => \A e \in Standards : e \in all.instruments
  <1> DEFINE r1 == Register(reg, Standard[1])
             r2 == Register(r1, Standard[2])
             r3 == Register(r2, Standard[3])
             r4 == Register(r3, Standard[4])
             r5 == Register(r4, Standard[5])
  <1>1. /\ r1 \in Registries /\ OneStory(r1) /\ reg.instruments \subseteq r1.instruments
        /\ strict /\ ~r1.threw => Standard[1] \in r1.instruments
    BY StandardEntries, RegisterResult
  <1> HIDE DEF r1
  <1>2. /\ r2 \in Registries /\ OneStory(r2) /\ r1.instruments \subseteq r2.instruments
        /\ r1.threw => r2.threw
        /\ strict /\ ~r2.threw => Standard[2] \in r2.instruments
    BY <1>1, StandardEntries, RegisterResult
  <1> HIDE DEF r2
  <1>3. /\ r3 \in Registries /\ OneStory(r3) /\ r2.instruments \subseteq r3.instruments
        /\ r2.threw => r3.threw
        /\ strict /\ ~r3.threw => Standard[3] \in r3.instruments
    BY <1>2, StandardEntries, RegisterResult
  <1> HIDE DEF r3
  <1>4. /\ r4 \in Registries /\ OneStory(r4) /\ r3.instruments \subseteq r4.instruments
        /\ r3.threw => r4.threw
        /\ strict /\ ~r4.threw => Standard[4] \in r4.instruments
    BY <1>3, StandardEntries, RegisterResult
  <1> HIDE DEF r4
  <1>5. /\ r5 \in Registries /\ OneStory(r5) /\ r4.instruments \subseteq r5.instruments
        /\ r4.threw => r5.threw
        /\ strict /\ ~r5.threw => Standard[5] \in r5.instruments
    BY <1>4, StandardEntries, RegisterResult
  <1> HIDE DEF r5
  <1>6. RegisterStandard(reg) = r5
    BY DEF RegisterStandard, r1, r2, r3, r4, r5
  <1>7. /\ r1.threw \in BOOLEAN /\ r2.threw \in BOOLEAN /\ r3.threw \in BOOLEAN
        /\ r4.threw \in BOOLEAN /\ r5.threw \in BOOLEAN
    BY <1>1, <1>2, <1>3, <1>4, <1>5 DEF Registries
  <1>8. ~r5.threw => ~r4.threw /\ ~r3.threw /\ ~r2.threw /\ ~r1.threw
    BY <1>2, <1>3, <1>4, <1>5
  <1>9. strict /\ ~r5.threw => \A e \in Standards : e \in r5.instruments
    BY <1>1, <1>2, <1>3, <1>4, <1>5, <1>8 DEF Standards
  <1> QED  BY <1>1, <1>2, <1>3, <1>4, <1>5, <1>6, <1>9

\* On an empty registry they all succeed, strict or not.
Empty == [instruments |-> {}, descriptors |-> {}, threw |-> FALSE]

LEMMA StandardOnEmpty ==
    ASSUME strict \in BOOLEAN
    PROVE  RegisterStandard(Empty).instruments = Standards /\ ~RegisterStandard(Empty).threw
  <1> DEFINE r1 == Register(Empty, Standard[1])
             r2 == Register(r1, Standard[2])
             r3 == Register(r2, Standard[3])
             r4 == Register(r3, Standard[4])
             r5 == Register(r4, Standard[5])
  <1>0. Empty \in Registries /\ OneStory(Empty) /\ ~Empty.threw /\ Empty.instruments = {}
    BY DEF Empty, Registries, OneStory
  <1>1. /\ r1 \in Registries /\ OneStory(r1) /\ ~r1.threw
        /\ r1.instruments = {Standard[1]}
    <2>1. r1 \in Registries /\ OneStory(r1)
      BY <1>0, StandardEntries, RegisterResult
    <2>2. r1.instruments = Empty.instruments \cup {Standard[1]} /\ ~r1.threw
      BY <1>0, StandardEntries, RegisterNew
    <2> QED  BY <1>0, <2>1, <2>2
  <1> HIDE DEF r1
  <1>2. /\ r2 \in Registries /\ OneStory(r2) /\ ~r2.threw
        /\ r2.instruments = {Standard[1], Standard[2]}
    <2>1. r2 \in Registries /\ OneStory(r2)
      BY <1>1, StandardEntries, RegisterResult
    <2>2. \A x \in r1.instruments : x.name # Standard[2].name
      BY <1>1, StandardEntries
    <2>3. r2.instruments = r1.instruments \cup {Standard[2]} /\ ~r2.threw
      BY <1>1, <2>2, StandardEntries, RegisterNew
    <2> QED  BY <1>1, <2>1, <2>3
  <1> HIDE DEF r2
  <1>3. /\ r3 \in Registries /\ OneStory(r3) /\ ~r3.threw
        /\ r3.instruments = {Standard[1], Standard[2], Standard[3]}
    <2>1. r3 \in Registries /\ OneStory(r3)
      BY <1>2, StandardEntries, RegisterResult
    <2>2. \A x \in r2.instruments : x.name # Standard[3].name
      BY <1>2, StandardEntries
    <2>3. r3.instruments = r2.instruments \cup {Standard[3]} /\ ~r3.threw
      BY <1>2, <2>2, StandardEntries, RegisterNew
    <2> QED  BY <1>2, <2>1, <2>3
  <1> HIDE DEF r3
  <1>4. /\ r4 \in Registries /\ OneStory(r4) /\ ~r4.threw
        /\ r4.instruments = {Standard[1], Standard[2], Standard[3], Standard[4]}
    <2>1. r4 \in Registries /\ OneStory(r4)
      BY <1>3, StandardEntries, RegisterResult
    <2>2. \A x \in r3.instruments : x.name # Standard[4].name
      BY <1>3, StandardEntries
    <2>3. r4.instruments = r3.instruments \cup {Standard[4]} /\ ~r4.threw
      BY <1>3, <2>2, StandardEntries, RegisterNew
    <2> QED  BY <1>3, <2>1, <2>3
  <1> HIDE DEF r4
  <1>5. r5.instruments = Standards /\ ~r5.threw
    <2>1. \A x \in r4.instruments : x.name # Standard[5].name
      BY <1>4, StandardEntries
    <2>2. r5.instruments = r4.instruments \cup {Standard[5]} /\ ~r5.threw
      BY <1>4, <2>1, StandardEntries, RegisterNew
    <2> QED  BY <1>4, <2>2 DEF Standards
  <1>6. RegisterStandard(Empty) = r5
    BY DEF RegisterStandard, r1, r2, r3, r4
  <1> QED  BY <1>5, <1>6

\* Instruments that are not the collector's come and go without an effect on it.
LEMMA OthersKeepTogether ==
    ASSUME NEW old \in SUBSET Entry, NEW new \in SUBSET Entry, NEW names,
           \A e \in Entry : e.maker = "collector" => (e \in old <=> e \in new)
    PROVE  Together(old, names) <=> Together(new, names)
  <1>1. \A e \in Standards : e \in Entry /\ e.maker = "collector"
    BY StandardEntries DEF Standards
  <1> QED  BY <1>1 DEF Together

LEMMA RegisterOtherTogether ==
    ASSUME strict \in BOOLEAN, NEW reg \in Registries, OneStory(reg), NEW e \in Entry, NEW names,
           e.maker # "collector", Together(reg.instruments, names)
    PROVE  Together(Register(reg, e).instruments, names)
  <1>1. /\ Register(reg, e) \in Registries
        /\ reg.instruments \subseteq Register(reg, e).instruments
        /\ Register(reg, e).instruments \subseteq reg.instruments \cup {e}
    BY RegisterResult
  <1>2. Register(reg, e).instruments \in SUBSET Entry /\ reg.instruments \in SUBSET Entry
    BY <1>1 DEF Registries
  <1> QED  BY <1>1, <1>2, OthersKeepTogether

\* The registry that the model's variables make up.
LEMMA RegistryIsOne ==
    ASSUME MetricsTypeOK, OneInstrumentPerName
    PROVE  /\ Registry \in Registries
           /\ OneStory(Registry)
           /\ Registry.instruments = instruments /\ Registry.descriptors = descriptors /\ ~Registry.threw
  BY DEF MetricsTypeOK, OneInstrumentPerName, OneStory, Registry, Registries

\* After MetricsService.initialize, also when it throws halfway, each flag is
\* set only if what it stands for was registered.
LEMMA InitializedResult ==
    ASSUME MetricsTypeOK, OneInstrumentPerName, FlagsTruthful
    PROVE  LET done == Initialized(Registry)
           IN /\ done.registry \in Registries
              /\ OneStory(done.registry)
              /\ done.ready \in BOOLEAN /\ done.initialized \in BOOLEAN
              /\ done.initialized => done.ready
              /\ strict /\ done.ready => Together(done.registry.instruments, removed)
  <1> DEFINE standard == IF ready THEN Registry ELSE RegisterStandard(Registry)
             all == Register(standard, BuiltIn)
             done == Initialized(Registry)
  <1>0. strict \in BOOLEAN /\ ready \in BOOLEAN /\ initialized \in BOOLEAN
    BY DEF MetricsTypeOK
  <1>1. /\ Registry \in Registries /\ OneStory(Registry)
        /\ Registry.instruments = instruments /\ ~Registry.threw
    BY RegistryIsOne
  <1>2. standard \in Registries /\ OneStory(standard)
    BY <1>0, <1>1, RegisterStandardResult
  <1>3. strict /\ (ready \/ ~standard.threw) => Together(standard.instruments, removed)
    <2>1. CASE ready
      BY <1>1, <2>1 DEF FlagsTruthful
    <2>2. CASE ~ready
      <3>1. strict /\ ~standard.threw => \A e \in Standards : e \in standard.instruments
        BY <1>0, <1>1, <2>2, RegisterStandardResult
      <3> QED  BY <3>1, <2>2 DEF Together
    <2> QED  BY <2>1, <2>2, <1>0
  <1> HIDE DEF standard
  <1>4. all \in Registries /\ OneStory(all) /\ (standard.threw => all.threw)
    BY <1>0, <1>2, StandardEntries, RegisterResult
  <1>5. strict /\ (ready \/ ~standard.threw) => Together(all.instruments, removed)
    BY <1>0, <1>2, <1>3, StandardEntries, RegisterOtherTogether
  <1>6. standard.threw \in BOOLEAN /\ all.threw \in BOOLEAN
    BY <1>2, <1>4 DEF Registries
  <1> HIDE DEF all
  <1>7. CASE initialized
    <2>1. done = [registry |-> Registry, ready |-> ready, initialized |-> TRUE]
      BY <1>7 DEF Initialized
    <2>2. ready
      BY <1>7 DEF FlagsTruthful
    <2>3. strict => Together(instruments, removed)
      BY <2>2 DEF FlagsTruthful
    <2> QED  BY <1>0, <1>1, <2>1, <2>2, <2>3
  <1>8. CASE ~initialized
    <2>1. done = [registry |-> all, ready |-> ready \/ ~standard.threw, initialized |-> ~all.threw]
      BY <1>8 DEF Initialized, standard, all
    <2>2. done.registry = all /\ done.ready = (ready \/ ~standard.threw) /\ done.initialized = ~all.threw
      BY <2>1
    <2> HIDE DEF done
    <2> QED  BY <1>0, <1>4, <1>5, <1>6, <2>2 DEF done
  <1> QED  BY <1>7, <1>8, <1>0

-----------------------------------------------------------------------------
(* The operations on the registry leave the figures alone. *)

StoreInv == MetricsTypeOK /\ OneInstrumentPerName /\ FlagsTruthful

LEMMA KeepRegistry ==
    ASSUME NEW reg \in Registries, OneStory(reg), Keep(reg)
    PROVE  /\ instruments' \subseteq Entry
           /\ descriptors' \subseteq Label
           /\ instruments' = reg.instruments
           /\ OneInstrumentPerName'
  <1>1. instruments' = reg.instruments /\ descriptors' = reg.descriptors
    BY DEF Keep
  <1>2. reg.instruments \in SUBSET Entry /\ reg.descriptors \in SUBSET Label
    BY DEF Registries
  <1> QED  BY <1>1, <1>2 DEF OneStory, OneInstrumentPerName

LEMMA CustomEntry ==
    ASSUME NEW t \in Types, NEW n \in CallerNames
    PROVE  Custom(t, n) \in Entry /\ Custom(t, n).maker = "caller"
  BY DEF Custom, Instrument, Entry, Names

\* A caller's registrations on any registry.
LEMMA RegisterCustomResult ==
    ASSUME strict \in BOOLEAN, NEW reg \in Registries, OneStory(reg), NEW t \in Types, NEW n \in CallerNames
    PROVE  LET R == Register(reg, Custom(t, n))
           IN /\ R \in Registries
              /\ OneStory(R)
              /\ \A names : Together(reg.instruments, names) => Together(R.instruments, names)
  <1>1. Custom(t, n) \in Entry /\ Custom(t, n).maker # "collector"
    BY CustomEntry
  <1>2. Register(reg, Custom(t, n)) \in Registries /\ OneStory(Register(reg, Custom(t, n)))
    BY <1>1, RegisterResult
  <1>3. ASSUME NEW names, Together(reg.instruments, names)
        PROVE  Together(Register(reg, Custom(t, n)).instruments, names)
    BY <1>1, <1>3, RegisterOtherTogether
  <1> QED  BY <1>2, <1>3

LEMMA MergeKeepsStore ==
    ASSUME StoreInv, NEW c \in CallerNames, NEW g \in CallerNames, MergeRegistry(c, g)
    PROVE  StoreInv'
  <1> DEFINE first == Register(Registry, Custom("counter", c))
             both == Register(first, Custom("gauge", g))
  <1>1. strict \in BOOLEAN /\ "counter" \in Types /\ "gauge" \in Types
    BY DEF StoreInv, MetricsTypeOK, Types
  <1>2. Registry \in Registries /\ OneStory(Registry) /\ Registry.instruments = instruments
    BY RegistryIsOne DEF StoreInv
  <1>3. /\ first \in Registries /\ OneStory(first)
        /\ \A names : Together(instruments, names) => Together(first.instruments, names)
    BY <1>1, <1>2, RegisterCustomResult
  <1> HIDE DEF first
  <1>4. /\ both \in Registries /\ OneStory(both)
        /\ \A names : Together(first.instruments, names) => Together(both.instruments, names)
    BY <1>1, <1>3, RegisterCustomResult
  <1>5. Keep(both) /\ UNCHANGED <<strict, ready, initialized, removed, cellVars, media, fresh>>
    BY DEF MergeRegistry, first
  <1> HIDE DEF both
  <1>6. /\ instruments' \subseteq Entry /\ descriptors' \subseteq Label
        /\ instruments' = both.instruments /\ OneInstrumentPerName'
    BY <1>4, <1>5, KeepRegistry
  <1>7. MetricsTypeOK'
    BY <1>5, <1>6 DEF StoreInv, MetricsTypeOK, cellVars
  <1>8. FlagsTruthful'
    BY <1>3, <1>4, <1>5, <1>6 DEF StoreInv, FlagsTruthful
  <1> QED  BY <1>6, <1>7, <1>8 DEF StoreInv

LEMMA RegisterDirectlyKeepsStore ==
    ASSUME StoreInv, NEW t \in Types, NEW n \in CallerNames, RegisterDirectly(t, n)
    PROVE  StoreInv'
  <1> DEFINE R == Register(Registry, Custom(t, n))
  <1>1. strict \in BOOLEAN
    BY DEF StoreInv, MetricsTypeOK
  <1>2. Registry \in Registries /\ OneStory(Registry) /\ Registry.instruments = instruments
    BY RegistryIsOne DEF StoreInv
  <1>3. /\ R \in Registries /\ OneStory(R)
        /\ \A names : Together(instruments, names) => Together(R.instruments, names)
    BY <1>1, <1>2, RegisterCustomResult
  <1>4. Keep(R) /\ UNCHANGED <<strict, ready, initialized, removed, cellVars, media, fresh>>
    BY DEF RegisterDirectly
  <1> HIDE DEF R
  <1>5. /\ instruments' \subseteq Entry /\ descriptors' \subseteq Label
        /\ instruments' = R.instruments /\ OneInstrumentPerName'
    BY <1>3, <1>4, KeepRegistry
  <1>6. MetricsTypeOK'
    BY <1>4, <1>5 DEF StoreInv, MetricsTypeOK, cellVars
  <1>7. FlagsTruthful'
    BY <1>3, <1>4, <1>5 DEF StoreInv, FlagsTruthful
  <1> QED  BY <1>5, <1>6, <1>7 DEF StoreInv

\* What is entered after initialize, whatever that is.
LEMMA EnterInitializedKeepsStore ==
    ASSUME StoreInv, NEW reg \in Registries, OneStory(reg), EnterInitialized(reg),
           \A names : Together(Initialized(Registry).registry.instruments, names) => Together(reg.instruments, names)
    PROVE  StoreInv'
  <1> DEFINE done == Initialized(Registry)
  <1>1. /\ done.ready \in BOOLEAN /\ done.initialized \in BOOLEAN
        /\ done.initialized => done.ready
        /\ strict /\ done.ready => Together(done.registry.instruments, removed)
    BY InitializedResult DEF StoreInv
  <1>2. /\ Keep(reg) /\ ready' = done.ready /\ initialized' = done.initialized
        /\ UNCHANGED <<strict, cellVars, media, fresh, removed>>
    BY DEF EnterInitialized
  <1>3. \A names : Together(done.registry.instruments, names) => Together(reg.instruments, names)
    OBVIOUS
  <1> HIDE DEF done
  <1>4. /\ instruments' \subseteq Entry /\ descriptors' \subseteq Label
        /\ instruments' = reg.instruments /\ OneInstrumentPerName'
    BY <1>2, KeepRegistry
  <1>5. MetricsTypeOK'
    BY <1>1, <1>2, <1>4 DEF StoreInv, MetricsTypeOK, cellVars
  <1>6. FlagsTruthful'
    BY <1>1, <1>2, <1>3, <1>4 DEF StoreInv, FlagsTruthful
  <1> QED  BY <1>4, <1>5, <1>6 DEF StoreInv

LEMMA InitializeKeepsStore ==
    ASSUME StoreInv, Initialize
    PROVE  StoreInv'
  <1>1. Initialized(Registry).registry \in Registries /\ OneStory(Initialized(Registry).registry)
    BY InitializedResult DEF StoreInv
  <1>2. EnterInitialized(Initialized(Registry).registry)
    BY DEF Initialize
  <1> QED  BY <1>1, <1>2, EnterInitializedKeepsStore

LEMMA RegisterCustomKeepsStore ==
    ASSUME StoreInv, NEW t \in Types, NEW n \in CallerNames, RegisterCustom(t, n)
    PROVE  StoreInv'
  <1> DEFINE reg == Initialized(Registry).registry
             R == Register(reg, Custom(t, n))
  <1>1. strict \in BOOLEAN
    BY DEF StoreInv, MetricsTypeOK
  <1>2. reg \in Registries /\ OneStory(reg)
    BY InitializedResult DEF StoreInv
  <1>3. /\ R \in Registries /\ OneStory(R)
        /\ \A names : Together(reg.instruments, names) => Together(R.instruments, names)
    <2> HIDE DEF reg
    <2> QED  BY <1>1, <1>2, RegisterCustomResult
  <1>4. EnterInitialized(R)
    BY DEF RegisterCustom
  <1> HIDE DEF R
  <1> QED  BY <1>3, <1>4, EnterInitializedKeepsStore

\* An instrument of the collector is gone only when its name was removed.
LEMMA UnregisterKeepsStore ==
    ASSUME StoreInv, NEW n \in Names, Unregister(n)
    PROVE  StoreInv'
  <1>1. PICK d \in descriptors :
            /\ d.name = n
            /\ descriptors' = descriptors \ {d}
            /\ instruments' = {e \in instruments : ~(e.type = d.type /\ e.name = n)}
            /\ removed' = removed \cup {n}
            /\ UNCHANGED <<strict, ready, initialized, cellVars, media, fresh>>
    BY DEF Unregister
  <1>2. instruments \in SUBSET Entry /\ descriptors \in SUBSET Label
    BY DEF StoreInv, MetricsTypeOK
  <1>3. PICK x \in instruments : d = [name |-> x.name, type |-> x.type]
    BY DEF StoreInv, OneInstrumentPerName
  <1>4. \A e \in instruments : e.name = n => e = x
    BY <1>1, <1>3 DEF StoreInv, OneInstrumentPerName
  <1>5. instruments' = instruments \ {x}
    BY <1>1, <1>3, <1>4
  <1>6. \A e \in instruments' : e.name # n
    BY <1>4, <1>5
  <1>7. OneInstrumentPerName'
    <2>1. \A e, f \in instruments' : e.name = f.name => e = f
      BY <1>5 DEF StoreInv, OneInstrumentPerName
    <2>2. {[name |-> e.name, type |-> e.type] : e \in instruments'} = descriptors'
      <3>1. ASSUME NEW e \in instruments'  PROVE [name |-> e.name, type |-> e.type] \in descriptors'
        <4>1. [name |-> e.name, type |-> e.type] \in descriptors
          BY <1>5, <3>1 DEF StoreInv, OneInstrumentPerName
        <4>2. [name |-> e.name, type |-> e.type].name # d.name
          BY <1>1, <1>6, <3>1
        <4> QED  BY <1>1, <4>1, <4>2
      <3>2. ASSUME NEW b \in descriptors'  PROVE \E e \in instruments' : b = [name |-> e.name, type |-> e.type]
        <4>1. b \in descriptors /\ b # d
          BY <1>1, <3>2
        <4>2. PICK e \in instruments : b = [name |-> e.name, type |-> e.type]
          BY <4>1 DEF StoreInv, OneInstrumentPerName
        <4>3. e # x
          BY <4>1, <4>2, <1>3
        <4> QED  BY <4>2, <4>3, <1>5
      <3> QED  BY <3>1, <3>2
    <2> QED  BY <2>1, <2>2 DEF OneInstrumentPerName
  <1>8. MetricsTypeOK'
    BY <1>1, <1>2, <1>5 DEF StoreInv, MetricsTypeOK, cellVars
  <1>9. FlagsTruthful'
    <2>1. Together(instruments, removed) => Together(instruments', removed')
      <3>1. CASE \A e \in Standards : e \in instruments \/ e.name \in removed
        <4>1. ASSUME NEW e \in Standards  PROVE e \in instruments' \/ e.name \in removed'
          <5>1. CASE e = x
            BY <5>1, <1>1, <1>3
          <5>2. CASE e # x
            BY <5>2, <3>1, <4>1, <1>1, <1>5
          <5> QED  BY <5>1, <5>2
        <4> QED  BY <4>1 DEF Together
      <3>2. CASE \A e \in Standards : e \notin instruments
        BY <3>2, <1>5 DEF Together
      <3> QED  BY <3>1, <3>2 DEF Together
    <2> QED  BY <1>1, <2>1 DEF StoreInv, FlagsTruthful
  <1> QED  BY <1>7, <1>8, <1>9 DEF StoreInv

LEMMA ClearKeepsStore ==
    ASSUME StoreInv, ClearRegistry
    PROVE  StoreInv'
  <1>1. MetricsTypeOK'
    BY DEF StoreInv, MetricsTypeOK, ClearRegistry, cellVars
  <1>2. OneInstrumentPerName'
    BY DEF ClearRegistry, OneInstrumentPerName
  <1>3. FlagsTruthful'
    BY DEF StoreInv, ClearRegistry, FlagsTruthful, Together
  <1> QED  BY <1>1, <1>2, <1>3 DEF StoreInv

\* restart finds the collector's instruments gone, or enters them all: the
\* registry is empty then, so that nothing can be in the way.
LEMMA RestartKeepsStore ==
    ASSUME StoreInv, Restart
    PROVE  StoreInv'
  <1> DEFINE standard == IF ready THEN Empty ELSE RegisterStandard(Empty)
             all == Register(standard, BuiltIn)
  <1>1. strict \in BOOLEAN /\ ready \in BOOLEAN
    BY DEF StoreInv, MetricsTypeOK
  <1>2. Empty \in Registries /\ OneStory(Empty) /\ Empty.instruments = {}
    BY DEF Empty, Registries, OneStory
  <1>3. standard \in Registries /\ OneStory(standard)
    BY <1>1, <1>2, RegisterStandardResult
  <1>4. Together(standard.instruments, {})
    <2>1. CASE ready
      BY <2>1, <1>2 DEF Together
    <2>2. CASE ~ready
      BY <2>2, <1>1, StandardOnEmpty DEF Together
    <2> QED  BY <2>1, <2>2
  <1>5. /\ Keep(all) /\ ready' = TRUE /\ initialized' = TRUE /\ removed' = {}
        /\ UNCHANGED <<strict, cellVars, media, fresh>>
    BY DEF Restart, Empty
  <1> HIDE DEF standard
  <1>6. all \in Registries /\ OneStory(all) /\ Together(all.instruments, {})
    BY <1>1, <1>3, <1>4, StandardEntries, RegisterResult, RegisterOtherTogether
  <1> HIDE DEF all
  <1>7. /\ instruments' \subseteq Entry /\ descriptors' \subseteq Label
        /\ instruments' = all.instruments /\ OneInstrumentPerName'
    BY <1>5, <1>6, KeepRegistry
  <1>8. MetricsTypeOK'
    BY <1>5, <1>7 DEF StoreInv, MetricsTypeOK, cellVars
  <1>9. FlagsTruthful'
    BY <1>5, <1>6, <1>7 DEF FlagsTruthful
  <1> QED  BY <1>7, <1>8, <1>9 DEF StoreInv

-----------------------------------------------------------------------------
(* The figures. *)

\* What a scrape counts is finite, and nobody is in a room without a session.
LEMMA MembersCounted ==
    ASSUME RegistryInv, SessionsFinite
    PROVE  /\ \A r \in Rooms : members[r] \subseteq sessions /\ Cardinality(members[r]) \in Nat
           /\ Cardinality(Connected) \in Nat
           /\ \A r \in Rooms : r \notin rooms => members[r] = {}
  <1>1. ASSUME NEW r \in Rooms  PROVE members[r] \subseteq sessions
    BY DEF RegistryInv, RegistryTypeOK, MembershipAgrees
  <1>2. ASSUME NEW S, S \subseteq sessions  PROVE Cardinality(S) \in Nat
    <2>1. IsFiniteSet(S)
      BY <1>2, FS_Subset DEF SessionsFinite
    <2> QED  BY <2>1, FS_CardinalityType
  <1>3. Connected \subseteq sessions
    BY <1>1 DEF Connected, RegistryInv, RegistryTypeOK
  <1>4. \A r \in Rooms : r \notin rooms => members[r] = {}
    BY DEF RegistryInv, OccupiedRoomsListed
  <1> QED  BY <1>1, <1>2, <1>3, <1>4

\* The gauges that Collect fills read what the room service holds at that
\* moment, and 0 for what it does not hold any more.
LEMMA CollectKeepsInv ==
    ASSUME RegistryInv, SessionsFinite, StoreInv, ScrapeCurrent, Collect, UNCHANGED regVars
    PROVE  StoreInv' /\ ScrapeCurrent'
  <1> DEFINE done == Initialized(Registry)
             filled == [r \in Rooms |-> IF r \in rooms THEN Cardinality(members[r])
                                        ELSE IF roomSeries[r] = None THEN None ELSE 0]
  <1>1. /\ done.registry \in Registries /\ OneStory(done.registry)
        /\ done.ready \in BOOLEAN /\ done.initialized \in BOOLEAN
        /\ done.initialized => done.ready
        /\ strict /\ done.ready => Together(done.registry.instruments, removed)
    BY InitializedResult DEF StoreInv
  <1>2. /\ Keep(done.registry) /\ ready' = done.ready /\ initialized' = done.initialized
        /\ UNCHANGED <<strict, joined, media, removed>>
        /\ \/ UNCHANGED <<connected, roomSeries, mediaSeries, fresh>>
           \/ /\ connected' = Cardinality(Connected) /\ roomSeries' = filled
              /\ mediaSeries' = MediaSeries /\ fresh' = TRUE
    BY DEF Collect
  <1>3. /\ rooms' = rooms /\ members' = members /\ sessions' = sessions
    BY DEF regVars
  <1> HIDE DEF done
  <1>4. /\ instruments' \subseteq Entry /\ descriptors' \subseteq Label
        /\ instruments' = done.registry.instruments /\ OneInstrumentPerName'
    BY <1>1, <1>2, KeepRegistry
  <1>5. FlagsTruthful'
    BY <1>1, <1>2, <1>4 DEF FlagsTruthful
  <1>6. /\ \A r \in Rooms : members[r] \subseteq sessions /\ Cardinality(members[r]) \in Nat
        /\ Cardinality(Connected) \in Nat
        /\ \A r \in Rooms : r \notin rooms => members[r] = {}
    BY MembersCounted
  <1>7. filled \in [Rooms -> Nat \cup {None}]
    BY <1>6
  <1>8. ASSUME NEW r \in Rooms, NEW p \in Peers
        PROVE  MediaSeries[r][p] = IF p \in members[r] THEN IF p \in media THEN 1 ELSE 0
                                   ELSE IF mediaSeries[r][p] = None THEN None ELSE 0
    BY <1>6 DEF MediaSeries
  <1>9. MediaSeries \in [Rooms -> [Peers -> Nat \cup {None}]]
    BY DEF MediaSeries
  <1>10. MetricsTypeOK'
    BY <1>1, <1>2, <1>4, <1>6, <1>7, <1>9 DEF StoreInv, MetricsTypeOK
  <1>11. CASE UNCHANGED <<connected, roomSeries, mediaSeries, fresh>>
    BY <1>2, <1>3, <1>4, <1>5, <1>10, <1>11 DEF StoreInv, ScrapeCurrent
  <1>12. CASE roomSeries' = filled /\ mediaSeries' = MediaSeries /\ fresh' = TRUE
    <2>1. ASSUME NEW r \in Rooms
          PROVE  /\ filled[r] # None => filled[r] = Cardinality(members[r])
                 /\ r \in rooms => filled[r] # None
      <3>1. CASE r \in rooms
        BY <3>1, <1>6, MetricsServiceAssumption
      <3>2. CASE r \notin rooms
        <4>1. Cardinality(members[r]) = 0
          BY <3>2, <1>6, FS_EmptySet
        <4> QED  BY <3>2, <4>1
      <3> QED  BY <3>1, <3>2
    <2>2. ASSUME NEW r \in Rooms, NEW p \in Peers
          PROVE  MediaSeries[r][p] \notin {None, 0} <=> p \in members[r] \cap media
      BY <1>8, MetricsServiceAssumption
    <2> HIDE DEF filled
    <2> QED  BY <1>2, <1>3, <1>4, <1>5, <1>10, <1>12, <2>1, <2>2 DEF StoreInv, ScrapeCurrent
  <1> QED  BY <1>2, <1>11, <1>12

\* After any other operation either nothing that a scrape compares has
\* changed, or the figures are not called fresh.
LEMMA OperationKeepsInv ==
    ASSUME MetricsServiceInv, MetricsOperation, UNCHANGED regVars
    PROVE  StoreInv' /\ ScrapeCurrent'
  <1>0. StoreInv /\ RegistryInv /\ SessionsFinite /\ ScrapeCurrent
    BY DEF MetricsServiceInv, StoreInv
  <1>1. ASSUME UNCHANGED <<cellVars, media, fresh>>  PROVE ScrapeCurrent'
    BY <1>0, <1>1 DEF ScrapeCurrent, cellVars, regVars
  <1>2. ASSUME fresh' = FALSE  PROVE ScrapeCurrent'
    BY <1>2 DEF ScrapeCurrent
  <1>3. CASE Initialize
    <2>1. UNCHANGED <<cellVars, media, fresh>>
      BY <1>3 DEF Initialize, EnterInitialized
    <2> QED  BY <2>1, <1>0, <1>1, <1>3, InitializeKeepsStore
  <1>4. ASSUME NEW n \in CallerNames, NEW t \in Types, RegisterCustom(t, n)
        PROVE  StoreInv' /\ ScrapeCurrent'
    <2>1. UNCHANGED <<cellVars, media, fresh>>
      BY <1>4 DEF RegisterCustom, EnterInitialized
    <2> QED  BY <2>1, <1>0, <1>1, <1>4, RegisterCustomKeepsStore
  <1>5. ASSUME NEW n \in CallerNames, NEW t \in Types, RegisterDirectly(t, n)
        PROVE  StoreInv' /\ ScrapeCurrent'
    <2>1. UNCHANGED <<cellVars, media, fresh>>
      BY <1>5 DEF RegisterDirectly
    <2> QED  BY <2>1, <1>0, <1>1, <1>5, RegisterDirectlyKeepsStore
  <1>6. ASSUME NEW n \in CallerNames, NEW m \in CallerNames, MergeRegistry(n, m)
        PROVE  StoreInv' /\ ScrapeCurrent'
    <2>1. UNCHANGED <<cellVars, media, fresh>>
      BY <1>6 DEF MergeRegistry
    <2> QED  BY <2>1, <1>0, <1>1, <1>6, MergeKeepsStore
  <1>7. ASSUME NEW n \in Names, Unregister(n)
        PROVE  StoreInv' /\ ScrapeCurrent'
    <2>1. UNCHANGED <<cellVars, media, fresh>>
      BY <1>7 DEF Unregister
    <2> QED  BY <2>1, <1>0, <1>1, <1>7, UnregisterKeepsStore
  <1>8. CASE ClearRegistry
    <2>1. UNCHANGED <<cellVars, media, fresh>>
      BY <1>8 DEF ClearRegistry
    <2> QED  BY <2>1, <1>0, <1>1, <1>8, ClearKeepsStore
  <1>9. CASE OnPeerJoined
    <2>1. /\ UNCHANGED <<storeVars, ready, initialized, removed, connected, roomSeries, mediaSeries, media, fresh>>
          /\ joined' = joined + 1
      BY <1>9 DEF OnPeerJoined
    <2>2. MetricsTypeOK'
      BY <2>1, <1>0 DEF StoreInv, MetricsTypeOK, storeVars
    <2>3. OneInstrumentPerName' /\ FlagsTruthful'
      BY <2>1, <1>0 DEF StoreInv, OneInstrumentPerName, FlagsTruthful, storeVars
    <2>4. ScrapeCurrent'
      BY <2>1, <1>0 DEF ScrapeCurrent, regVars
    <2> QED  BY <2>2, <2>3, <2>4 DEF StoreInv
  <1>10. CASE Collect
    BY <1>0, <1>10, CollectKeepsInv
  <1>11. CASE Reset
    <2>1. /\ connected' \in {0, connected} /\ joined' \in {0, joined}
          /\ fresh' = FALSE
          /\ UNCHANGED <<storeVars, ready, initialized, removed, media>>
      BY <1>11 DEF Reset
    <2>2. roomSeries' \in [Rooms -> Nat \cup {None}]
      BY <1>0, <1>11 DEF Reset, Zeroed, StoreInv, MetricsTypeOK
    <2>3. mediaSeries' \in [Rooms -> [Peers -> Nat \cup {None}]]
      BY <1>0, <1>11 DEF Reset, Zeroed, StoreInv, MetricsTypeOK
    <2>4. connected' \in Nat /\ joined' \in Nat
      BY <2>1, <1>0 DEF StoreInv, MetricsTypeOK
    <2>5. MetricsTypeOK'
      BY <2>1, <2>2, <2>3, <2>4, <1>0 DEF StoreInv, MetricsTypeOK, storeVars
    <2>6. OneInstrumentPerName' /\ FlagsTruthful'
      BY <2>1, <1>0 DEF StoreInv, OneInstrumentPerName, FlagsTruthful, storeVars
    <2> QED  BY <2>1, <2>5, <2>6, <1>2 DEF StoreInv
  <1>12. CASE Restart
    <2>1. UNCHANGED <<cellVars, media, fresh>>
      BY <1>12 DEF Restart
    <2> QED  BY <2>1, <1>0, <1>1, <1>12, RestartKeepsStore
  <1>13. ASSUME NEW p \in Peers, MediaChange(p)
         PROVE  StoreInv' /\ ScrapeCurrent'
    <2>1. /\ media' \in {media \ {p}, media \cup {p}}
          /\ fresh' = FALSE
          /\ UNCHANGED <<storeVars, cellVars, ready, initialized, removed>>
      BY <1>13 DEF MediaChange
    <2>2. MetricsTypeOK'
      BY <2>1, <1>0 DEF StoreInv, MetricsTypeOK, storeVars, cellVars
    <2>3. OneInstrumentPerName' /\ FlagsTruthful'
      BY <2>1, <1>0 DEF StoreInv, OneInstrumentPerName, FlagsTruthful, storeVars
    <2> QED  BY <2>1, <2>2, <2>3, <1>2 DEF StoreInv
  <1> QED
    BY <1>3, <1>4, <1>5, <1>6, <1>7, <1>8, <1>9, <1>10, <1>11, <1>12, <1>13 DEF MetricsOperation

-----------------------------------------------------------------------------
\* One join enters at most one session.
LEMMA SessionsStayFinite ==
    ASSUME RegistryInv, SessionsFinite, [RegistryNext]_regVars
    PROVE  SessionsFinite'
  <1>1. \/ sessions' \subseteq sessions
        \/ \E p \in Peers : sessions' = sessions \cup {p}
    BY RegistryStepCases DEF CreateRoom, JoinRoom, RemovePeer, CloseAll, regVars
  <1> QED  BY <1>1, FS_Subset, FS_AddElement DEF SessionsFinite

LEMMA MetricsServiceInitInv == RegistryInit /\ MetricsInit => MetricsServiceInv
  <1> SUFFICES ASSUME RegistryInit, MetricsInit  PROVE MetricsServiceInv
    OBVIOUS
  <1>1. RegistryInv
    BY RegistryInitInv
  <1>2. SessionsFinite
    BY FS_EmptySet DEF RegistryInit, SessionsFinite
  <1>3. MetricsTypeOK
    BY DEF MetricsInit, MetricsTypeOK
  <1>4. OneInstrumentPerName /\ FlagsTruthful /\ ScrapeCurrent
    BY DEF MetricsInit, OneInstrumentPerName, FlagsTruthful, ScrapeCurrent
  <1> QED  BY <1>1, <1>2, <1>3, <1>4 DEF MetricsServiceInv

LEMMA MetricsServiceStepInv ==
    MetricsServiceInv /\ [MetricsNext]_<<regVars, metricVars>> => MetricsServiceInv'
  <1> SUFFICES ASSUME MetricsServiceInv, [MetricsNext]_<<regVars, metricVars>>  PROVE MetricsServiceInv'
    OBVIOUS
  <1>0. RegistryInv /\ SessionsFinite
    BY DEF MetricsServiceInv
  <1>1. [RegistryNext]_regVars
    BY DEF MetricsNext
  <1>2. RegistryInv' /\ SessionsFinite'
    BY <1>0, <1>1, RegistryStepInv, SessionsStayFinite
  <1>3. CASE MetricsOperation /\ UNCHANGED regVars
    BY <1>2, <1>3, OperationKeepsInv DEF MetricsServiceInv, StoreInv
  <1>4. CASE RegistryNext /\ fresh' = FALSE
             /\ UNCHANGED <<storeVars, cellVars, ready, initialized, media, removed>>
    <2>1. MetricsTypeOK'
      BY <1>4 DEF MetricsServiceInv, MetricsTypeOK, storeVars, cellVars
    <2>2. OneInstrumentPerName' /\ FlagsTruthful'
      BY <1>4 DEF MetricsServiceInv, OneInstrumentPerName, FlagsTruthful, storeVars
    <2>3. ScrapeCurrent'
      BY <1>4 DEF ScrapeCurrent
    <2> QED  BY <1>2, <2>1, <2>2, <2>3 DEF MetricsServiceInv
  <1>5. CASE UNCHANGED <<regVars, metricVars>>
    <2>1. MetricsTypeOK'
      BY <1>5 DEF MetricsServiceInv, MetricsTypeOK, metricVars, storeVars, cellVars
    <2>2. OneInstrumentPerName' /\ FlagsTruthful'
      BY <1>5 DEF MetricsServiceInv, OneInstrumentPerName, FlagsTruthful, metricVars, storeVars
    <2>3. ScrapeCurrent'
      BY <1>5 DEF MetricsServiceInv, ScrapeCurrent, metricVars, cellVars, regVars
    <2> QED  BY <1>2, <2>1, <2>2, <2>3 DEF MetricsServiceInv
  <1> QED  BY <1>3, <1>4, <1>5 DEF MetricsNext

\* The registry of metrics, the flags of the two initialize methods and the
\* figures stay right under any calls of the room service and of the metrics
\* service (MetricRegistry, MetricsCollector, MetricsService).
THEOREM MetricsServiceInvariance == MetricsSpec => []MetricsServiceInv
  <1> QED  BY MetricsServiceInitInv, MetricsServiceStepInv, PTL DEF MetricsSpec

\* The stores of MetricRegistry and its descriptors agree, and a name has one
\* instrument, whatever is registered, merged, unregistered and cleared.
THEOREM NamesStayUnique == MetricsSpec => []OneInstrumentPerName
  <1>1. MetricsServiceInv => OneInstrumentPerName
    BY DEF MetricsServiceInv
  <1> QED  BY <1>1, MetricsServiceInvariance, PTL

\* Right after MetricsCollector.collect every series of a room or a peer reads
\* what the room service says of it.
THEOREM ScrapesAreCurrent == MetricsSpec => []ScrapeCurrent
  <1>1. MetricsServiceInv => ScrapeCurrent
    BY DEF MetricsServiceInv
  <1> QED  BY <1>1, MetricsServiceInvariance, PTL

\* On a strict registry MetricsService.initialized is never set by an
\* initialize that threw halfway.
THEOREM FlagMeansRegistered == MetricsSpec => []InitializedMeansRegistered
  <1>1. ASSUME MetricsServiceInv, strict, initialized
        PROVE  \/ \A i \in DOMAIN Standard : Standard[i] \in instruments \/ Standard[i].name \in removed
               \/ \A i \in DOMAIN Standard : Standard[i] \notin instruments
    <2>1. Together(instruments, removed)
      BY <1>1 DEF MetricsServiceInv, FlagsTruthful
    <2>2. \A i \in DOMAIN Standard : Standard[i] \in Standards
      BY StandardEntries DEF Standards
    <2> QED  BY <2>1, <2>2 DEF Together
  <1>2. MetricsServiceInv => InitializedMeansRegistered
    BY <1>1 DEF InitializedMeansRegistered
  <1> QED  BY <1>2, MetricsServiceInvariance, PTL
=============================================================================
