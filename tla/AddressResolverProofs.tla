------------------------- MODULE AddressResolverProofs -------------------------
(***************************************************************************)
(* Proofs about AddressResolver for every subnet, any hosts and any batch  *)
(* size: the resolver forgets what its hosts have given up, and a quiet    *)
(* scan misses nobody.                                                     *)
(***************************************************************************)
EXTENDS AddressResolver, TLAPS

Scanning == scan \in {"send", "drain"}

\* While a scan runs, frames and finds are addresses their hosts have had since
\* it opened its socket; at other times nothing is on its way.
Heard ==
    /\ ~Scanning => air = {}
    /\ Scanning =>
          /\ \A m \in Hosts : holds[m] \in since[m]
          /\ \A f \in air : f.ip \in since[f.mac]
          /\ \A m \in Hosts : found[m] # NoAddress => found[m] \in since[m]

\* The scan has asked for an address.
Passed(a) == scan = "drain" \/ cursor \notin Subnet \/ a < cursor

Frame(m) == [mac |-> m, ip |-> holds[m]]

\* A host that has not moved and whose address has been asked for is found, or
\* its answer can still be read.
Asked ==
    /\ holds \in [Hosts -> Usable \cup {NoAddress}]
    /\ Scanning =>
          \A m \in steady :
             /\ since[m] = {holds[m]}
             /\ ~missed /\ holds[m] # NoAddress /\ Passed(holds[m]) =>
                   found[m] = holds[m] \/ Frame(m) \in air

ResolverInv == ResolverTypeOK /\ Heard /\ KnownWasHeld /\ Asked

-----------------------------------------------------------------------------
(* Types *)

\* The enumeration stays among the addresses, over the wrap-around too.
LEMMA NextIPType == ASSUME NEW a \in Address PROVE NextIP(a) \in Address
BY SubnetAssumption DEF NextIP, Address

LEMMA SubnetType == Subnet \subseteq Address /\ Usable \subseteq Address /\ Base \in Address
BY SubnetAssumption DEF Subnet, Usable, Address

LEMMA ResolverInitInv == ResolverInit => ResolverInv
<1> SUFFICES ASSUME ResolverInit PROVE ResolverInv
  OBVIOUS
<1>1. ResolverTypeOK
  <2>1. found \in Lookups /\ known \in Lookups /\ holds \in Lookups
    BY SubnetType DEF ResolverInit, Lookups
  <2>2. /\ since \in [Hosts -> SUBSET (Address \cup {NoAddress})]
        /\ knownSince \in [Hosts -> SUBSET (Address \cup {NoAddress})]
    BY DEF ResolverInit
  <2>3. /\ cursor \in Address /\ batch \in 0 .. BatchSize
        /\ scan = "idle"
        /\ air = {} /\ steady = {} /\ missed = FALSE /\ moves = 0
    BY SubnetType, SubnetAssumption DEF ResolverInit
  <2> QED
    BY <2>1, <2>2, <2>3 DEF ResolverTypeOK
<1>2. Heard /\ KnownWasHeld /\ Asked
  BY DEF ResolverInit, Heard, Scanning, KnownWasHeld, Asked
<1> QED
  BY <1>1, <1>2 DEF ResolverInv

LEMMA TakeFramesTypes ==
    ASSUME ResolverTypeOK, NEW frames \in SUBSET air, TakeFrames(frames)
    PROVE  found' \in Lookups /\ air' \subseteq Replies
BY DEF TakeFrames, ResolverTypeOK

LEMMA ResolverNextTypes ==
    ASSUME ResolverTypeOK, [ResolverNext]_resolverVars
    PROVE  ResolverTypeOK'
<1> USE SubnetAssumption DEF ResolverTypeOK, network, scanning, resolving
<1>1. CASE Tick \/ ScanFails \/ SentAll
  BY <1>1 DEF Tick, ScanFails, SentAll, NoAddress
<1>2. CASE Open
  <2>1. cursor' \in Address
    BY <1>2, NextIPType, SubnetType DEF Open
  <2>2. found' \in Lookups
    BY <1>2 DEF Open, Lookups
  <2>3. batch' \in 0 .. BatchSize
    BY <1>2 DEF Open
  <2>4. since' \in [Hosts -> SUBSET (Address \cup {NoAddress})]
    BY <1>2 DEF Open, Lookups
  <2> QED
    BY <1>2, <2>1, <2>2, <2>3, <2>4 DEF Open
<1>3. CASE Skip
  BY <1>3, NextIPType DEF Skip
<1>4. CASE Ask
  <2>1. air' \subseteq Replies
    BY <1>4 DEF Ask, RepliesOf
  <2>2. cursor' \in Address
    BY <1>4, NextIPType DEF Ask
  <2>3. batch' \in 0 .. BatchSize
    BY <1>4 DEF Ask
  <2>4. missed' \in BOOLEAN
    BY <1>4 DEF Ask
  <2> QED
    BY <1>4, <2>1, <2>2, <2>3, <2>4 DEF Ask
<1>5. CASE ReadBetween
  BY <1>5, TakeFramesTypes DEF ReadBetween
<1>6. CASE Drain
  BY <1>6, TakeFramesTypes DEF Drain
<1>7. CASE Deadline
  BY <1>7 DEF Deadline, Publish
<1>8. ASSUME NEW m \in Hosts, Announce(m) PROVE ResolverTypeOK'
  <2>1. [mac |-> m, ip |-> holds[m]] \in Replies
    BY <1>8 DEF Announce, Replies, Lookups, NoAddress
  <2> QED
    BY <1>8, <2>1 DEF Announce
<1>9. ASSUME NEW m \in Hosts, NEW a \in Usable \cup {NoAddress}, Move(m, a)
      PROVE  ResolverTypeOK'
  <2>1. a \in Address \cup {NoAddress}
    BY SubnetType
  <2>2. /\ holds' \in Lookups
        /\ since' \in [Hosts -> SUBSET (Address \cup {NoAddress})]
    BY <1>9, <2>1 DEF Move, Lookups
  <2> QED
    BY <1>9, <2>2 DEF Move
<1>10. CASE UNCHANGED resolverVars
  BY <1>10 DEF resolverVars
<1> QED
  BY <1>1, <1>2, <1>3, <1>4, <1>5, <1>6, <1>7, <1>8, <1>9, <1>10
     DEF ResolverNext, Scan

-----------------------------------------------------------------------------
(* What the map tells was held *)

\* Reading frames adds only what they carry.
LEMMA TakeFramesHeard ==
    ASSUME ResolverTypeOK, Heard, Scanning,
           NEW frames \in SUBSET air, TakeFrames(frames)
    PROVE  /\ air' \subseteq air
           /\ \A m \in Hosts : found'[m] # NoAddress => found'[m] \in since[m]
<1>1. air' \subseteq air
  BY DEF TakeFrames
<1>2. ASSUME NEW m \in Hosts, found'[m] # NoAddress PROVE found'[m] \in since[m]
  <2> DEFINE ips == {f.ip : f \in {h \in frames : h.mac = m /\ h.ip \in Subnet}}
  <2>1. IF ips = {} THEN found'[m] = found[m] ELSE found'[m] \in ips
    BY DEF TakeFrames
  <2>2. ips \subseteq since[m]
    BY DEF Heard
  <2> QED
    BY <1>2, <2>1, <2>2 DEF Heard
<1> QED
  BY <1>1, <1>2

LEMMA ResolverNextHeard ==
    ASSUME ResolverTypeOK, Heard, KnownWasHeld, [ResolverNext]_resolverVars
    PROVE  Heard' /\ KnownWasHeld'
<1> USE DEF Heard, KnownWasHeld, Scanning, network, scanning, resolving
<1>1. CASE Tick \/ ScanFails \/ Skip \/ SentAll
  BY <1>1 DEF Tick, ScanFails, Skip, SentAll
<1>2. CASE Open
  BY <1>2 DEF Open
<1>3. CASE Ask
  <2>1. \A f \in RepliesOf(cursor) : f.mac \in Hosts /\ f.ip = holds[f.mac]
    BY DEF RepliesOf, Replies
  <2> QED
    BY <1>3, <2>1 DEF Ask
<1>4. CASE ReadBetween \/ Drain
  <2>1. Scanning
    BY <1>4 DEF ReadBetween, Drain
  <2>2. PICK frames \in SUBSET air : TakeFrames(frames)
    BY <1>4 DEF ReadBetween, Drain
  <2>3. /\ air' \subseteq air
        /\ \A m \in Hosts : found'[m] # NoAddress => found'[m] \in since[m]
    BY <2>1, <2>2, TakeFramesHeard
  <2> QED
    BY <1>4, <2>1, <2>3 DEF ReadBetween, Drain
<1>5. CASE Deadline
  BY <1>5 DEF Deadline, Publish
<1>6. ASSUME NEW m \in Hosts, Announce(m) PROVE Heard' /\ KnownWasHeld'
  BY <1>6 DEF Announce
<1>7. ASSUME NEW m \in Hosts, NEW a \in Usable \cup {NoAddress}, Move(m, a)
      PROVE  Heard' /\ KnownWasHeld'
  <2>1. /\ holds' = [holds EXCEPT ![m] = a]
        /\ since' = [since EXCEPT ![m] = @ \cup {a}]
        /\ UNCHANGED <<scan, air, found, known, knownSince>>
    BY <1>7 DEF Move
  <2>2. \A n \in Hosts : since[n] \subseteq since'[n]
    BY <2>1 DEF ResolverTypeOK
  <2>3. \A n \in Hosts : holds[n] \in since[n] => holds'[n] \in since'[n]
    BY <2>1 DEF ResolverTypeOK, Lookups
  <2>4. \A f \in air : f.mac \in Hosts
    BY DEF ResolverTypeOK, Replies
  <2> QED
    BY <2>1, <2>2, <2>3, <2>4
<1>8. CASE UNCHANGED resolverVars
  BY <1>8 DEF resolverVars
<1> QED
  BY <1>1, <1>2, <1>3, <1>4, <1>5, <1>6, <1>7, <1>8 DEF ResolverNext, Scan

-----------------------------------------------------------------------------
(* A quiet scan finds all *)

\* Reading the frames of a host that has not moved leaves it found or its
\* answer unread.
LEMMA TakeFramesAsked ==
    ASSUME ResolverTypeOK, Heard, Asked, Scanning,
           NEW frames \in SUBSET air, TakeFrames(frames),
           NEW m \in steady, holds[m] # NoAddress,
           found[m] = holds[m] \/ Frame(m) \in air
    PROVE  found'[m] = holds[m] \/ Frame(m) \in air'
<1> DEFINE ips == {f.ip : f \in {h \in frames : h.mac = m /\ h.ip \in Subnet}}
<1>1. m \in Hosts /\ since[m] = {holds[m]}
  BY DEF Asked, ResolverTypeOK
<1>2. IF ips = {} THEN found'[m] = found[m] ELSE found'[m] \in ips
  BY <1>1 DEF TakeFrames
<1>3. ips \subseteq {holds[m]}
  BY <1>1 DEF Heard
<1>4. Frame(m) \in frames => ips # {}
  <2>1. holds[m] \in Subnet
    BY <1>1, SubnetAssumption DEF Asked, Usable, Subnet, NoAddress
  <2> SUFFICES ASSUME Frame(m) \in frames PROVE holds[m] \in ips
    OBVIOUS
  <2>2. Frame(m).mac = m /\ Frame(m).ip = holds[m]
    BY DEF Frame
  <2> QED
    BY <2>1, <2>2
<1>5. air' = air \ frames
  BY DEF TakeFrames
<1>6. CASE ips = {}
  BY <1>2, <1>4, <1>5, <1>6
<1>7. CASE ips # {}
  BY <1>2, <1>3, <1>7
<1> QED
  BY <1>6, <1>7

\* The next request is for the address after this one, unless all are done.
LEMMA AskNext ==
    ASSUME cursor \in Subnet, ~IsBroadcast(cursor)
    PROVE  NextIP(cursor) = cursor + 1 /\ cursor + 1 \in Subnet
BY SubnetAssumption DEF Subnet, IsBroadcast, NextIP

LEMMA ResolverNextAsked ==
    ASSUME ResolverTypeOK, Heard, Asked, [ResolverNext]_resolverVars
    PROVE  Asked'
<1> USE DEF network, scanning, resolving
<1> USE DEF Scanning
<1>0. steady \subseteq Hosts
  BY DEF ResolverTypeOK
<1>1. CASE Tick \/ ScanFails \/ SentAll \/ Deadline
  BY <1>1 DEF Tick, ScanFails, SentAll, Deadline, Asked, Passed, Frame
<1>2. CASE Open
  <2>1. holds' = holds /\ scan' = "send" /\ cursor' = NextIP(Base)
        /\ steady' = Hosts /\ since' = [m \in Hosts |-> {holds[m]}]
    BY <1>2 DEF Open
  <2>2. ASSUME NEW m \in Hosts, holds[m] # NoAddress PROVE ~Passed(holds[m])'
    <3>1. holds[m] \in Usable
      BY <2>2 DEF Asked
    <3>2. NextIP(Base) = Base + 1 /\ Base + 1 \in Subnet
      BY <3>1, SubnetAssumption DEF Usable, Subnet, NextIP
    <3> QED
      BY <2>1, <3>1, <3>2, SubnetAssumption DEF Passed, Usable
  <2> QED
    BY <2>1, <2>2 DEF Asked
<1>3. CASE Skip
  <2>1. /\ UNCHANGED <<holds, scan, since, steady, missed, found, air>>
        /\ cursor = Base + Size - 1 /\ scan = "send"
    BY <1>3 DEF Skip, IsBroadcast
  <2>2. ASSUME NEW m \in steady, holds[m] # NoAddress PROVE Passed(holds[m])
    BY <1>0, <2>1, <2>2, SubnetAssumption DEF Asked, Usable, Passed
  <2> QED
    BY <1>0, <2>1, <2>2 DEF Asked, Frame
<1>4. CASE Ask
  <2>1. /\ UNCHANGED <<holds, scan, since, steady, found>>
        /\ scan = "send" /\ cursor \in Subnet
        /\ cursor' = cursor + 1 /\ cursor' \in Subnet
        /\ missed' \/ (missed' = missed /\ air' = air \cup RepliesOf(cursor))
    BY <1>4, AskNext DEF Ask
  <2>2. ASSUME NEW m \in steady, ~missed', holds[m] # NoAddress, Passed(holds[m])'
        PROVE  found[m] = holds[m] \/ Frame(m) \in air'
    <3>1. m \in Hosts /\ holds[m] \in Usable
      BY <1>0, <2>2 DEF Asked
    <3>2. holds[m] < cursor \/ holds[m] = cursor
      BY <2>1, <2>2, <3>1, SubnetAssumption DEF Passed, Usable, Subnet
    <3>3. CASE holds[m] < cursor
      BY <2>1, <2>2, <3>3 DEF Asked, Passed
    <3>4. CASE holds[m] = cursor
      <4>1. Frame(m) \in RepliesOf(cursor)
        BY <3>1, <3>4, SubnetType DEF Frame, RepliesOf, Replies
      <4> QED
        BY <2>1, <2>2, <4>1
    <3> QED
      BY <3>2, <3>3, <3>4
  <2> QED
    BY <1>0, <2>1, <2>2 DEF Asked, Frame
<1>5. CASE ReadBetween \/ Drain
  <2>1. /\ Scanning /\ UNCHANGED <<holds, scan, since, steady, missed, cursor>>
    BY <1>5 DEF ReadBetween, Drain
  <2>2. PICK frames \in SUBSET air : TakeFrames(frames)
    BY <1>5 DEF ReadBetween, Drain
  <2>3. ASSUME NEW m \in steady, ~missed, holds[m] # NoAddress, Passed(holds[m])
        PROVE  found'[m] = holds[m] \/ Frame(m) \in air'
    <3>1. found[m] = holds[m] \/ Frame(m) \in air
      BY <2>1, <2>3 DEF Asked
    <3> QED
      BY <2>1, <2>2, <2>3, <3>1, TakeFramesAsked
  <2> QED
    BY <2>1, <2>3 DEF Asked, Passed, Frame
<1>6. ASSUME NEW m \in Hosts, Announce(m) PROVE Asked'
  BY <1>6 DEF Announce, Asked, Passed, Frame
<1>7. ASSUME NEW m \in Hosts, NEW a \in Usable \cup {NoAddress}, Move(m, a)
      PROVE  Asked'
  <2>1. /\ holds' = [holds EXCEPT ![m] = a]
        /\ since' = [since EXCEPT ![m] = @ \cup {a}]
        /\ steady' = steady \ {m}
        /\ UNCHANGED <<scan, air, found, missed, cursor>>
    BY <1>7 DEF Move
  <2>2. \A n \in steady' : holds'[n] = holds[n] /\ since'[n] = since[n]
    BY <1>0, <2>1 DEF Asked, ResolverTypeOK
  <2>3. holds' \in [Hosts -> Usable \cup {NoAddress}]
    BY <2>1 DEF Asked
  <2> QED
    BY <2>1, <2>2, <2>3 DEF Asked, Passed, Frame
<1>8. CASE UNCHANGED resolverVars
  BY <1>8 DEF resolverVars, Asked, Passed, Frame
<1> QED
  BY <1>1, <1>2, <1>3, <1>4, <1>5, <1>6, <1>7, <1>8 DEF ResolverNext, Scan

-----------------------------------------------------------------------------
\* The inductive invariant: types, nothing heard that was not held, nobody
\* asked who is neither found nor still to be heard.
THEOREM ResolverInvariant == ResolverSpec => []ResolverInv
<1>1. ResolverInv /\ [ResolverNext]_resolverVars => ResolverInv'
  BY ResolverNextTypes, ResolverNextHeard, ResolverNextAsked DEF ResolverInv
<1> QED
  BY <1>1, ResolverInitInv, PTL DEF ResolverSpec

\* Type correctness for every subnet, any hosts and any batch size.
THEOREM ResolverTypeCorrect == ResolverSpec => []ResolverTypeOK
<1>1. ResolverInv => ResolverTypeOK
  BY DEF ResolverInv
<1> QED
  BY <1>1, ResolverInvariant, PTL

\* An entry of the resolver's map was its host's address when the scan behind
\* the map began, or later: LookupIP tells nothing older.
THEOREM ResolverKnownWasHeld == ResolverSpec => []KnownWasHeld
<1>1. ResolverInv => KnownWasHeld
  BY DEF ResolverInv
<1> QED
  BY <1>1, ResolverInvariant, PTL

\* SubnetHosts with its wrap-around, the batches and the draining leave out no
\* host: a scan that sent all requests and read all answers has found every
\* host that did not move.
THEOREM ResolverFindsAll == ResolverSpec => QuietScanFindsAll
<1> DEFINE Found == scan = "drain" /\ scan' = "idle" /\ ~missed /\ air = {} =>
                       \A m \in steady : holds[m] # NoAddress => known'[m] = holds[m]
<1>1. ResolverInv /\ [ResolverNext]_resolverVars => [Found]_resolverVars
  <2> SUFFICES ASSUME ResolverInv, ResolverNext,
                      scan = "drain", scan' = "idle", ~missed, air = {},
                      NEW m \in steady, holds[m] # NoAddress
               PROVE  known'[m] = holds[m]
    OBVIOUS
  <2>1. found[m] = holds[m]
    BY DEF ResolverInv, Asked, Scanning, Passed
  <2>2. known' = found
    BY DEF ResolverNext, Scan, Tick, ScanFails, Open, Skip, Ask, ReadBetween, SentAll,
           Drain, Deadline, Publish, Announce, Move, scanning
  <2> QED
    BY <2>1, <2>2
<1> QED
  BY <1>1, ResolverInvariant, PTL DEF ResolverSpec, QuietScanFindsAll
=============================================================================
