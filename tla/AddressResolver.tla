--------------------------- MODULE AddressResolver ---------------------------
(***************************************************************************)
(* How the node learns the addresses of its VMs: ARP scans of the subnet   *)
(* (pkg/utils/network/arp, .../ip) and the map of the last scan, in which  *)
(* the resolver looks addresses up (LookupIP, which changes nothing).  The *)
(* network, its hosts and the packet sockets are external.  Addresses are  *)
(* numbers; a subnet is Size of them from Base on.                         *)
(***************************************************************************)
EXTENDS Integers

CONSTANTS
    Hosts,      \* hardware addresses on the network
    Space,      \* number of addresses, 2^32 for IPv4
    Base, Size, \* the subnet: first address and number of addresses
    BatchSize,  \* requests sent between two reads
    MaxMoves    \* bound: changes of a host's address

\* A subnet is not the whole address space: its prefix has a bit.
ASSUME SubnetAssumption ==
    /\ Space \in Nat /\ Base \in Nat /\ Size \in Nat \ {0}
    /\ Base + Size <= Space /\ Size < Space
    /\ BatchSize \in Nat \ {0} /\ MaxMoves \in Nat

Address == 0 .. Space - 1
Subnet == Base .. Base + Size - 1
Usable == Base + 1 .. Base + Size - 2   \* neither network nor broadcast
NoAddress == -1
Lookups == [Hosts -> Address \cup {NoAddress}]
\* ARP replies; parseARPReply drops every other frame.
Replies == [mac : Hosts, ip : Address]

VARIABLES
    holds,      \* hardware address -> address its host has, or NoAddress
    scan,       \* step of the scanning goroutine
    cursor,     \* next address to ask for
    batch,      \* requests since the last read
    air,        \* frames on their way to the scan's socket, or in its buffer
    found,      \* the map the scan has filled so far
    known,      \* the resolver's map
    since,      \* hardware address -> addresses it has had since the scan began
    knownSince, \* the same of the scan that the resolver's map comes from
    steady,     \* hosts that have not moved since the scan began
    missed,     \* a request of this scan could not be sent
    moves

network == <<holds, moves, steady, since>>
scanning == <<scan, cursor, batch, found, missed>>
resolving == <<known, knownSince>>
resolverVars == <<network, scanning, resolving, air>>

ResolverInit ==
    /\ holds \in [Hosts -> Usable \cup {NoAddress}]
    /\ scan = "idle" /\ cursor = Base /\ batch = 0
    /\ air = {}
    /\ found = [m \in Hosts |-> NoAddress] /\ known = found
    /\ since = [m \in Hosts |-> {}] /\ knownSince = since
    /\ steady = {} /\ missed = FALSE
    /\ moves = 0

-----------------------------------------------------------------------------
(* SubnetHosts: the addresses of a subnet but its first and its last *)

\* The bytes are incremented with carry; the last address wraps around.
NextIP(a) == IF a = Space - 1 THEN 0 ELSE a + 1

\* Faulty variant: the last address of the subnet is one too low.
IsBroadcastLow(a) == a \in {Base + Size - 1, Base + Size - 2}

IsBroadcast(a) == a = Base + Size - 1

-----------------------------------------------------------------------------
(* Scan *)

\* Every few seconds, and once at the start.
Tick ==
    /\ scan = "idle"
    /\ scan' = "open"
    /\ UNCHANGED <<network, cursor, batch, found, missed, resolving, air>>

\* Interface, socket or source address is missing: the map stays as it is.
ScanFails ==
    /\ scan = "open"
    /\ scan' = "idle"
    /\ UNCHANGED <<network, cursor, batch, found, missed, resolving, air>>

\* A fresh socket and an empty map.
Open ==
    /\ scan = "open"
    /\ scan' = "send" /\ cursor' = NextIP(Base) /\ batch' = 0
    /\ found' = [m \in Hosts |-> NoAddress]
    /\ air' = {} /\ missed' = FALSE
    /\ since' = [m \in Hosts |-> {holds[m]}]
    /\ steady' = Hosts
    /\ UNCHANGED <<holds, moves, resolving>>

\* The hosts that answer a request for an address, external.
RepliesOf(a) == {r \in Replies : r.ip = a /\ holds[r.mac] = a}

Skip ==
    /\ scan = "send" /\ cursor \in Subnet /\ batch < BatchSize
    /\ IsBroadcast(cursor)
    /\ cursor' = NextIP(cursor)
    /\ UNCHANGED <<network, scan, batch, found, missed, resolving, air>>

\* A request that cannot be sent is logged, and counted like the others.
Ask ==
    /\ scan = "send" /\ cursor \in Subnet /\ batch < BatchSize
    /\ ~IsBroadcast(cursor)
    /\ cursor' = NextIP(cursor)
    /\ batch' = batch + 1
    /\ \/ air' = air \cup RepliesOf(cursor) /\ UNCHANGED missed
       \/ missed' = TRUE /\ UNCHANGED air
    /\ UNCHANGED <<network, scan, found, resolving>>

\* One read.  Linux returns one frame, a BPF buffer holds several; the last
\* one of a host counts.
TakeFrames(frames) ==
    /\ found' \in {g \in Lookups : \A m \in Hosts :
          LET ips == {f.ip : f \in {h \in frames : h.mac = m /\ h.ip \in Subnet}}
          IN  IF ips = {} THEN g[m] = found[m] ELSE g[m] \in ips}
    /\ air' = air \ frames

\* One read between two batches, whether something is there or not.
ReadBetween ==
    /\ scan = "send" /\ batch = BatchSize
    /\ batch' = 0
    /\ \E frames \in SUBSET air : TakeFrames(frames)
    /\ UNCHANGED <<network, scan, cursor, missed, resolving>>

SentAll ==
    /\ scan = "send" /\ cursor \notin Subnet /\ batch < BatchSize
    /\ scan' = "drain"
    /\ UNCHANGED <<network, cursor, batch, found, missed, resolving, air>>

Drain ==
    /\ scan = "drain"
    /\ \E frames \in SUBSET air \ {{}} : TakeFrames(frames)
    /\ UNCHANGED <<network, scan, cursor, batch, missed, resolving>>

\* Faulty variant: what is no longer found is kept.
PublishMerged ==
    /\ known' = [m \in Hosts |-> IF found[m] # NoAddress THEN found[m] ELSE known[m]]
    /\ knownSince' = since

\* The map of the scan replaces the resolver's.
Publish ==
    /\ known' = found
    /\ knownSince' = since

\* The deadline, counted from before the first request, has passed.
Deadline ==
    /\ scan = "drain"
    /\ scan' = "idle"
    /\ Publish
    /\ air' = {}
    /\ UNCHANGED <<network, cursor, batch, found, missed>>

-----------------------------------------------------------------------------
(* The network *)

\* A host comes, leaves or changes its address.
Move(m, a) ==
    /\ moves < MaxMoves /\ a # holds[m]
    /\ moves' = moves + 1
    /\ holds' = [holds EXCEPT ![m] = a]
    /\ since' = [since EXCEPT ![m] = @ \cup {a}]
    /\ steady' = steady \ {m}
    /\ UNCHANGED <<scanning, resolving, air>>

\* A host answers somebody else, or nobody, while the socket is open.
Announce(m) ==
    /\ scan \in {"send", "drain"}
    /\ holds[m] # NoAddress
    /\ air' = air \cup {[mac |-> m, ip |-> holds[m]]}
    /\ UNCHANGED <<network, scanning, resolving>>

-----------------------------------------------------------------------------
Scan == Skip \/ Ask \/ ReadBetween \/ SentAll \/ Drain

ResolverNext ==
    \/ Tick \/ ScanFails \/ Open \/ Scan \/ Deadline
    \/ \E m \in Hosts : Announce(m) \/ \E a \in Usable \cup {NoAddress} : Move(m, a)

ResolverSpec == ResolverInit /\ [][ResolverNext]_resolverVars

-----------------------------------------------------------------------------
(* Properties *)

\* Type invariant.
ResolverTypeOK ==
    /\ {holds, found, known} \subseteq Lookups
    /\ scan \in {"idle", "open", "send", "drain"}
    /\ cursor \in Address /\ batch \in 0 .. BatchSize
    /\ air \subseteq Replies
    /\ {since, knownSince} \subseteq [Hosts -> SUBSET (Address \cup {NoAddress})]
    /\ steady \subseteq Hosts /\ missed \in BOOLEAN
    /\ moves \in Nat

\* The resolver never tells an address that its host gave up before the scan
\* behind the map began: neither late and unsolicited frames nor failed scans
\* let an entry outlive the next successful scan.
KnownWasHeld ==
    \A m \in Hosts : known[m] # NoAddress => known[m] \in knownSince[m]

\* A scan whose requests were all sent and whose deadline left nothing unread
\* has found every host that kept its address throughout, whatever came
\* in between and in whichever batches it was read.
QuietScanFindsAll ==
    [][scan = "drain" /\ scan' = "idle" /\ ~missed /\ air = {} =>
         \A m \in steady :
             holds[m] # NoAddress => known'[m] = holds[m]]_resolverVars
=============================================================================
