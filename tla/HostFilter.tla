------------------------------ MODULE HostFilter ------------------------------
(***************************************************************************)
(* The hosts that the network proxy may connect to                         *)
(* (sandbox2/network_proxy/filtering.cc).  An IPv4 address has AddrBits    *)
(* bits, an IPv6 address two bytes of ByteBits bits, a port PortBits bits, *)
(* and numbers wrap at these widths as they do in the code.  A host is     *)
(* given as an address, BadIp for text that inet_pton() refuses, and what  *)
(* follows it: nothing, "/cidr" or "/mask".                                *)
(***************************************************************************)
LOCAL INSTANCE Naturals
LOCAL INSTANCE Sequences
LOCAL INSTANCE FiniteSets
LOCAL INSTANCE Bitwise

CONSTANTS AddrBits, ByteBits, PortBits,
          HostIps,      \* the addresses given to AllowIPv4/6, BadIp included
          HostPorts,    \* the ports given to them
          MaxHostCalls  \* different calls in a behaviour

ASSUME FilterAssumption == AddrBits = 2 * ByteBits

VARIABLES
    allowed_IPv4, allowed_IPv6,   \* the entries of AllowedHosts
    hostAsked                     \* history: the calls made

filterVars == <<allowed_IPv4, allowed_IPv6, hostAsked>>

BadIp == 2 ^ AddrBits
AddrValues == 0..(2 ^ AddrBits - 1)
PortValues == 0..(2 ^ PortBits - 1)

HostSuffixes ==
    [kind : {"none"}, n : {0}]
      \cup [kind : {"cidr"}, n : 0..(AddrBits + 1)]
      \cup [kind : {"mask"}, n : AddrValues]
      \cup [kind : {"bad_cidr", "bad_mask"}, n : {0}]

\* ParseIpAndMask: a cidr must be a number and not zero; without one it is 0.
ParseOk(suffix) == suffix.kind # "bad_cidr" /\ (suffix.kind = "cidr" => suffix.n # 0)
ParsedCidr(suffix) == IF suffix.kind = "cidr" THEN suffix.n ELSE 0

\* CidrToInAddr: shifts `cidr` ones in from the left.
CidrToInAddr(cidr) ==
    LET tmp[n \in 0..cidr] ==
          IF n = 0 THEN 0 ELSE (tmp[n - 1] \div 2) + 2 ^ (AddrBits - 1)
    IN  tmp[cidr]

\* CidrToIn6Addr: full bytes first, then the rest of the ones.
CidrToIn6Addr(cidr) ==
    LET full == cidr \div ByteBits
        tmp[n \in 0..(ByteBits - 1)] ==
          IF n = 0 THEN 0 ELSE (tmp[n - 1] \div 2) + 2 ^ (ByteBits - 1)
    IN  [i \in 1..2 |->
          IF i <= full THEN 2 ^ ByteBits - 1
          ELSE IF i = full + 1 THEN tmp[cidr % ByteBits] ELSE 0]

\* IsIPv4MaskCorrect: the two's complement of a prefix of ones is a power of two.
IsIPv4MaskCorrect(mask) ==
    /\ mask # 0
    /\ LET m == (2 ^ AddrBits - mask) % 2 ^ AddrBits
       IN  (m & ((m + 2 ^ AddrBits - 1) % 2 ^ AddrBits)) = 0

MaskOk(suffix) ==
    IF suffix.kind = "mask" THEN IsIPv4MaskCorrect(suffix.n)
    ELSE suffix.kind # "bad_mask" /\ ParsedCidr(suffix) <= AddrBits

MaskOf(suffix) ==
    IF suffix.kind = "mask" THEN suffix.n
    ELSE CidrToInAddr(IF ParsedCidr(suffix) = 0 THEN AddrBits ELSE ParsedCidr(suffix))

\* Mutant: whatever mask is given is used.
AllowIPv4AnyMask(ip, suffix, port) ==
    /\ allowed_IPv4' =
         IF ParseOk(suffix) /\ suffix.kind # "bad_mask" /\ ParsedCidr(suffix) <= AddrBits
              /\ ip # BadIp
         THEN Append(allowed_IPv4, [ip |-> ip, mask |-> MaskOf(suffix),
                                    port |-> port % 2 ^ PortBits])
         ELSE allowed_IPv4
    /\ UNCHANGED allowed_IPv6

\* AllowIPv4: an entry is added only when every part can be parsed; htons(port)
\* keeps PortBits bits of the port.
AllowIPv4(ip, suffix, port) ==
    /\ allowed_IPv4' =
         IF ParseOk(suffix) /\ MaskOk(suffix) /\ ip # BadIp
         THEN Append(allowed_IPv4, [ip |-> ip, mask |-> MaskOf(suffix),
                                    port |-> port % 2 ^ PortBits])
         ELSE allowed_IPv4
    /\ UNCHANGED allowed_IPv6

Bytes(ip) == <<ip \div 2 ^ ByteBits, ip % 2 ^ ByteBits>>

\* AllowIPv6: as AllowIPv4, but ParseIpAndMask takes no mask.
AllowIPv6(ip, suffix, port) ==
    LET cidr == IF ParsedCidr(suffix) = 0 THEN 2 * ByteBits ELSE ParsedCidr(suffix)
    IN  /\ allowed_IPv6' =
             IF /\ ParseOk(suffix) /\ suffix.kind \notin {"mask", "bad_mask"}
                /\ ip # BadIp /\ cidr <= 2 * ByteBits
             THEN Append(allowed_IPv6, [ip |-> Bytes(ip), mask |-> CidrToIn6Addr(cidr),
                                        port |-> port % 2 ^ PortBits])
             ELSE allowed_IPv6
        /\ UNCHANGED allowed_IPv4

PortMatches(entry, port) == entry.port = 0 \/ entry.port = port

IsIPv4Allowed(addr, port) ==
    \E i \in DOMAIN allowed_IPv4 :
      LET entry == allowed_IPv4[i]
      IN  (entry.ip & entry.mask) = (addr & entry.mask) /\ PortMatches(entry, port)

IsIPv6Allowed(addr, port) ==
    \E i \in DOMAIN allowed_IPv6 :
      LET entry == allowed_IPv6[i]
      IN  /\ \A b \in 1..2 : (entry.ip[b] & entry.mask[b]) = (addr[b] & entry.mask[b])
          /\ PortMatches(entry, port)

FilterInit == allowed_IPv4 = <<>> /\ allowed_IPv6 = <<>> /\ hostAsked = {}

FilterNext ==
    /\ Cardinality(hostAsked) < MaxHostCalls
    /\ \E ip \in HostIps, suffix \in HostSuffixes, port \in HostPorts :
         \/ /\ <<"v4", ip, suffix, port>> \notin hostAsked
            /\ AllowIPv4(ip, suffix, port)
            /\ hostAsked' = hostAsked \cup {<<"v4", ip, suffix, port>>}
         \/ /\ <<"v6", ip, suffix, port>> \notin hostAsked
            /\ AllowIPv6(ip, suffix, port)
            /\ hostAsked' = hostAsked \cup {<<"v6", ip, suffix, port>>}

-----------------------------------------------------------------------------
\* The length of the prefix that a call asks for; 0 when the call is not valid:
\* a length from 1 to all bits, the mask of such a length, or none for all bits.
PrefixAsked(family, suffix) ==
    CASE suffix.kind = "none" -> AddrBits
      [] suffix.kind = "cidr" /\ suffix.n \in 1..AddrBits -> suffix.n
      [] suffix.kind = "mask" /\ family = "v4"
           /\ (\E n \in 1..AddrBits : suffix.n = 2 ^ AddrBits - 2 ^ (AddrBits - n)) ->
             CHOOSE n \in 1..AddrBits : suffix.n = 2 ^ AddrBits - 2 ^ (AddrBits - n)
      [] OTHER -> 0

\* A call covers a host of its family with the same leading bits and, unless it
\* names port 0, the same port.
CoveredBy(call, family, addr, port) ==
    LET prefix == PrefixAsked(family, call[3])
        shift == 2 ^ (AddrBits - prefix)
    IN  /\ call[1] = family /\ call[2] # BadIp /\ prefix > 0
        /\ addr \div shift = call[2] \div shift
        /\ call[4] \in {0, port}

\* A host may be connected to exactly when a valid call to AllowIPv4() or
\* AllowIPv6() covers it, as long as the ports given fit into a port number:
\* masks and lengths, given either way, are the prefixes they stand for, and a
\* call with a part that cannot be parsed allows nothing.  (Before the first
\* call the lists are empty.)
HostsAsAsked ==
    hostAsked # {} /\ (\A call \in hostAsked : call[4] \in PortValues) =>
      \A addr \in AddrValues, port \in PortValues \ {0} :
        /\ IsIPv4Allowed(addr, port)
             <=> \E call \in hostAsked : CoveredBy(call, "v4", addr, port)
        /\ IsIPv6Allowed(Bytes(addr), port)
             <=> \E call \in hostAsked : CoveredBy(call, "v6", addr, port)
=============================================================================
