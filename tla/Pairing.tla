------------------------------ MODULE Pairing -------------------------------
(***************************************************************************)
(* What a phone needs to find the laptop, and where the laptop shows it: a *)
(* QR code and a code to type for each address, drawn by the dashboard;    *)
(* the port, which the next start tries again; and the addresses a phone   *)
(* is handed when it pairs.  The laptop changes networks and its key is    *)
(* rotated while all of that is on screen.                                 *)
(* (internal/server/server.go: Listen, URLs; main.go: pairCode, rekeyQR,   *)
(* showQR, consoleRotateKey; startup.go: listenPort, SetAddresses.)        *)
(*                                                                         *)
(* An interface is what it is to a phone and the IPv4 addresses on it; a   *)
(* QR code is what it encodes.  Whether a phone that dials is let in is in *)
(* Handshake; here it is whether it knows the key.                         *)
(***************************************************************************)
EXTENDS PairCode

CONSTANTS
  Networks,  \* what the laptop may be connected to: sequences of interfaces
  Ports,     \* the ports it may be given
  Keys,      \* the keys it may have
  MaxEvents

\* What they have to be.
ConstantsOK ==
  /\ Networks \subseteq Seq([kind : STRING, addrs : Seq(Seq(0 .. 255))])
  /\ Ports \subseteq Nat \ {0} /\ MaxEvents \in Nat

VARIABLES
  network,    \* the interfaces now
  port,       \* the port bound, or 0
  remembered, \* the port of the state file, or 0
  key,        \* Manager.pairingKey
  bar,        \* the statusBar: its urls, which is shown, its rawKey, its QR codes
  typed,      \* what somebody typed into a phone, and what was on screen
  given,      \* the addresses the phone was handed as it paired
  events

vars == <<network, port, remembered, key, bar, typed, given, events>>

Loopback == <<127, 0, 0, 1>>
NotTyped == [shown |-> NotACode, got |-> NotACode]
NoBar == [urls |-> <<>>, shown |-> 0, rawKey |-> <<>>, qr |-> <<>>]

-----------------------------------------------------------------------------
\* reachableIPv4: nothing of an interface that is down, loopback or virtual.
Reachable(iface) == IF iface.kind = "lan" THEN iface.addrs ELSE <<>>

\* localIPsFrom, which never returns none.
LocalIPs(ifaces) ==
  LET ips == FlattenSeq([i \in DOMAIN ifaces |-> Reachable(ifaces[i])])
  IN  IF ips = <<>> THEN <<Loopback>> ELSE ips

Target(host, p, k) == [ok |-> TRUE, host |-> host, port |-> p, key |-> k]

\* pairingURL, for every address.
Render(urls, p, k) == [i \in DOMAIN urls |-> Target(urls[i], p, k)]

\* What dialing an address with a key comes to.
Dials(t) ==
  /\ t.ok /\ port # 0 /\ t.port = port
  /\ \E i \in DOMAIN LocalIPs(network) : t.host = LocalIPs(network)[i]

-----------------------------------------------------------------------------
Count == events < MaxEvents /\ events' = events + 1

\* listenPort and Listen: the port that is asked for, or a free one.
Bind(asked, busy) ==
  LET wanted == IF asked # 0 THEN asked ELSE remembered IN
  IF wanted # 0 /\ wanted \notin busy THEN {wanted} ELSE Ports \ busy

Start(asked, busy) ==
  /\ port = 0 /\ Count
  /\ port' \in Bind(asked, busy)
  /\ remembered' = port'
  /\ LET urls == LocalIPs(network) IN
       bar' = [urls |-> urls, shown |-> 1, rawKey |-> key, qr |-> Render(urls, port', key)]
  /\ UNCHANGED <<network, key, typed, given>>

Stop ==
  /\ port # 0 /\ Count /\ port' = 0 /\ bar' = NoBar
  /\ UNCHANGED <<network, remembered, key, typed, given>>

Move(n) ==
  /\ network # n /\ Count /\ network' = n
  /\ UNCHANGED <<port, remembered, key, bar, typed, given>>

\* Mutant: only the code on screen is rendered again.
RekeyShown(k) == [bar EXCEPT !.qr[bar.shown].key = k]

\* rekeyQR: every code is rendered again.  The rawKey the code to type is made from
\* stays what it was.
Rekey(k) == [bar EXCEPT !.qr = Render(bar.urls, port, k)]

RotateKey(k) ==
  /\ port # 0 /\ k # key /\ Count /\ key' = k
  /\ bar' = Rekey(k)
  /\ UNCHANGED <<network, port, remembered, typed, given>>

ShowQR(i) ==
  /\ port # 0 /\ i \in DOMAIN bar.urls /\ i # bar.shown /\ Count
  /\ bar' = [bar EXCEPT !.shown = i]
  /\ UNCHANGED <<network, port, remembered, key, typed, given>>

\* pairCodeLocked, and how somebody types what it says: with the letters they see
\* for a zero and a one, and with or without the separators.
Shown == Target(bar.urls[bar.shown], port, bar.rawKey)

AsTyped(code, zero, one, spaced) ==
  LET read == [i \in DOMAIN code |-> IF code[i] = 0 THEN zero
                                     ELSE IF code[i] = 1 THEN one ELSE code[i]]
  IN  IF spaced THEN read ELSE SelectSeq(read, LAMBDA c : c # Separator)

Type(zero, one, spaced) ==
  /\ port # 0 /\ Count
  /\ LET code == Encode(Shown.host, Shown.port, Shown.key)
     IN  typed' = [shown |-> Shown, got |-> Decode(AsTyped(code, zero, one, spaced))]
  /\ UNCHANGED <<network, port, remembered, key, bar, given>>

\* Mutant: the addresses a phone is handed are those the program started with.
AddressesThen == bar.urls

\* Hub.addresses asks when somebody pairs.
Addresses == LocalIPs(network)

\* A phone dials what was typed into it, or a QR code of the screen, and pairs.
Pair(t) ==
  /\ Dials(t) /\ t.key = key /\ Count
  /\ given' = [i \in DOMAIN Addresses |-> Target(Addresses[i], port, key)]
  /\ UNCHANGED <<network, port, remembered, key, bar, typed>>

Init ==
  /\ network \in Networks /\ key \in Keys
  /\ port = 0 /\ remembered = 0 /\ bar = NoBar
  /\ typed = NotTyped /\ given = <<>> /\ events = 0

Next ==
  \/ \E asked \in Ports \cup {0}, busy \in {{p} : p \in Ports} \cup {{}} : Start(asked, busy)
  \/ Stop
  \/ \E n \in Networks : Move(n)
  \/ \E k \in Keys : RotateKey(k)
  \/ \E i \in 1 .. 3 : ShowQR(i)
  \/ \E zero \in {0, O}, one \in {1, I, L}, spaced \in BOOLEAN : Type(zero, one, spaced)
  \/ \E t \in {typed.got} \cup {bar.qr[i] : i \in DOMAIN bar.qr} : Pair(t)

Spec == Init /\ [][Next]_vars

-----------------------------------------------------------------------------
Interfaces == UNION {{n[i] : i \in DOMAIN n} : n \in Networks}
SomeAddresses == UNION {{x.addrs[j] : j \in DOMAIN x.addrs} : x \in Interfaces}
Targets == [ok : {TRUE}, host : SomeAddresses \cup {Loopback}, port : Ports, key : Keys]

TypeOK ==
  /\ network \in Networks /\ key \in Keys
  /\ port \in Ports \cup {0} /\ remembered \in Ports \cup {0}
  /\ bar = NoBar \/ /\ bar.shown \in DOMAIN bar.urls /\ bar.rawKey \in Keys
                    /\ DOMAIN bar.qr = DOMAIN bar.urls
                    /\ \A i \in DOMAIN bar.qr : bar.qr[i] \in Targets
  /\ typed = NotTyped \/ typed.shown \in Targets
  /\ \A i \in DOMAIN given : given[i] \in Targets
  /\ events \in 0 .. MaxEvents

\* Whatever address, port and key the code on screen was made of, typing it the
\* way people type finds the same three again.  (Encode, Decode.)
TypedIsShown == typed.got = typed.shown

\* No QR code of the dashboard carries a key that was rotated away, shown or not.
\* (rekeyQR: "Without this the codes on screen keep encoding the key that
\* rotate-key just invalidated".)
QrCarriesTheKey == \A i \in DOMAIN bar.qr : bar.qr[i].key = key /\ bar.qr[i].port = port

\* A phone that pairs is handed addresses it can dial there and then, on whichever
\* network the laptop is by now.  (SetAddresses: "a laptop that has moved between
\* networks since hands out the one it is on now".)
GivenAddressesAnswer ==
  [][\A i \in DOMAIN given' : given' = given \/ Dials(given'[i])]_vars

\* Together: what a phone reads off the screen, types or is handed, it can dial.
CodesPair == [](TypedIsShown /\ QrCarriesTheKey) /\ GivenAddressesAnswer

\* The code that is shown pairs a phone that can reach the address in it.  Violated:
\* after a rotation it is still made of the key before.  (pairCode: "Nothing on
\* screen beats a code that pairs with nothing".)
CodeCarriesTheKey == port # 0 => Shown.key = key

\* The addresses on screen are ones a phone can dial.  Violated: they are read once,
\* at the start.
ShownAddressesAnswer == \A i \in DOMAIN bar.qr : Dials(bar.qr[i])
=============================================================================
