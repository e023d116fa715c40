----------------------------- MODULE MCOverlay -----------------------------
(* Small instances of Overlay for TLC. *)
EXTENDS Overlay

Ip(port, last) == [family |-> AF_INET, port |-> port, addr |-> <<10, 0, 0, last>>]

MCSnSock  == Ip(7654, 1)
MCSnmSock == Ip(5645, 1)
MCPeer    == [sock |-> Ip(40000, 7), snm |-> Ip(40001, 7), mac |-> <<2, 0, 0, 0, 0, 7>>]
MCOther   == [snm |-> Ip(5645, 2), adv |-> Ip(7654, 2)]
MCThird   == Ip(5645, 3)

MCMac  == [e \in Edges |-> <<2, 0, 0, 0, 0, e>>]
MCSock == [e \in Edges |-> Ip(50000 + e, 10 + e)]

MCab == <<97, 98>>
MCabc == <<97, 98, 99>>
MCx == <<120>>

\* Frames of 20 bytes, a block and a half with the nonce; and for a buffer of 95
\* bytes those at its end.  Without a cipher 53 bytes are the most a supernode
\* and 61 the most the sender holds, with Twofish 44, three blocks with the nonce,
\* and 52; with AES 43 are the most, 44 to 52 pass the check, and 53 fail.
Fill(n) == [i \in 1..n |-> (37 * i) % 256]
MCFrames == [e \in Edges |->
    IF e = 1 THEN {MCMac[2] \o MCMac[1] \o <<8, 6>> \o Fill(n) : n \in {6, 29, 30, 38, 39, 47}} \cup
                  {[i \in 1..6 |-> 255] \o MCMac[1] \o <<8, 6>> \o Fill(56)}
             ELSE {}]

\* Tables and keys that are no better than any others.
MCsBox == [t \in 0..3 |-> [b \in 0..255 |->
    <<(b * 7 + t) % 256, (b * 13 + 5 * t) % 256, (b + 91) % 256, (b * b + t) % 256>>]]
MCsubKeys == [i \in 0..(7 + 2 * Rounds) |-> <<(i * 31) % 256, (i * 17 + 3) % 256, (i * 57) % 256, (201 * i) % 256>>]

\* Any permutation will do for AES.
MCAesEncrypt(b) == [i \in 1..16 |-> (b[(i % 16) + 1] + 77) % 256]
MCAesDecrypt(b) == [i \in 1..16 |-> (b[((i + 14) % 16) + 1] + 179) % 256]

MCBefore == <<[name |-> MCabc, sns |-> <<MCOther.adv>>], [name |-> MCx, sns |-> <<>>]>>
MCNonces == {<<1, 2, 3, 4>>}
MCCookies == {<<9, 8, 7, 6>>}
MCCmdLine == <<MCOther.snm>>
MCOthers == {MCOther}
MCNames == {MCab, MCabc}
MCNameLists == {<<MCab, MCx>>}
MCSnLists == {<<MCOther.snm, MCThird>>}
MCSA == <<0, 0, 0, 5>>
MCJunk == {<<Zeros(16), [i \in 1..16 |-> i]>>}

=============================================================================
