-------------------------------- MODULE Keys --------------------------------
(***************************************************************************)
(* The key schedule of an edge: reading the key file, rolling the keys     *)
(* over, choosing the transform and the security association to encode     *)
(* with, and finding the one to decode with.                               *)
(*                                                                         *)
(* Several edges of a community read the same key file.  Each has its own  *)
(* clock, reads the file when it starts and when its operator asks for it, *)
(* and looks at the validity of its keys only every TickInterval seconds.  *)
(* One action is one iteration of run_loop: n2n_tick_transop when it is    *)
(* due, then the input.  Key material is never looked into: a key is its   *)
(* line in the file.                                                       *)
(***************************************************************************)
EXTENDS Integers, Sequences, FiniteSets, Lists

CONSTANTS
    Edges,          \* edges that share the key file
    Skew,           \* Skew[e]: how far the clock of e is ahead
    Files,          \* the versions of the key file, a sequence of schedules
    MaxSA,          \* N2N_TWOFISH_NUM_SA, N2N_AES_NUM_SA
    MaxSpecs,       \* N2N_NUM_CIPHERSPECS, the lines kept of a file
    TickInterval,   \* TRANSOP_TICK_INTERVAL
    Start,          \* bound: the clock starts here
    MaxTime         \* bound: and stops here

\* The transforms that take keys, and the one that does not.
Keyed == {"TF", "AES"}
Null == "NULL"

\* Stands for the key of a frame the NULL transform encoded.
Clear == [sa |-> 0, t |-> Null, from |-> 0, until |-> 0]

\* A line of the file; any other transform number is one no table exists for.
Spec0 == [sa: Nat, t: Keyed \cup {"other"}, from: Nat, until: Nat]

Lines(f) == {f[i] : i \in 1..Len(f)}
AllLines == UNION {Lines(Files[v]) : v \in 1..Len(Files)}

ASSUME KeysAssumption ==
    /\ Skew \in [Edges -> Nat]
    /\ Files \in Seq(Seq(Spec0)) /\ Len(Files) > 0
    /\ MaxSA \in Nat \ {0} /\ MaxSpecs \in Nat
    /\ TickInterval \in Nat
    /\ Start \in Nat /\ Start > TickInterval    \* time(NULL) is far from 1970

\* Whoever writes key files gives each key of a transform a number of its own.
ASSUME SaAssumption ==
    \A j, k \in AllLines : j.t = k.t /\ j.sa = k.sa => j = k

VARIABLES
    eee,      \* eee[e]: the state of edge e, see Edge
    file,     \* the version of the key file on disk
    sent,     \* lines whose key, or Clear, encoded a packet still under way
    now       \* the time

vars == <<eee, file, sent, now>>

\* up: running.  table[t]: priv->sa of transform t.  txSa[t]: priv->tx_sa.
\* tx: tx_transop_idx.  last: lastTransop.  read (history): file versions
\* loaded without an error.  starved (history): the last tick found no valid key.
Edge == [up: BOOLEAN, table: [Keyed -> Seq(Spec0)], txSa: [Keyed -> Nat \ {0}],
         tx: Keyed \cup {Null}, last: Nat, read: SUBSET (1..Len(Files)),
         starved: BOOLEAN]

TypeOK ==
    /\ eee \in [Edges -> Edge]
    /\ file \in 1..Len(Files)
    /\ sent \subseteq AllLines \cup {Clear}
    /\ now \in Nat
    /\ \A e \in Edges : /\ \A t \in Keyed : Len(eee[e].table[t]) <= MaxSA
                        /\ eee[e].tx \in Keyed =>
                              eee[e].txSa[eee[e].tx] <= Len(eee[e].table[eee[e].tx])

Clock(e) == now + Skew[e]

---------------------------------------------------------------------------
(* Reading the file.                                                       *)

\* validCipherSpec
Valid(k, c) == k.from <= k.until /\ k.from <= c /\ c <= k.until

\* Variants: definitions named ...Variant are not part of the specification;
\* each is a plausible mistake in the definition that follows it.
ReadKeyfileVariant(f, c) ==
    LET kept == Select(f, {k \in Lines(f) : Valid(k, c)})
    IN  SubSeq(kept, 1, IF Len(kept) > MaxSpecs THEN MaxSpecs ELSE Len(kept))

\* n2n_read_keyfile: lines whose key has expired are passed over.
ReadKeyfile(f, c) ==
    LET kept == Select(f, {k \in Lines(f) : k.until > c})
    IN  SubSeq(kept, 1, IF Len(kept) > MaxSpecs THEN MaxSpecs ELSE Len(kept))

\* the limit of the table is one too high
FitsVariant(tab, specs, i) ==
    LET t == specs[i].t
    IN  t \in Keyed /\ Len(tab[t]) + Cardinality({j \in 1..(i - 1) : specs[j].t = t}) <= MaxSA

\* addspec takes the i-th line after the ones before it: its transform has a
\* table, with a free place.
Fits(tab, specs, i) ==
    LET t == specs[i].t
    IN  t \in Keyed /\ Len(tab[t]) + Cardinality({j \in 1..(i - 1) : specs[j].t = t}) < MaxSA

\* The lines edge_init_keyschedule adds: those before the first that fails.
Added(tab, specs) ==
    CHOOSE n \in 0..Len(specs) : /\ \A i \in 1..n : Fits(tab, specs, i)
                                 /\ n < Len(specs) => ~Fits(tab, specs, n + 1)

\* New keys go to the end of the table of their transform.
AddSpecs(tab, specs) ==
    LET added == SubSeq(specs, 1, Added(tab, specs))
    IN  [t \in Keyed |-> tab[t] \o Select(added, {k \in Lines(added) : k.t = t})]

---------------------------------------------------------------------------
(* Choosing a key.                                                         *)

ValidSas(r, t, c) == {i \in 1..Len(r.table[t]) : Valid(r.table[t][i], c)}

\* transop_tick_twofish, transop_tick_aes: the first valid key of the table, or
\* else the one it has.
ChosenSa(r, t, c) ==
    IF ValidSas(r, t, c) = {} THEN r.txSa[t]
    ELSE CHOOSE i \in ValidSas(r, t, c) : \A j \in ValidSas(r, t, c) : i <= j

\* without a valid key the choice goes back to the start-up default
TickTransopVariant(r, c) ==
    LET can == {t \in Keyed : ValidSas(r, t, c) # {}}
    IN  [r EXCEPT
          !.txSa = [t \in Keyed |-> ChosenSa(r, t, c)],
          !.tx = IF "TF" \in can THEN "TF" ELSE IF "AES" \in can THEN "AES" ELSE Null,
          !.starved = can = {}]

\* n2n_tick_transop: each transform chooses its key; Twofish is preferred to
\* AES, and a transform without a valid key never replaces the one in use.
TickTransop(r, c) ==
    LET can == {t \in Keyed : ValidSas(r, t, c) # {}}
    IN  [r EXCEPT
          !.txSa = [t \in Keyed |-> ChosenSa(r, t, c)],
          !.tx = IF "TF" \in can THEN "TF" ELSE IF "AES" \in can THEN "AES" ELSE @,
          !.starved = can = {}]

\* the loop ticks once only
LoopTickVariant(r, c) ==
    IF r.last = 0 THEN [TickTransop(r, c) EXCEPT !.last = c] ELSE r

\* run_loop, before any input is looked at
LoopTick(r, c) ==
    IF c - r.last > TickInterval THEN [TickTransop(r, c) EXCEPT !.last = c] ELSE r

\* edge_choose_tx_transop and tf_choose_tx_sa: the key a frame is encoded with
TxKey(r) == IF r.tx = Null THEN Clear ELSE r.table[r.tx][r.txSa[r.tx]]

\* twofish_find_sa, aes_find_sa: the first entry that has the number sent
\* along with a packet
FindSa(r, k) ==
    LET tab == r.table[k.t]
        same == {i \in 1..Len(tab) : tab[i].sa = k.sa}
    IN  IF same = {} THEN 0 ELSE CHOOSE i \in same : \A j \in same : i <= j

\* transop_decode_twofish, transop_decode_aes
Decodes(r, k) == FindSa(r, k) # 0 /\ r.table[k.t][FindSa(r, k)] = k

---------------------------------------------------------------------------
(* Actions.                                                                *)

Empty == [up |-> FALSE, table |-> [t \in Keyed |-> <<>>], txSa |-> [t \in Keyed |-> 1],
          tx |-> Null, last |-> 0, read |-> {}, starved |-> FALSE]

\* edge_init_keyschedule; r is what the edge has.  An error leaves the lines
\* that were added in the tables, without a tick.
Schedule(r, c) ==
    LET specs == ReadKeyfile(Files[file], c)
        loaded == [r EXCEPT !.table = AddSpecs(@, specs)]
        ok == specs # <<>> /\ Added(r.table, specs) = Len(specs)
    IN  [ok |-> ok,
         edge |-> IF ok THEN TickTransop([loaded EXCEPT !.read = @ \cup {file}], c)
                        ELSE loaded]

\* main: an edge that cannot read its schedule does not start.
Boot(e) ==
    LET s == Schedule(Empty, Clock(e))
    IN  /\ ~eee[e].up
        /\ s.ok
        /\ eee' = [eee EXCEPT ![e] = [s.edge EXCEPT !.up = TRUE]]
        /\ UNCHANGED <<file, sent, now>>

\* run_loop, readFromTAPSocket, send_packet2net
Send(e) ==
    LET r == LoopTick(eee[e], Clock(e))
    IN  /\ eee[e].up
        /\ eee' = [eee EXCEPT ![e] = r]
        /\ sent' = sent \cup {TxKey(r)}
        /\ UNCHANGED <<file, now>>

\* run_loop, readFromMgmtSocket: the command "reload"
Reload(e) ==
    /\ eee[e].up
    /\ eee' = [eee EXCEPT ![e] = Schedule(LoopTick(@, Clock(e)), Clock(e)).edge]
    /\ UNCHANGED <<file, sent, now>>

\* run_loop with other input, or none
Loop(e) ==
    /\ eee[e].up
    /\ eee' = [eee EXCEPT ![e] = LoopTick(@, Clock(e))]
    /\ UNCHANGED <<file, sent, now>>

Stop(e) ==
    /\ eee[e].up
    /\ eee' = [eee EXCEPT ![e] = Empty]
    /\ UNCHANGED <<file, sent, now>>

\* The operator puts the next version of the file in place.
Publish ==
    /\ file < Len(Files)
    /\ file' = file + 1
    /\ UNCHANGED <<eee, sent, now>>

Tick ==
    /\ now < MaxTime
    /\ now' = now + 1
    /\ UNCHANGED <<eee, file, sent>>

Init ==
    /\ eee = [e \in Edges |-> Empty]
    /\ file = 1
    /\ sent = {}
    /\ now = Start

Next ==
    \/ \E e \in Edges : Boot(e) \/ Send(e) \/ Reload(e) \/ Loop(e) \/ Stop(e)
    \/ Publish
    \/ Tick

Spec == Init /\ [][Next]_vars

---------------------------------------------------------------------------
(* Properties.                                                             *)

\* A packet under way is decoded by every running edge that loaded a schedule
\* with its key, as long as the key has not expired by that edge's own clock:
\* skewed clocks, rolls, restarts and reloads lose no packet.
Decodable ==
    \A k \in sent \ {Clear}, e \in Edges :
        eee[e].up /\ k.until > Clock(e) /\ (\E v \in eee[e].read : k \in Lines(Files[v]))
            => Decodes(eee[e], k)

\* A frame is encoded with a key that was valid, by the sender's clock, at most
\* TickInterval ago, unless the sender had no valid key at all when it looked.
TxKeyCurrent ==
    [][\A e \in Edges :
          Send(e) =>
              \/ \E c \in (Clock(e) - TickInterval)..Clock(e) : Valid(TxKey(eee'[e]), c)
              \/ eee'[e].starved]_vars

\* edge.8: once all keys have become invalid the edge goes on with the last one
\* that was valid, whatever it loads or however often it looks.
KeepsLastKey ==
    [][\A e \in Edges :
          /\ eee[e].up /\ eee'[e].up /\ eee[e].tx # Null
          /\ \A t \in Keyed : ValidSas(eee'[e], t, Clock(e)) = {}
          => TxKey(eee'[e]) = TxKey(eee[e])]_vars

\* edge.8: with keying parameters but without a valid key the edge exits at
\* startup; hence no frame of an edge with a key schedule is in cleartext.
NoCleartext == Clear \notin sent

=============================================================================
