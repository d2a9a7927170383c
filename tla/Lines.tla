------------------------------- MODULE Lines -------------------------------
(***************************************************************************)
(* The bans of one server: K, RK, D, X and RX lines, G-lines, and RESVs of *)
(* nicks and channels.  They live in memory, where temporary ones are only,*)
(* and in one file for each type, which REHASH reads again; commands that  *)
(* take one out of its file do so themselves.  io_loop walks the clients   *)
(* once more whenever rehashed_klines says that a new ban may cover one.   *)
(***************************************************************************)
EXTENDS Integers, Sequences, SequencesExt

CONSTANTS
    Mask,
    Includes,   \* pairs of masks: all that the second matches the first does
    Hits,       \* pairs <<mask, who>>: the mask matches a connection from there
    ExemptMask, \* exempt{} blocks of ircd.conf
    ConfResv,   \* resv{} blocks of ircd.conf, as <<type, mask>>
    Profile,    \* what connections are like: who, kline_exempt, gline_exempt
    Hold,       \* how long a temporary line may be placed for
    Themes,     \* bound: the lines commands are about, as <<type, mask>>
    MaxCommands,    \* bound: commands, REHASHes and restarts
    MaxTrouble, \* bound: files that cannot be opened, written or renamed
    MaxTime

ResvType == {"NRESV", "CRESV"}
FileType == {"KLINE", "RKLINE", "DLINE", "XLINE", "RXLINE"} \cup ResvType
LineType == FileType \cup {"GLINE"}

ASSUME LineAssumption ==
    /\ \A m \in Mask : <<m, m>> \in Includes
    /\ ExemptMask \subseteq Mask /\ ConfResv \subseteq ResvType \X Mask
    /\ Hold \subseteq Nat \ {0} /\ {MaxCommands, MaxTrouble, MaxTime} \subseteq Nat
    /\ \A p \in Profile : {p.kline_exempt, p.gline_exempt} \subseteq BOOLEAN

\* A ban: until hold, or for good if that is 0; by hand in ircd.conf or not.
Ban(t, m, hold, conf) == [type |-> t, mask |-> m, hold |-> hold, conf |-> conf]

VARIABLES
    lines,      \* the bans in memory
    file,       \* of a type: the masks in its file, in order
    rehashed_klines,
    user,       \* a connection: its profile, and its place
    time,
    theme,      \* the lines this behaviour is about
    asked,      \* history: the bans placed, and not taken back
    adrift,     \* history: what a failure keeps from being as it was asked
    left        \* what is left of the bounds

lineVars == <<lines, file, rehashed_klines, user, time, theme, asked, adrift, left>>
disk == <<file, adrift>>

LineTypeOK ==
    /\ lines \subseteq [type : LineType, mask : Mask, hold : Nat, conf : BOOLEAN]
    /\ file \in [FileType -> Seq(Mask)]
    /\ rehashed_klines \in BOOLEAN
    /\ user \in [who : {p.who : p \in Profile}, kline_exempt : BOOLEAN, gline_exempt : BOOLEAN,
                 place : {"out", "unknown", "refused", "on"}]
    /\ time \in Nat
    /\ asked \subseteq [type : LineType, mask : Mask, hold : Nat, conf : {FALSE}]
    /\ adrift \subseteq FileType \X Mask
    /\ left \in [commands : Nat, trouble : Nat]

-----------------------------------------------------------------------------
(* Whom bans cover. *)

Hit(types) == \E l \in lines : l.type \in types /\ <<l.mask, user.who>> \in Hits
Exempted == \E m \in ExemptMask : <<m, user.who>> \in Hits

\* find_dline_conf, which lets exempt{} go first.
Dlined == Hit({"DLINE"}) /\ ~Exempted

\* check_conf_klines of a client: each match is the last one looked at, whether
\* the client is exempt from it or not.
Banned ==
    /\ ~Exempted
    /\ \/ Hit({"DLINE"})
       \/ /\ Hit({"GLINE"})
          /\ ~user.kline_exempt /\ ~user.gline_exempt
       \/ /\ ~Hit({"GLINE"}) /\ Hit({"KLINE", "RKLINE"})
          /\ ~user.kline_exempt
       \/ /\ ~Hit({"GLINE", "KLINE", "RKLINE"}) /\ Hit({"XLINE", "RXLINE"})

\* verify_access, then check_xline.
Refused ==
    \/ Hit({"KLINE"}) /\ ~user.kline_exempt
    \/ Hit({"GLINE"}) /\ ~user.kline_exempt /\ ~user.gline_exempt
    \/ Hit({"RKLINE", "XLINE", "RXLINE"})

-----------------------------------------------------------------------------
(* Files. *)

\* What counts as there already: a mask that matches the new one, or only the
\* same one.
Same(t, stored, m) ==
    IF t \in {"KLINE", "DLINE", "XLINE", "NRESV"} THEN <<stored, m>> \in Includes
    ELSE stored = m

Permanent(t, m) == Ban(t, m, 0, FALSE)

\* create_nick_resv and create_channel_resv for each line of a file: a RESV is
\* not created if there is one that matches it.
Created(t, masks) ==
    LET present[i \in 0..Len(masks)] ==
          IF i = 0 THEN {c[2] : c \in {d \in ConfResv : d[1] = t}}
          ELSE IF \E n \in present[i - 1] : Same(t, n, masks[i]) THEN present[i - 1]
          ELSE present[i - 1] \cup {masks[i]}
    IN present[Len(masks)] \ {c[2] : c \in {d \in ConfResv : d[1] = t}}

\* parse_csv_file.
Parsed(t, masks) ==
    {Permanent(t, m) : m \in IF t \in ResvType THEN Created(t, masks) ELSE ToSet(masks)}

\* Mutant: the temporary lines go with the others.
KeptNone(L) == {}

\* clear_out_old_conf, clear_out_address_conf and clear_conf_resv.
Kept(L) == {l \in L : l.hold > 0 /\ l.type \notin ResvType}

\* What memory, a file and those who asked do not agree about.
Disagreed(files, L) ==
    {p \in FileType \X Mask :
       \/ (Permanent(p[1], p[2]) \in asked') # (p[2] \in ToSet(files[p[1]]))
       \/ (Permanent(p[1], p[2]) \in asked') # (Permanent(p[1], p[2]) \in L)}

\* read_conf_files after L and `files`: `readable` says whether ircd.conf can be
\* opened, `bad` are the types whose files cannot.
ReadConfFiles(L, files, readable, bad) ==
    /\ file' = files
    /\ lines' = IF readable
                THEN Kept(L) \cup {Ban(c[1], c[2], 0, TRUE) : c \in ConfResv}
                             \cup UNION {Parsed(t, files[t]) : t \in FileType \ bad}
                ELSE L
    /\ adrift' = IF readable
                 THEN {p \in Disagreed(files, lines') :
                         \/ p[1] \in bad
                         \/ (Permanent(p[1], p[2]) \in asked') # (p[2] \in ToSet(files[p[1]]))}
                 ELSE adrift \cup Disagreed(files, L)

-----------------------------------------------------------------------------
(* Bounds. *)

Costs(troubles) ==
    /\ left.commands > 0 /\ troubles <= left.trouble
    /\ left' = [commands |-> left.commands - 1, trouble |-> left.trouble - troubles]

Trouble(happens) == IF happens THEN 1 ELSE 0

\* One file that cannot be opened, or none.
BadFiles == {{}} \cup {{p[1]} \cap FileType : p \in theme}

-----------------------------------------------------------------------------
(* What commands do, of operators, services and other servers. *)

AlreadyPlaced(t, m) ==
    \/ \E l \in lines : l.type = t /\ Same(t, l.mask, m)
    \/ t = "DLINE" /\ \E e \in ExemptMask : Same(t, e, m)

\* write_conf_line.
WriteConfLine(t, m, fails) ==
    IF fails
    THEN adrift' = adrift \cup {<<t, m>>} /\ UNCHANGED file
    ELSE file' = [file EXCEPT ![t] = Append(@, m)] /\ UNCHANGED adrift

\* Mutant: an X-line does not mark the clients to be looked at.
MarksKlinesOnly(t) == rehashed_klines' = (rehashed_klines \/ t \in {"KLINE", "DLINE"})

\* A new line may cover clients; a RESV covers none.
MarksRehashed(t) == rehashed_klines' = (rehashed_klines \/ t \notin ResvType)

\* A permanent ban: in memory, then in its file.
Place(t, m, fails) ==
    /\ t # "GLINE" /\ ~AlreadyPlaced(t, m)
    /\ Costs(Trouble(fails))
    /\ lines' = lines \cup {Ban(t, m, 0, FALSE)}
    /\ asked' = asked \cup {Ban(t, m, 0, FALSE)}
    /\ WriteConfLine(t, m, fails)
    /\ MarksRehashed(t)
    /\ UNCHANGED <<user, time, theme>>

\* add_temp_line.
PlaceTemporary(t, m, h) ==
    /\ ~AlreadyPlaced(t, m)
    /\ Costs(0)
    /\ lines' = lines \cup {Ban(t, m, time + h, FALSE)}
    /\ asked' = asked \cup {Ban(t, m, time + h, FALSE)}
    /\ MarksRehashed(t)
    /\ UNCHANGED <<disk, user, time, theme>>

TemporaryOf(t, m) == {l \in lines : l.type = t /\ l.mask = m /\ l.hold > 0}

\* remove_tkline_match, remove_tdline_match, remove_txline_match, ...
RemoveTemporary(t, m) ==
    /\ t \notin ResvType
    /\ Costs(0)
    /\ \E l \in TemporaryOf(t, m) :
          lines' = lines \ {l} /\ asked' = asked \ {l}
    /\ UNCHANGED <<disk, rehashed_klines, user, time, theme>>

\* The new file has every line of the old one but those of m.
Without(masks, m) ==
    LET copied[i \in 0..Len(masks)] ==
          IF i = 0 THEN <<>>
          ELSE IF masks[i] = m THEN copied[i - 1]
          ELSE Append(copied[i - 1], masks[i])
    IN copied[Len(masks)]

\* remove_conf_line from memory L: the file is read and a new one written
\* (`opened`), renamed over it (`renamed`), and everything is read again.
RemoveConfLine(L, t, m, f) ==
    IF f.opened /\ m \in ToSet(file[t])
    THEN /\ ReadConfFiles(L, IF f.renamed THEN [file EXCEPT ![t] = Without(@, m)] ELSE file,
                          f.readable, f.bad)
         /\ rehashed_klines' = TRUE
    ELSE /\ lines' = L
         /\ adrift' = IF L # lines THEN adrift \cup Disagreed(file, L) ELSE adrift
         /\ UNCHANGED <<file, rehashed_klines>>

Fortunes ==
    [opened : BOOLEAN, renamed : BOOLEAN, readable : BOOLEAN, bad : BadFiles]
Troubles(f) ==
    Trouble(~f.opened) + Trouble(~f.renamed) + Trouble(~f.readable) + Trouble(f.bad # {})

\* A permanent ban is looked for once there is no temporary one.
RemovePermanent(t, m, f) ==
    /\ t \notin ResvType \cup {"GLINE"} /\ TemporaryOf(t, m) = {}
    /\ Costs(Troubles(f))
    /\ asked' = IF f.opened /\ m \in ToSet(file[t]) THEN asked \ {Permanent(t, m)} ELSE asked
    /\ RemoveConfLine(lines, t, m, f)
    /\ UNCHANGED <<user, time, theme>>

\* UNRESV: out of memory first, whatever the file is like; not one of ircd.conf.
RemoveResv(t, m, f) ==
    /\ t \in ResvType
    /\ Costs(Troubles(f))
    /\ \E l \in lines :
         /\ l.type = t /\ l.mask = m /\ ~l.conf
         /\ asked' = {a \in asked : a.type # t \/ a.mask # m}
         /\ RemoveConfLine(lines \ {l}, t, m, f)
    /\ UNCHANGED <<user, time, theme>>

Added(t, m) ==
    /\ <<t, m>> \in theme
    /\ \/ \E fails \in BOOLEAN : Place(t, m, fails)
       \/ \E h \in Hold : PlaceTemporary(t, m, h)

Lifted(t, m) ==
    /\ <<t, m>> \in theme
    /\ RemoveTemporary(t, m) \/ \E f \in Fortunes : RemovePermanent(t, m, f)

-----------------------------------------------------------------------------
(* The commands. *)

Kline(m) == Added("KLINE", m)
Unkline(m) == Lifted("KLINE", m)
Dline(m) == Added("DLINE", m)
Undline(m) == Lifted("DLINE", m)
Xline(m) == Added("XLINE", m)
Unxline(m) == Lifted("XLINE", m)
Rkline(m) == Added("RKLINE", m)
Unrkline(m) == Lifted("RKLINE", m)
Rxline(m) == Added("RXLINE", m)
Unrxline(m) == Lifted("RXLINE", m)
Gline(m) == Added("GLINE", m)
Ungline(m) == Lifted("GLINE", m)
Resv(m) == \E t \in ResvType : Added(t, m)
Unresv(m) ==
    \E t \in ResvType, f \in Fortunes : <<t, m>> \in theme /\ RemoveResv(t, m, f)

\* REHASH and SIGHUP.
DoRehash(readable, bad) ==
    /\ Costs(Trouble(~readable) + Trouble(bad # {}))
    /\ asked' = asked
    /\ ReadConfFiles(lines, file, readable, bad)
    /\ rehashed_klines' = TRUE
    /\ UNCHANGED <<user, time, theme>>

\* The process ends and another starts: read_conf_files(1).
Restart(bad) ==
    /\ Costs(Trouble(bad # {}))
    /\ asked' = {a \in asked : a.hold = 0}
    /\ ReadConfFiles({}, file, TRUE, bad)
    /\ rehashed_klines' = FALSE
    /\ user' = [user EXCEPT !.place = "out"]
    /\ UNCHANGED <<time, theme>>

-----------------------------------------------------------------------------
(* The event loop. *)

\* cleanup_tklines.
CleanupTklines ==
    /\ lines' = {l \in lines : l.hold = 0 \/ l.hold > time}
    /\ UNCHANGED <<disk, rehashed_klines, user, time, theme, asked, left>>

\* io_loop, check_conf_klines: also who has not registered, for D-lines alone.
CheckConfKlines ==
    /\ rehashed_klines
    /\ rehashed_klines' = FALSE
    /\ user' = IF \/ user.place = "on" /\ Banned
                  \/ user.place = "unknown" /\ Dlined
               THEN [user EXCEPT !.place = "out"] ELSE user
    /\ UNCHANGED <<lines, disk, time, theme, asked, left>>

\* conf_connect_allowed.
Connect ==
    /\ user.place = "out" /\ ~Dlined
    /\ user' = [user EXCEPT !.place = "unknown"]
    /\ UNCHANGED <<lines, disk, rehashed_klines, time, theme, asked, left>>

VerifyAccess ==
    /\ user.place = "unknown"
    /\ user' = [user EXCEPT !.place = IF Refused THEN "refused" ELSE "on"]
    /\ UNCHANGED <<lines, disk, rehashed_klines, time, theme, asked, left>>

Leave ==
    /\ user.place # "out"
    /\ user' = [user EXCEPT !.place = "out"]
    /\ UNCHANGED <<lines, disk, rehashed_klines, time, theme, asked, left>>

Tick ==
    /\ time < MaxTime
    /\ time' = time + 1
    /\ UNCHANGED <<lines, disk, rehashed_klines, user, theme, asked, left>>

LineInit ==
    /\ lines = {Ban(c[1], c[2], 0, TRUE) : c \in ConfResv}
    /\ file = [t \in FileType |-> <<>>]
    /\ rehashed_klines = FALSE
    /\ \E p \in Profile :
         user = [who |-> p.who, kline_exempt |-> p.kline_exempt,
                 gline_exempt |-> p.gline_exempt, place |-> "out"]
    /\ time = 0
    /\ theme \in Themes
    /\ asked = {} /\ adrift = {}
    /\ left = [commands |-> MaxCommands, trouble |-> MaxTrouble]

LineNext ==
    \/ \E m \in Mask :
         \/ Kline(m) \/ Dline(m) \/ Xline(m) \/ Rkline(m) \/ Rxline(m) \/ Gline(m)
         \/ Unkline(m) \/ Undline(m) \/ Unxline(m) \/ Unrkline(m) \/ Unrxline(m)
         \/ Ungline(m) \/ Resv(m) \/ Unresv(m)
    \/ \E readable \in BOOLEAN, bad \in BadFiles : DoRehash(readable, bad)
    \/ \E bad \in BadFiles : Restart(bad)
    \/ CleanupTklines \/ CheckConfKlines \/ Connect \/ VerifyAccess \/ Leave \/ Tick

LineSpec == LineInit /\ [][LineNext]_lineVars

-----------------------------------------------------------------------------
\* What was asked for is done, through REHASHes and the commands that rewrite a
\* file: a permanent ban is in memory and in its file if no file failed it, and
\* a temporary K, D, X, RX, RK or G-line is in memory until its time.
AskedInForce ==
    \A a \in asked :
      IF a.hold = 0
      THEN <<a.type, a.mask>> \notin adrift =>
             /\ a.mask \in ToSet(file[a.type])
                 /\ a \notin lines => a.type \in ResvType /\ AlreadyPlaced(a.type, a.mask)
      ELSE a.hold > time /\ a.type \notin ResvType => a \in lines

\* A ban that was taken back does not come back with a file: what is in memory
\* is asked for, or in ircd.conf, unless a file failed.
WithdrawnGone ==
    \A l \in lines : l.conf \/ l \in asked \/ <<l.type, l.mask>> \in adrift

\* Whatever fails, restarts or expires in between, memory and the files are what
\* was asked for, and nothing else.
BansAsAsked == AskedInForce /\ WithdrawnGone

\* Once the clients have been looked at, none is left that a ban covers, in
\* whatever order bans, registrations and REHASHes came, if it is exempt from
\* none; and no exemption but exempt{} leaves one under a D-line.
NobodyCovered ==
    user.place = "on" /\ ~rehashed_klines =>
      /\ Hit({"DLINE"}) => Exempted
      /\ ~Exempted /\ ~user.kline_exempt /\ ~user.gline_exempt => ~Hit(LineType \ ResvType)

\* doc/resv.txt: temporary resv's "will stay through a rehash".
TemporaryResvStays ==
    \A a \in asked : a.hold > time /\ a.type \in ResvType => a \in lines

\* etc/example.conf: kline_exempt, "exempt this user from k/glines".
KlineExemptRegisters ==
    [][user.place = "unknown" /\ user'.place = "refused" /\ user.kline_exempt =>
         Hit({"XLINE", "RXLINE"})]_lineVars
=============================================================================
