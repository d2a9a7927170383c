------------------------------ MODULE BanCache ------------------------------
(***************************************************************************)
(* quiet_on_ban: can_send remembers in a local member's flags whether the  *)
(* channel's bans match it (CHFL_BAN_CHECKED, CHFL_BAN_SILENCED), and      *)
(* whoever changes a list or a name must forget it: add_id, del_id, SJOIN, *)
(* change_local_nick and SVSNICK.  A mask matches a nick or a host.        *)
(***************************************************************************)
CONSTANTS
    Channel,
    Member,     \* local users
    NickName,   \* their nicks
    HostName,   \* their hosts
    BanMask,    \* the nicks and hosts that bans name
    ExceptMask, \* and those exceptions name
    NONE        \* not on the channel

VARIABLES
    banlist, exceptlist,    \* of a channel
    flags,          \* of a user on a channel
    nick, host,     \* of a user
    quiet_on_ban, use_except,
    aged            \* history: caches older than a host or use_except

banVars == <<banlist, exceptlist, flags, nick, host, quiet_on_ban, use_except, aged>>
lists == <<banlist, exceptlist>>
settings == <<quiet_on_ban, use_except>>

Membership == [voiced : BOOLEAN, checked : BOOLEAN, silenced : BOOLEAN]

ASSUME BanAssumption ==
    /\ BanMask \cup ExceptMask \subseteq NickName \cup HostName
    /\ NONE \notin Membership

BanTypeOK ==
    /\ banlist \in [Channel -> SUBSET BanMask]
    /\ exceptlist \in [Channel -> SUBSET ExceptMask]
    /\ flags \in [Channel -> [Member -> Membership \cup {NONE}]]
    /\ nick \in [Member -> NickName] /\ host \in [Member -> HostName]
    /\ {quiet_on_ban, use_except} \subseteq BOOLEAN
    /\ aged \subseteq Channel \X Member

OnChannel(u) == {ch \in Channel : flags[ch][u] # NONE}

\* is_banned.
IsBanned(ch, u) ==
    /\ banlist[ch] \cap {nick[u], host[u]} # {}
    /\ use_except => exceptlist[ch] \cap {nick[u], host[u]} = {}

Forgotten(ms) ==
    IF ms = NONE THEN NONE ELSE [ms EXCEPT !.checked = FALSE, !.silenced = FALSE]

\* clear_ban_cache and clear_ban_cache_client.
ClearBanCache(ch) ==
    /\ flags' = [flags EXCEPT ![ch] = [u \in Member |-> Forgotten(flags[ch][u])]]
    /\ aged' = aged \ ({ch} \X Member)

\* Mutant: the nick is new, what was remembered is not.
ClearBanCacheClientNot(f, u) == flags' = f /\ aged' = aged

ClearBanCacheClient(f, u) ==
    /\ flags' = [ch \in Channel |-> [f[ch] EXCEPT ![u] = Forgotten(@)]]
    /\ aged' = aged \ (Channel \X {u})

\* can_send's flags afterwards, and what it says of a ban.
AfterCanSend(ch, u) ==
    LET ms == flags[ch][u] IN
    IF ms = NONE \/ ms.voiced \/ ~quiet_on_ban \/ ms.checked THEN ms
    ELSE [ms EXCEPT !.checked = TRUE, !.silenced = IsBanned(ch, u)]

MaySend(ch, u) ==
    quiet_on_ban => AfterCanSend(ch, u).voiced \/ ~AfterCanSend(ch, u).silenced

-----------------------------------------------------------------------------

\* m_join, and the membership's end.
Join(ch, u) ==
    /\ flags[ch][u] = NONE
    /\ ~IsBanned(ch, u)
    /\ flags' = [flags EXCEPT ![ch][u] =
                   [voiced |-> FALSE, checked |-> FALSE, silenced |-> FALSE]]
    /\ aged' = aged \ {<<ch, u>>}
    /\ UNCHANGED <<lists, nick, host, settings>>

Part(ch, u) ==
    /\ flags[ch][u] # NONE
    /\ flags' = [flags EXCEPT ![ch][u] = NONE]
    /\ UNCHANGED <<lists, nick, host, settings, aged>>

Voice(ch, u) ==
    /\ flags[ch][u] # NONE
    /\ flags' = [flags EXCEPT ![ch][u].voiced = ~@]
    /\ UNCHANGED <<lists, nick, host, settings, aged>>

\* msg_channel: can_send.
Speak(ch, u) ==
    /\ flags[ch][u] # NONE
    /\ flags' = [flags EXCEPT ![ch][u] = AfterCanSend(ch, u)]
    /\ UNCHANGED <<lists, nick, host, settings, aged>>

\* add_id and del_id, by whoever; they forget before they look for the mask.
SetBan(ch, mask) ==
    /\ \E on \in {banlist[ch] \cup {mask}, banlist[ch] \ {mask}} :
         banlist' = [banlist EXCEPT ![ch] = on]
    /\ ClearBanCache(ch)
    /\ UNCHANGED <<exceptlist, nick, host, settings>>

SetExcept(ch, mask) ==
    /\ \E on \in {exceptlist[ch] \cup {mask}, exceptlist[ch] \ {mask}} :
         exceptlist' = [exceptlist EXCEPT ![ch] = on]
    /\ ClearBanCache(ch)
    /\ UNCHANGED <<banlist, nick, host, settings>>

\* ms_sjoin with an older TS from a TS6 server: the lists go.
WipeLists(ch) ==
    /\ banlist' = [banlist EXCEPT ![ch] = {}]
    /\ exceptlist' = [exceptlist EXCEPT ![ch] = {}]
    /\ ClearBanCache(ch)
    /\ UNCHANGED <<nick, host, settings>>

\* change_local_nick asks can_send on one channel after the other, which checks
\* those it comes to, and stops at the first that is silenced.
ChangeLocalNick(u, new) ==
    LET asked(S) ==
          [ch \in Channel |-> [flags[ch] EXCEPT ![u] =
             IF ch \in S THEN AfterCanSend(ch, u) ELSE @]]
        mute == {ch \in OnChannel(u) : ~MaySend(ch, u)}
    IN
    /\ new # nick[u]
    /\ \/ /\ mute = {}
          /\ nick' = [nick EXCEPT ![u] = new]
          /\ ClearBanCacheClient(flags, u)
       \/ /\ \E ch \in mute : \E S \in SUBSET (OnChannel(u) \ mute) :
               flags' = asked(S \cup {ch})
          /\ UNCHANGED <<nick, aged>>
    /\ UNCHANGED <<lists, host, settings>>

\* An operator's nick change and SVSNICK do not ask.
ForceNick(u, new) ==
    /\ new # nick[u]
    /\ nick' = [nick EXCEPT ![u] = new]
    /\ ClearBanCacheClient(flags, u)
    /\ UNCHANGED <<lists, host, settings>>

\* CHGHOST, and the +x and -x of a cloak: nothing is forgotten.
ChangeHost(u, new) ==
    /\ new # host[u]
    /\ host' = [host EXCEPT ![u] = new]
    /\ aged' = aged \cup (OnChannel(u) \X {u})
    /\ UNCHANGED <<lists, flags, nick, settings>>

\* REHASH: neither is anything then.
RehashChannel ==
    \/ /\ quiet_on_ban' = ~quiet_on_ban
       /\ UNCHANGED <<lists, flags, nick, host, use_except, aged>>
    \/ /\ use_except' = ~use_except
       /\ aged' = aged \cup {p \in Channel \X Member : flags[p[1]][p[2]] # NONE}
       /\ UNCHANGED <<lists, flags, nick, host, quiet_on_ban>>

BanInit ==
    /\ banlist = [ch \in Channel |-> {}] /\ exceptlist = [ch \in Channel |-> {}]
    /\ flags = [ch \in Channel |-> [u \in Member |-> NONE]]
    /\ nick \in [Member -> NickName] /\ host \in [Member -> HostName]
    /\ quiet_on_ban = TRUE /\ use_except = TRUE
    /\ aged = {}

BanNext ==
    \/ \E ch \in Channel, u \in Member :
         Join(ch, u) \/ Part(ch, u) \/ Voice(ch, u) \/ Speak(ch, u)
    \/ \E ch \in Channel, mask \in BanMask : SetBan(ch, mask)
    \/ \E ch \in Channel, mask \in ExceptMask : SetExcept(ch, mask)
    \/ \E ch \in Channel : WipeLists(ch)
    \/ \E u \in Member, new \in NickName : ChangeLocalNick(u, new) \/ ForceNick(u, new)
    \/ \E u \in Member, new \in HostName : ChangeHost(u, new)
    \/ RehashChannel

BanSpec == BanInit /\ [][BanNext]_banVars

-----------------------------------------------------------------------------

\* What is remembered of a member is what its bans and exceptions say now,
\* unless its host or use_except changed meanwhile (can_send, clear_ban_cache,
\* clear_ban_cache_client).
CacheFresh ==
    \A ch \in Channel : \A u \in Member :
      flags[ch][u] # NONE /\ <<ch, u>> \notin aged =>
        /\ flags[ch][u].checked => flags[ch][u].silenced = IsBanned(ch, u)
        /\ flags[ch][u].silenced => flags[ch][u].checked
=============================================================================
