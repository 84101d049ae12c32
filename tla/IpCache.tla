------------------------------ MODULE IpCache -------------------------------
(***************************************************************************)
(* The ip cache of nfq2 (pools.c, and its use in desync.c): what hostname  *)
(* an address had last, and the TTL of the packets that came from it by an *)
(* interface.  A cache is a function from <<address, interface>> to items; *)
(* hostnames are kept under the empty interface name.  IPv4 and IPv6       *)
(* addresses have a table each in the code, one function holds both here.  *)
(***************************************************************************)
EXTENDS Filters, Functions, TLC

NoIface == ""

\* ipcache4Key, ipcache6Key
Key(a, iface) == <<a, iface>>

EmptyCache == [k \in {} |-> 0]

ipcache_item_init(t) == [last |-> t, host |-> NoHost, is_ip |-> FALSE, ttl |-> 0]

\* ipcacheFind, with a blank item for NULL
ipcacheFind(c, a, iface) ==
    IF Key(a, iface) \in DOMAIN c THEN c[Key(a, iface)] ELSE ipcache_item_init(0)

\* ipcacheTouch: adds the item if there is none, sets its time
ipcacheTouch(c, a, iface, t) ==
    [k \in DOMAIN c \cup {Key(a, iface)} |->
       IF k = Key(a, iface) THEN [ipcacheFind(c, a, iface) EXCEPT !.last = t] ELSE c[k]]

\* mutant: an item of the age of lifetime stays
ipcache_purge_late(c, lifetime, t) ==
    IF lifetime = 0 THEN c ELSE Restrict(c, {k \in DOMAIN c : t <= c[k].last + lifetime})

\* ipcache_purge; lifetime 0 is no expiry
ipcache_purge(c, lifetime, t) ==
    IF lifetime = 0 THEN c ELSE Restrict(c, {k \in DOMAIN c : t < c[k].last + lifetime})

\* ipcache_put_hostname: a name that is there already keeps its is_ip
ipcache_put_hostname(c, enabled, a, host, is_ip, t) ==
    IF ~enabled THEN c
    ELSE LET touched == ipcacheTouch(c, a, NoIface, t)
             k == Key(a, NoIface)
         IN  IF touched[k].host = host THEN touched
             ELSE [touched EXCEPT ![k].host = host, ![k].is_ip = is_ip]

\* ipcache_get_hostname
ipcache_get_hostname(c, enabled, a) ==
    IF enabled THEN ipcacheFind(c, a, NoIface) ELSE ipcache_item_init(0)

\* ipcache_update_ttl for a flow with a TTL: incoming packets in client mode
ipcache_update_ttl(c, a, iface, ttl, t) ==
    LET touched == ipcacheTouch(c, a, iface, t)
    IN  [touched EXCEPT ![Key(a, iface)].ttl = ttl]

\* ipcache_get_ttl
ipcache_get_ttl(c, a, iface, ttl) ==
    IF ttl # 0 THEN ttl ELSE ipcacheFind(c, a, iface).ttl
=============================================================================
