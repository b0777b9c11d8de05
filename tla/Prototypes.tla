----------------------------- MODULE Prototypes -----------------------------
(* The table of helper functions (spec_prototypes.cpp): for each function    *)
(* the kinds of its arguments, what it returns and whether it may be given   *)
(* the packet.  Names are those of the source without bpf_ and _proto.       *)
EXTENDS Integers, Sequences

Ctx   == "PTR_TO_CTX"
Map   == "CONST_MAP_PTR"
Key   == "PTR_TO_MAP_KEY"
Val   == "PTR_TO_MAP_VALUE"
Mem   == "PTR_TO_MEM"
MemOrNull == "PTR_TO_MEM_OR_NULL"
Uninit    == "PTR_TO_UNINIT_MEM"
Size  == "CONST_SIZE"
Size0 == "CONST_SIZE_OR_ZERO"
Arg   == "ANYTHING"

Proto(args) == [args |-> args, ret |-> "INTEGER", pkt_access |-> FALSE]
PktProto(args) == [Proto(args) EXCEPT !.pkt_access = TRUE]

Unspec == Proto(<< >>)

Tracing == [
    tail_call        |-> [Proto(<<Ctx, Map, Arg>>) EXCEPT !.ret = "VOID"],
    override_return  |-> Proto(<<Ctx, Arg>>),
    probe_read       |-> Proto(<<Uninit, Size0, Arg>>),
    probe_read_str   |-> Proto(<<Uninit, Size0, Arg>>),
    probe_write_user |-> Proto(<<Arg, Mem, Size>>),
    trace_printk     |-> Proto(<<Mem, Size>>),
    perf_event_read  |-> Proto(<<Map, Arg>>)]

PerfEvents == [
    perf_event_read_value     |-> Proto(<<Map, Arg, Uninit, Size>>),
    perf_event_output         |-> Proto(<<Ctx, Map, Arg, Mem, Size0>>),
    get_current_task          |-> Proto(<< >>),
    current_task_under_cgroup |-> Proto(<<Map, Arg>>)]

PerfPrograms == [perf_prog_read_value |-> Proto(<<Ctx, Uninit, Size>>)]

MapAccess == [
    map_lookup_elem |-> [PktProto(<<Map, Key>>) EXCEPT !.ret = "PTR_TO_MAP_VALUE_OR_NULL"],
    map_update_elem |-> PktProto(<<Map, Key, Val, Arg>>),
    map_delete_elem |-> PktProto(<<Map, Key>>)]

Environment == [
    get_prandom_u32       |-> Proto(<< >>),
    get_smp_processor_id  |-> Proto(<< >>),
    get_numa_node_id      |-> Proto(<< >>),
    ktime_get_ns          |-> Proto(<< >>),
    get_current_pid_tgid  |-> Proto(<< >>),
    get_current_uid_gid   |-> Proto(<< >>),
    get_current_comm      |-> Proto(<<Uninit, Size>>),
    get_current_cgroup_id |-> Proto(<< >>)]

SockMaps == [
    sock_map_update  |-> PktProto(<<Ctx, Map, Key, Arg>>),
    sock_hash_update |-> PktProto(<<Ctx, Map, Key, Arg>>),
    get_stackid      |-> Proto(<<Ctx, Map, Arg>>),
    get_stack        |-> Proto(<<Ctx, Uninit, Size0, Arg>>)]

SkbBytes == [
    skb_store_bytes         |-> Proto(<<Ctx, Arg, Mem, Size, Arg>>),
    skb_load_bytes          |-> Proto(<<Ctx, Arg, Uninit, Size>>),
    skb_load_bytes_relative |-> Proto(<<Ctx, Arg, Uninit, Size, Arg>>),
    skb_pull_data           |-> Proto(<<Ctx, Arg>>)]

Checksums == [
    l3_csum_replace |-> Proto(<<Ctx, Arg, Arg, Arg, Arg>>),
    l4_csum_replace |-> Proto(<<Ctx, Arg, Arg, Arg, Arg>>),
    csum_diff       |-> PktProto(<<MemOrNull, Size0, MemOrNull, Size0, Arg>>),
    csum_update     |-> Proto(<<Ctx, Arg>>)]

Redirects == [
    clone_redirect    |-> Proto(<<Ctx, Arg, Arg>>),
    redirect          |-> Proto(<<Arg, Arg>>),
    sk_redirect_hash  |-> Proto(<<Ctx, Map, Key, Arg>>),
    sk_redirect_map   |-> Proto(<<Ctx, Map, Arg, Arg>>),
    msg_redirect_hash |-> Proto(<<Ctx, Map, Key, Arg>>),
    msg_redirect_map  |-> Proto(<<Ctx, Map, Arg, Arg>>),
    msg_apply_bytes   |-> Proto(<<Ctx, Arg>>),
    msg_cork_bytes    |-> Proto(<<Ctx, Arg>>),
    msg_pull_data     |-> Proto(<<Ctx, Arg, Arg, Arg>>)]

SkbFields == [
    get_cgroup_classid |-> Proto(<<Ctx>>),
    get_route_realm    |-> Proto(<<Ctx>>),
    get_hash_recalc    |-> Proto(<<Ctx>>),
    set_hash_invalid   |-> Proto(<<Ctx>>),
    set_hash           |-> Proto(<<Ctx, Arg>>),
    skb_vlan_push      |-> Proto(<<Ctx, Arg, Arg>>),
    skb_vlan_pop       |-> Proto(<<Ctx>>),
    skb_change_proto   |-> Proto(<<Ctx, Arg, Arg>>)]

SkbShape == [
    skb_change_type |-> Proto(<<Ctx, Arg>>),
    skb_adjust_room |-> Proto(<<Ctx, Arg, Arg, Arg>>),
    skb_change_tail |-> Proto(<<Ctx, Arg, Arg>>),
    skb_change_head |-> Proto(<<Ctx, Arg, Arg>>)]

Xdp == [
    xdp_adjust_head |-> Proto(<<Ctx, Arg>>),
    xdp_adjust_tail |-> Proto(<<Ctx, Arg>>),
    xdp_adjust_meta |-> Proto(<<Ctx, Arg>>)]

Tunnels == [
    skb_get_tunnel_key |-> Proto(<<Ctx, Uninit, Size, Arg>>),
    skb_get_tunnel_opt |-> Proto(<<Ctx, Uninit, Size>>),
    skb_set_tunnel_key |-> Proto(<<Ctx, Mem, Size, Arg>>),
    skb_set_tunnel_opt |-> Proto(<<Ctx, Mem, Size>>),
    skb_under_cgroup   |-> Proto(<<Ctx, Map, Arg>>),
    skb_cgroup_id      |-> Proto(<<Ctx>>)]

Sockets == [
    get_socket_cookie     |-> Proto(<<Ctx>>),
    get_socket_uid        |-> Proto(<<Ctx>>),
    setsockopt            |-> Proto(<<Ctx, Arg, Arg, Mem, Size>>),
    getsockopt            |-> Proto(<<Ctx, Arg, Arg, Uninit, Size>>),
    sock_ops_cb_flags_set |-> Proto(<<Ctx, Arg>>),
    bind                  |-> Proto(<<Ctx, Mem, Size>>),
    skb_get_xfrm_state    |-> Proto(<<Ctx, Arg, Uninit, Size, Arg>>)]

Tails == [
    xdp_fib_lookup       |-> Proto(<<Ctx, Mem, Size, Arg>>),
    lwt_push_encap       |-> Proto(<<Ctx, Arg, Mem, Size>>),
    lwt_seg6_store_bytes |-> Proto(<<Ctx, Arg, Mem, Size>>),
    lwt_seg6_action      |-> Proto(<<Ctx, Arg, Mem, Size>>),
    lwt_seg6_adjust_srh  |-> Proto(<<Ctx, Arg, Arg>>),
    rc_repeat            |-> Proto(<<Ctx>>),
    rc_keydown           |-> Proto(<<Ctx, Arg, Arg, Arg>>)]

HomeBrewed == [redirect_map |-> Proto(<<Map, Arg, Arg>>)]

Defined ==
    LET tables == {Tracing, PerfEvents, PerfPrograms, MapAccess, Environment,
                   SockMaps, SkbBytes, Checksums, Redirects, SkbFields,
                   SkbShape, Xdp, Tunnels, Sockets, Tails, HomeBrewed}
    IN  [name \in UNION {DOMAIN T : T \in tables} |->
            (CHOOSE T \in tables : name \in DOMAIN T)[name]]

\* By function number, from 1; number 0 is unspec.
prototypes == <<
    "map_lookup_elem", "map_update_elem", "map_delete_elem", "probe_read",
    "ktime_get_ns", "trace_printk", "get_prandom_u32", "get_smp_processor_id",
    "skb_store_bytes", "l3_csum_replace", "l4_csum_replace", "tail_call",
    "clone_redirect", "get_current_pid_tgid", "get_current_uid_gid",
    "get_current_comm", "get_cgroup_classid", "skb_vlan_push", "skb_vlan_pop",
    "skb_get_tunnel_key", "skb_set_tunnel_key", "perf_event_read", "redirect",
    "get_route_realm", "perf_event_output", "skb_load_bytes", "get_stackid",
    "csum_diff", "skb_get_tunnel_opt", "skb_set_tunnel_opt", "skb_change_proto",
    "skb_change_type", "skb_under_cgroup", "get_hash_recalc", "get_current_task",
    "probe_write_user", "current_task_under_cgroup", "skb_change_tail",
    "skb_pull_data", "csum_update", "set_hash_invalid", "get_numa_node_id",
    "skb_change_head", "xdp_adjust_head", "probe_read_str", "get_socket_cookie",
    "get_socket_uid", "set_hash", "setsockopt", "skb_adjust_room", "redirect_map",
    "sk_redirect_map", "sock_map_update", "xdp_adjust_meta",
    "perf_event_read_value", "perf_prog_read_value", "getsockopt",
    "override_return", "sock_ops_cb_flags_set", "msg_redirect_map",
    "msg_apply_bytes", "msg_cork_bytes", "msg_pull_data", "bind",
    "xdp_adjust_tail", "skb_get_xfrm_state", "get_stack",
    "skb_load_bytes_relative", "xdp_fib_lookup", "sock_hash_update",
    "msg_redirect_hash", "sk_redirect_hash", "lwt_push_encap",
    "lwt_seg6_store_bytes", "lwt_seg6_adjust_srh", "lwt_seg6_action",
    "rc_repeat", "rc_keydown", "skb_cgroup_id", "get_current_cgroup_id" >>

\* The number is unsigned in the source, so a negative one is out of range.
is_valid_prototype(n) == n \in DOMAIN prototypes

get_prototype(n) == IF is_valid_prototype(n) THEN Defined[prototypes[n]] ELSE Unspec

=============================================================================
