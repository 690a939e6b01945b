# Formal models of the CPSW Ethernet drivers

The repository holds kernel modules written while moving a driver from C to Rust. Its substance is the driver of the TI CPSW
Ethernet switch of the BeagleBone, twice: `src/modules/cpsw/` is the complete C driver, `src/modules/eth/` a Rust platform
driver (`reth.rs`) over a trimmed copy of the C code (`support.c`, `cpdma.c`, `ale.c`, `sl.c`; the last three are the files
of `cpsw/` unchanged). The rest are small examples. This directory models the driver in TLA+, checks the models with TLC and
proves theorems about them with TLAPS.

## 1. Inventory

| Component | Code | State | Operations | What makes it correct |
|---|---|---|---|---|
| CPDMA channel | `my_davinci_cpdma.c` 875-1371 | linked list of descriptors (`head`, `tail`, `count`), `state`; the hardware's HDP and CP | submit, idle_submit, process, start, stop | no descriptor lost, leaked or freed twice; the list is what was submitted; a stalled channel is restarted; stop ends |
| CPDMA controller | same, 375-860, 1424-1443 | descriptor pool, `num_rx_desc`, weights, rates, `state` | create/destroy channel, set_weight, set_rate, set_num_rx_descs, start, stop | shares of the pool add up; the rate registers agree with the rates |
| Traffic | `support.c` 474-591, 1046-1137; `eth.c` 284-397, 912-972; `my_cpsw_priv.c` 52-85, 289-306 | stopped queues, pages on the receive ring | start_xmit, tx/rx handler, tx_timeout | no lost wake-up; the receive ring keeps its size |
| Interface life cycle | `eth.c` 786-910, 2054-2101; `support.c` 348-472; `my_cpsw_ethtool.c` 461-717; `my_cpsw_priv.c` 1101-1261 | `usage_count`, `rx_ch_num`, page pools, NAPI | open, stop, suspend, resume, set_channels, set_ringparam | shared resources live exactly as long as somebody uses them, whatever fails |
| NAPI and interrupts | `my_cpsw_priv.c` 35-227; `support.c` 535-559, 1462-1530 | enable registers, budgets, the disabled interrupt line | interrupt, poll | no interrupt left masked with work pending; no interrupt of a stopped engine |
| Resource split | `my_cpsw_priv.c` 325-429, 740-779 | budgets, weights | split_res, set_tx_maxrate | every channel gets a budget, weights fit in 100 |
| Shapers and policers | `my_cpsw_priv.c` 781-1099, 1385-1582 | `fifo_bw`, `shp_cfg_speed`, `mqprio_hw`, rate limits, and their registers | setup_tc, CBS, mqprio, clsflower, restore | the link is not shared out; restored as configured |
| ALE | `my_cpsw_ale.c` | table of entries, bit map of untagged VLANs, control registers | add/delete unicast, multicast, VLAN; flush; control_set; ageing | one entry for a key; a call touches no other entry; nothing but a learned address is evicted |
| VLAN, multicast, MAC | `eth.c` 78-272, 398-500, 973-1058 | ALE entries per interface | add/kill vid, set_rx_mode, set_mac_address | every interface has what it was given, and nothing is left behind |
| Switchdev, devlink | `my_cpsw_switchdev.c`, `eth.c` 1464-1780 | `br_members`, `hw_bridge_dev`, `dual_emac`, marks, FDB work | bridge join/leave, mode change, bypass, VLAN, group and FDB objects | a bridge only in switch mode; the table as last told; frames marked as forwarded when the hardware did |
| Link, MAC sliver | `eth.c` 647-785, `my_cpsw_sl.c` | `slave->phy`, `mac_control` | adjust_link | queues run only with a link |
| Probe and remove | `eth.c` 1840-2052, `reth.rs` 130-240 | what has been acquired | probe, remove | a failed probe releases what it acquired |

How they interact. The stack calls the ndo and ethtool operations, under RTNL but for `start_xmit` and `tx_timeout`. An
interrupt schedules a NAPI poll, which runs `cpdma_chan_process`, which calls the handler of the channel without its lock:
`cpsw_tx_handler` wakes a transmit queue, `cpsw_rx_handler` passes the packet on and submits another page. All interfaces
share the channels and the descriptor pool. The hardware walks the lists of descriptors in memory and stops at a null
pointer; the driver restarts it through HDP. The PHY state machine calls `cpsw_adjust_link`, a timer and work queues change
the ALE, without RTNL.

Hard are: the race between the hardware that stops and the driver that appends; the lock that is dropped around every
callback; a teardown that times out; a pool shared by channels with locks of their own; resources shared by interfaces that
come and go, with operations that fail half-way; work that is deferred past the state it was meant for; and one table that
everybody writes and nobody remembers, so that what was put there for one must survive what is done for another. `PROJECT.json`
lists them under "hazards", each at its line.

## 2. Modules

| Module | Models | Run by |
|---|---|---|
| `CpdmaFifo` | what a channel promises: a bounded FIFO between submit and completion, with teardown | `CpdmaChan_live` (as a property) |
| `CpdmaChan` | a channel as it is: descriptors in memory, hardware, submitters, poller, stopping thread | `MCCpdmaChan` |
| `CpdmaChanProofs` | theorems about `CpdmaChan`, the refinement among them | tlapm |
| `CpswTraffic` | the interfaces on shared channels and pool | `MCCpswTraffic` |
| `CpswTrafficProofs` | theorems about `CpswTraffic` and `CpswNapi` | tlapm |
| `CpswIfc` | the life cycle of the interfaces | `MCCpswIfc` |
| `CpswIfcProofs` | theorems about `CpswIfc` | tlapm |
| `CpswShares` | what the channels share: descriptors, poll budget, bandwidth | `MCCpswShares` |
| `CpswSharesProofs` | theorems about `CpswShares` | tlapm |
| `CpswNapi` | interrupt handlers, polls and the enable registers | `MCCpswNapi` |
| `CpswAle` | the table of the ALE: one operator for each call of `my_cpsw_ale.c` | the modules that extend it |
| `AleMap` | what the table promises: a map from keys to entries | `CpswTable_calls` (as a property) |
| `CpswTable` | the table under all calls in any order, with learning and ageing | `MCCpswTable` |
| `CpswTableProofs` | theorems about `CpswTable`, that it implements `AleMap` among them, and the lemmas on single calls | tlapm |
| `CpswModes` | the entries of a port in each of the two modes | the two modules below |
| `CpswAddr` | VLANs, groups, flags and addresses in dual-EMAC mode | `MCCpswAddr` |
| `CpswAddrProofs` | theorems about `CpswAddr` | tlapm |
| `CpswBridge` | bridge, switch mode and the work items | `MCCpswBridge` |
| `CpswBridgeProofs` | theorems about `CpswBridge`: members, marks and the table | tlapm |
| `CpswQos` | shapers, priorities and policers of a port | `MCCpswQos` |
| `CpswQosProofs` | theorems about `CpswQos` | tlapm |

The levels fit together by abstraction: `CpdmaChan` shows that a channel is a FIFO with a count; `CpswTraffic` uses
channels as such FIFOs and asks what the interfaces make of them; `CpswIfc` only keeps whether a channel is empty, part or
full, and asks who sets it up and takes it down; `CpswShares` asks how large the shares are on which the others build;
`CpswNapi` keeps only how many packets wait on a channel, and asks whether the poll comes. On the side of the switch
`CpswTable` asks what any caller of the ALE can rely on, and `CpswAddr` and `CpswBridge` compose the same operators
(of `CpswAle`, through `CpswModes`) into the handlers of the two modes.

### CpdmaChan

A channel's descriptors are members of a set. `mem` holds `hw_next` and the OWNER and EOQ bits of each, `hdp` and `hwPtr`
are the hardware's, `head`, `tail` and `count` are the driver's. `queue` is the list as an abstract sequence (the variable
the invariants speak of), `held` what a thread has taken off the list and not freed yet.

* Steps. A submitter is one step up to the moment it has linked the descriptor, and a second one for the EOQ test
  (`MisqueueCheck`), because the hardware, which takes no lock, runs in between; `lock` keeps other threads out. Taking
  the head off the list is a step, `Free` another one, as the lock is dropped in between. `cpdma_chan_stop` is split at
  the teardown request, at its answer or timeout, at each descriptor, and at its end.
* Hardware. It fetches `hw_next` of the descriptor it is at, finishes the descriptor, and either follows the pointer or
  sets EOQ and stops: fetching and finishing are two steps, which is the window for the misqueue.
* Bounds. `Descs` (three in the safety run, two in the liveness run) and the limit of the channel. Three descriptors
  are one being freed, one at EOQ and one appended behind it; the theorems hold for any number.

### CpswTraffic

Per interface, `cpsw_ndo_start_xmit` is four steps: submit, test for a free descriptor, stop the queue, test again.
A completion is three: off the list (which lowers the channel's count), back to the pool, wake the queue. The receive
handler likewise takes, frees and resubmits. `Smp` says whether these can interleave; on one processor they run with bottom
halves disabled, one after the other (`MayRun`). `HasTimeout` is TRUE for `cpsw/`, FALSE for `eth/support.c`.

### CpswIfc

`op` is the operation that holds RTNL, `todo` the interfaces its loop over `cpsw->slaves` has yet to visit. Opens and stops
are one step per interface; the ethtool operations are two, at the point where the engine has been stopped. `OpenFaults`,
`ResumeFaults` and `EthtoolFaults` say which calls can fail: runtime PM ("pm", for good), the number of queues ("queues"),
a page pool ("pool"), a page ("fill"), a channel ("create"), the split of the descriptors ("descs"). `napi_disable` on a context
that is not enabled is a step that is never enabled. Ring sizes are empty, part or full; the contents of the
transmit channel are the set of interfaces that have a packet on it.

### CpswShares

The channels are arrays over the queues (transmit queue q is channel 7 - q, so that the code's loops over channels visit the
queues backwards, which decides who gets the remainder of a split). What `ctlr->lock` protects is one step: `SplitPool` is part of
every action that changes weights, channels or rings. `cpsw_split_res` is a sequence of steps of a thread, RTNL or the PHY
state machine of a port: `Measure` is its first loop, `Share` and `Weigh` a round of the second, `Rest` its end; `split`
holds the locals. Rates are in Kb/s as in the code; `Granted` is what the search of `cpdma_chan_set_factors` finds for a rate
(never less than asked for). A division by zero, which two overlapping splits can reach, gives 0, as `__div0` of the ARM
kernel does. `disturbed` is a history variable: has anything interfered with the last split?

### CpswNapi

Receive and transmit do not touch each other, so that a behaviour is about one direction; `board` chooses one processor, several,
or the early AM33xx, where the interrupt line is disabled besides. The interrupt handler is three steps (mask, disable the line,
schedule), a poll one step to begin (it reads the status once), one per channel, one for `napi_complete` and one for the rest,
since an interrupt or another processor may come in between. The thread under RTNL is one step per call, each channel of
`cpdma_ctlr_stop` two. `napi_disable` waits until NAPI is not scheduled, and while it waits nobody can schedule it.
`Processed` is what `cpdma_chan_process` returns: packets, -EINVAL in a teardown, and, for a channel that has been freed,
what freed memory may show. The budgets (`share`) are any that add up to that of the poll (`Budgets`; `CpswShares` shows that those
of an undisturbed split do), 0 for single channels included, as the rates of the queues can ask for any; they change with the number of channels
(`Split`) and at any time besides, with a rate or with the speed of the link (`Resplit`).

### CpswAle and CpswTable

An entry is a record, a mask a set of ports. The engine is its table, the bit map `p0_untag_vid_mask` and the result of the last call;
an operator is a function from engines to engines, so that a handler that makes five calls is one expression. Every call
searches the table again (`Place`: the entry that matches, else a free one, else a learned one), as the driver keeps no index.
`Learn` and `AgeOut` are the hardware, as the driver relies on it. The two copies of the file are identical; the operators of
`CpswAle` are mapped to the one in `cpsw/`, the actions of `CpswTable` that make the calls to the one in `eth/`.
`AleMap` says that a call changes no key but those it names, and that only a learned address can be lost for it.

### CpswAddr

Two interfaces in dual-EMAC mode over one table. `vlans` is the VLAN filter of an interface, `devs` the VLANs in it that have a VLAN device: the
others are there for a bridge or a bond that knows VLANs. The driver is called when a VLAN comes to the filter and when it goes, but restores
only those with a device when an interface is opened (`vlan_for_each`, `eth.c` 479); `bare` are those that the last open passed over.
A VLAN device of VID 0 is left out (the network core puts VID 0 into every filter by itself). `users` are those who want a group on an interface: the interface (0) and the VLAN
devices above it; `told` is the number that the network core last gave the driver, which asks for their identity itself.
`odd` records, per interface, the things after which the code does not keep its promise: a full table that nobody is told
about, a VLAN in the filters of both interfaces, groups that change behind IFF_PROMISC, a new address under VLANs. A property
that excepts one of them says so; everything else is in the model without exception.

### CpswBridge

Handlers under RTNL are one step; `ModeCheck` is apart from `ModeSet` because the devlink handler looks at `br_members` first and
takes RTNL later. `work` holds the work items, in the order they were queued in; any of them may be done next (`DoWork(n)`), at any later time, because
each is a work of its own on `system_long_wq` and they compete for RTNL. `late` holds the addresses of which an item has overtaken an earlier one.
Joining a bridge (also when the offload fails, `JoinFails`), VLANs,
groups and addresses for a port or for the bridge itself (`HOST`), the bypass, and frames from stations that the engine
learns come in any order. Where switchdev calls the driver once for each port of a bridge, the action makes all the calls.

`bypass` is `ale_bypass`, `register` the bit of the engine that it stands for: a change of mode writes the second alone. That the soft reset of
`cpsw_init_host_port` leaves the register as it is (the driver does not write it there) is taken for granted. `promisc` are the interfaces with IFF_PROMISC, which a bridge
sets on its ports and anybody may set or clear; `SetRxMode` is what `cpsw_ndo_set_rx_mode` makes of it in either mode.

### CpswQos

One port, with the opens and stops of the other one, which clear registers of both. `cbs` holds the driver's copy (`shp`, `bw`)
and the registers (`pct`, `rate`, `type`, `shape`); bandwidths are in kbit/s and shares in percent, rounded up as in the code.
`lost` says whether a reset of the switch has cleared all registers or only those that `cpsw_init_host_port` writes.
Requests for a shaper are for queues of a traffic class. A queue of none has class -1 (`netdev_txq_to_tc`), which `cpsw_tc_to_fifo`
turns into FIFO 4: the request then reads and writes past the end of `fifo_bw`, and what that does is not modelled.

## 3. Runs

| Run | Question | States |
|---|---|---|
| `CpdmaChan_safety` | Is the list the queue, every descriptor accounted for, none forgotten, HDP written only at a stop? | 421,579 |
| `CpdmaChan_live` | Is a channel the FIFO of `CpdmaFifo`? Is every descriptor taken back, does every stop end? | 13,062 |
| `CpswTraffic_one` | Does the pool balance, and can a stopped queue be forgotten, with one interface? | 941 |
| `CpswTraffic_up` | On one processor, with two interfaces and the timeout: does the receive ring keep its size, is every stopped queue started again? | 3,457 |
| `CpswIfc_faults` | Are count and resources right after every operation, whatever failed, and does it release RTNL? | 2,162 |
| `CpswShares_split` | Do the channels share out descriptors and budget, and do the shapers match the rates, whatever is changed in whatever order? | 2,091,350 |
| `CpswNapi_irq` | Can an interrupt be lost, or taken from a stopped engine? Does a poll meet a destroyed channel? Is every channel with a budget served? | 263,284 |
| `CpswTable_calls` | Is the table a map? Does the bit map agree with it, and does a port that left a VLAN stay out? | 60,496 |
| `CpswAddr_dual` | Is what the interfaces were given in the table, and nothing else? Are the ports kept apart? | 534,750 |
| `CpswBridge_switch` | Do marks, membership, flooding and table follow the bridge, the mode and the flags, with work items that are late and in any order? | 1,419,833 |
| `CpswQos_restore` | Do the registers say what was accepted, and is the link never shared out? | 1,798,317 |
| `CpswTraffic_warn` | Violation: can the refill get -ENOMEM on several processors? | |

Some properties have parts, which the modules define and comment one by one. `InterfacesServed` is `OwnEntries` (VLAN, address and
broadcast of the port), `VlansServed` (those of the filter) and `GroupsServed`; `FloodsAsAsked` is `FloodCovers` and
`AllmultiKept`; `Membership` is `MarkedIfForwarded` and `OneBridge`; `BridgeFollows` is `VlansFollow`, `GroupsFollow` and
`FdbFollows`; `QosKept` is `ShapesKept`, `PrioritiesKept` and `FiltersKept`.

Bounds. Two interfaces are what the hardware has. Two or three descriptors per channel reach the full, the last-but-one and the
empty channel with every thread holding one. Two receive channels are enough for one to be removed and one to stay.
`CpswIfc` has no counter to bound: the operations repeat for ever, and so do those of `CpswNapi` (two channels, at most
`MaxWork` packets waiting on each).

`CpswTable` has two ports (the host and one slave), two VLANs, one station, one group besides broadcast, two entries and one
address that the hardware learns by itself: every call meets a free, a full and an evictable table, and each entry kind next to
each other. Its theorems hold for any number. `CpswAddr`, `CpswBridge` and `CpswQos` count the changes (`MaxOps`), as their
histories are unbounded. In `CpswAddr` every operation counts (six of them: both interfaces opened and four changes); the table
has ten entries, and both interfaces with one VLAN of the filter fill it, so that the later calls meet a full table in the
middle of a handler. In `CpswBridge` (three changes, nine entries, two bridges under symmetry, one VLAN of the bridge, which leaves
every port untagged: `Untagged`; groups for the host and for one port: `GroupPorts`; the own address of one of the two interfaces: `OwnAddr`) opening,
joining, going to switch mode and the work items are free, and in `CpswQos` (five changes) opening and the link, so that a short
history still has a device to happen to.

`CpswShares` is run with one port, two queues and one rate, the speed of the link or a hundredth of it: queues
with and without limit, all limited, shares that are rounded up to 1 or down to 0, refused splits and overlapping splits
all occur.
The properties also hold with a rate that the shaper meets only approximately (100 Mb/s with a bus of 333 MHz).

What is left out of `CpswIfc_faults`: a page that cannot be allocated in an ethtool operation. After it descriptors stay on the
channels (`cpsw_fail` closes the interfaces, but `cpdma_ctlr_stop` does nothing on an engine that is already idle), and no
interface can be opened again. That run does not check for deadlock, because the code may stop: an operation
that waits for a NAPI context that nobody enables holds RTNL for ever (the stop in the error path of an open, and a
stop after a failed resume); `RtnlReleased` excepts exactly that. Nor do `CpswAddr_dual`, `CpswBridge_switch` and `CpswQos_restore`, whose
histories end at `MaxOps`. The other passing runs check for deadlock.

Fairness. A thread that has begun goes on (weak fairness of its steps): nothing in them blocks but a spinlock that is
released in the next step. The hardware processes what it was given. The poller is scheduled again as long as
there is work (strong fairness, as it takes turns with others). The watchdog of the stack calls `ndo_tx_timeout` for a
queue that stays stopped. An interrupt that is raised is taken (weak fairness), and the softirq and the thread that holds RTNL,
which share a processor, both get it again and again (strong fairness). Nothing makes the stack transmit, packets arrive or anybody open, close or reconfigure an interface.

## 4. Findings and known disagreements

`CpswTraffic_warn` is the counterexample of an assertion in the code: the count of a channel is lowered before its descriptor is
back in the pool, a transmit on another processor takes the one meant for the refill, `WARN_ON(ret == -ENOMEM)` fires and
the receive ring shrinks.

The models show more. Where a property would not hold of the code, it excepts the case by name (in `odd`, `disturbed` or an
assumption of the run), and "hazards" has the line:

1. `__cpdma_chan_process` restarts the hardware at EOQ even during a teardown, so that descriptors cleaned up as "haven't
   been tx/rx'ed" may have been transmitted (`my_davinci_cpdma.c` 1257 and 1352).
2. A completion wakes only the queue of its own interface, although the interfaces share the channel; without
   `ndo_tx_timeout`, as in `eth/support.c`, the other one stays stopped (585).
3. The error path of `cpsw_ndo_open` calls `cpsw_ndo_stop`, which disables NAPI contexts that were not enabled and waits for ever
   (`eth.c` 905).
4. Draining the channels wakes the transmit queues that were stopped for it (`my_cpsw_ethtool.c` 483).
5. A queue limited to the speed of the link leaves the others neither budget nor descriptors (`my_cpsw_priv.c` 383): their packets are
   never processed. `Polled` excepts a channel with a budget of 0.
6. The page pool of a receive channel that ethtool removes is not destroyed: the loop already runs over the new number of channels.
7. Fixed priority follows one rule when a rate is set and the opposite one when the engine starts. `tx_maxrate` of a queue goes to
   0 for one interface when a receive channel of the same number is created. Two overlapping splits leave budgets
   that do not add up; when they come to more than the poll has, the last channels may be left behind (`CpswNapi`, where a split is one step,
   does not have that).
8. On several processors a poll that began before `cpsw_intr_disable` reaches the vector of a channel that `set_channels` has
   destroyed (`my_cpsw_ethtool.c` 573).
9. A port that joins a bridge between devlink's check and RTNL, or in dual-EMAC mode, is never counted (`eth.c` 1637, 1550); a work
   item of switch mode that is done in dual-EMAC mode writes an entry that nobody removes; a table that is cleared
   under a bridge is not filled again. Work items for one address that overtake each other (add, delete, add, done as add, add, delete)
   leave the table without an address of the bridge, or with one that it has no more, until the next one (`my_cpsw_switchdev.c` 473).
10. A VLAN in the filters of both interfaces belongs to the one that added it last, and goes with the first removal (`eth.c` 1040).
    Groups that change while an interface is promiscuous, and the address in the VLANs of an interface whose address
    changes, keep their old entries.
11. `cpsw_restore` passes over the VLANs of the filter that have no VLAN device (`eth.c` 479): a bridge or a bond that knows VLANs loses its VLANs
    when the interface is opened again after the table has been cleared.
12. A change of mode with an interface up ends a bypass that devlink had set, while `ale_bypass` stays set (`eth.c` 1701, 1728): frames that the
    hardware forwards are no longer marked as forwarded.
13. A change to dual-EMAC mode clears ALE_P0_UNI_FLOOD although an open interface is promiscuous, and nobody calls
    `cpsw_ndo_set_rx_mode` (`eth.c` 1712).
14. A refused CBS request loses the speed that the shapers were set up for (`my_cpsw_priv.c` 979); `cpsw_mqprio_resume` maps the last
    class to another FIFO than `cpsw_set_mqprio` did (1091); a policer whose rate does not fit in 8 bits is accepted and not
    written, and a second policer of a kind makes the driver forget the first. A CBS request for a queue of no class writes past `fifo_bw` (941).

## 5. Proofs

`CpdmaChanProofs` proves for every set of descriptors and every limit: `TypeCorrect`, `ListCorrect`, `NoLeak`, `HwStaysInQueue`,
`NeverForgotten`, `CleanedIsUnsent`, `HdpWritesWait` (the invariants of `CpdmaChan_safety`) and `ChannelIsFifo` (every step
of a channel is a step of `CpdmaFifo` or leaves it unchanged). The inductive invariant is the conjunction of those
invariants with what they need of each other: that the descriptors of `queue` are distinct, that `hw_next` of each is the
next one (or zero at the tail), and that OWNER is clear exactly before the place where the hardware is. Without the last, the poller
could meet a descriptor that it believes done; without the first, taking the head off could also remove it from the
middle. The only assumptions are those of `CpdmaChan` about its constants.

`CpswTrafficProofs` proves type correctness (`TypeCorrect`) and that the pool balances (`PoolIsBalanced`) for every number of interfaces, with
and without timeout or several processors. `RingIsKept` needs one processor (the run
`CpswTraffic_warn` shows that it does) and `WakeupNotLost` a single interface (with two, finding 2 applies). `RingIsKept` rests on the fact that on one processor
at most one thread is between two steps, so that the pool has a descriptor when the receive handler comes to submit.

`CpswSharesProofs` proves `ShapersAlwaysMatch` for every number of ports and queues and all rates. The inductive invariant adds that
channels are changed only while the engine is stopped (otherwise a limited queue could be destroyed with its shaper on)
and that a queue without a channel has no rate.

It also proves the two sums, for every number of queues and descriptors and any rates. `PoolStaysShared` rests on what the loops of
`cpdma_chan_split_pool` return: percentages rounded down do not exceed the percentage of the whole, what is left for the channels
without weight is divided by their number, and the largest share takes up the remainder (`TxTotal`, `RxTotal`). When the weights exceed
100 % the split is refused, and the old shares are still within the old pool, because the size of the rings is then left
alone, too. `BudgetsAlwaysAddUp` needs the invariant of the loop of `cpsw_split_res` (`Progress`: what is left is the NAPI
weight less the budgets set so far, and the weights behind it follow the rates) and that as long as `disturbed` is not set one thread at
most is in the loop. That in turn needs the operation that changes the channels to find thread 0 outside of it (`RtnlIdle`).
Sums are recursive functions; the provers have no induction over data, so `Induction` states it for membership of a
set of numbers, from the well-foundedness of the subsets of a finite set, and `SumDef` shows that the function exists.

`CpswTableProofs` proves type correctness, `TableKeysUnique`, `TableUntagAgrees` and `TableLeftForGood` for every number of ports,
VLANs, addresses and entries. The inductive invariant `TableInv` needs all of it at once: that a call finds the entry of its
key rests on the keys being distinct; that freeing the entry of a VLAN may clear the bit of that VLAN, on its being the only one;
that no call writes a VLAN without members, on masks not being empty. The proofs go through the operators of `CpswAle`: one
lemma for each (what it does to the keys, the bit map and the masks), and one step per action that cites it.
`FindAgeable` matters: what is evicted is an address, so that no VLAN leaves the table behind the bit map.

`TableIsMap` is the refinement of `AleMap`. The proof has two halves. The first says of every call which of seven shapes its step has
(`StepShape`): an entry is placed, shrunk or flushed, VLANs change their masks in place, or the engine learns, ages or empties.
The second says that each shape is a step of the map, and there the invariant comes in: that a placed entry costs no
other one needs the keys to be distinct. One more invariant is needed, `TableSecured`: no learned address is secure, so that an entry of
the driver is never taken for one that the engine may move.

The module ends with what a handler can expect of a single call. The contents of the table (`Contents`, the entries without their places)
are a set with at most one entry for a key, so that a call either replaces the entry of its key, perhaps at the cost of a learned address, or fails
and leaves the contents alone. The two modes compose such calls, some of them in a fold over the ports, the VLANs or the
groups; `FoldExists` shows that the recursive function behind `FoldSet` exists, and each loop has an induction of its own over the
subsets of a finite set.

`CpswIfcProofs` compares `usage_count`, at each point of each operation, with the set of interfaces whose opens are done and whose
stops are not (`UserSet`: it depends on whether the operation in progress opens or closes, and on whom it has yet to visit). That the count is
right is inductive only together with NAPI being enabled exactly while it is not zero: a stop that finds NAPI disabled hangs and
so never takes the count below zero. `UsageIsCounted` follows for any number of interfaces, whatever fails. `UsersAreServed` and
`PoolsOutliveTheirPages` assume that an ethtool operation does not run out of pages half-way through the refill (`NoEthtoolFill`):
after that they are false of the code, as section 3 says, and the run leaves it out for the same reason. Everything else may fail.

`CpswTrafficProofs` also proves `NothingStaysMasked`, `LineStaysBalanced`, `PolledChannelsStayLive` and the action property `StoppedIsQuiet`
of `CpswNapi`, on all three boards, for any number of channels, packets and any budget. The inductive invariant (`NapiInvariant`) has a part for each
actor. `EngineInv` and `NapiInv` say what the thread under RTNL has brought the engine and NAPI to at each of its steps. `IrqInv` says
who owes an interrupt its enabling: whenever it is masked while there is a user, a handler, a scheduled or running poll, or
a poll that is about to enable it, is under way. That alone is not enough, because the thread under RTNL passes
through states without user; there the flag of the line may not be left over, either. `PollInv` is what one processor adds: channels are
left to poll only within a poll.

`CpswBridgeProofs` proves `MembersAgree` for any number of ports and bridges and any number of changes: the marks are computed again by every
step that changes what the driver takes them to depend on, the engine is bypassed only while the driver has it noted, and a port can be a member
in dual-EMAC mode only after the race that `odd` names. So frames are marked only while the hardware forwards; the converse fails once a change of mode has
ended a bypass (finding 12), and the property says so.

It also proves `ModesKept` and `TableFollows`, of the entries in the table (the invariants `ModeEntries` and `BridgeFollows`). Their
inductive invariant is `EntriesInv`. `ModeInv` is the one property; `FollowInv` must say more than the other, which speaks of switch mode: a
change of mode with all interfaces down keeps what the bridge has been given, so that the table follows the bridge then, too, and
with an interface up in dual-EMAC mode the bridge has given nothing. It must also say what holds while work items wait: an address
of the bridge is in the table, or work items for it are yet to come, the last of which adds it (`Due`). As the items are done in any order, `Due` leaves
out the addresses of which an item has overtaken an earlier one (`late`). `ModeInv` also says when the host port must flood.
`StateInv` adds that the PVIDs are those of the mode and that the bridge has one port for an address. A handler is treated
by what it changes (`SameBut`: all but the entry of one key, and learned addresses), and those that call the engine
for each port by an induction over the ports.

`CpswAddrProofs` proves all four invariants of `CpswAddr`: `InterfacesAreServed`, `VlansLeaveNothing`, `FloodsAsFlagsAsk` and `PortsStayApart`, for any
number of interfaces, VLANs and groups, a table of any size, and any number of operations. The contents are looked at in two
parts, because different code owns them: the groups in use, as pairs of an address and a VLAN (`Joined`), and everything else (`Base`).
The first part of the module says of each operation of the driver what it does to either part, loops included, also when an entry cannot be placed and
the call is undone; the second says of each handler that it keeps the inductive invariant `AddrInv`.

* Users of a group in a VLAN are its VLAN device, so that such a VLAN is in `devs`; and a VLAN that the last open passed over has no claim on the table
  (`bare`) until it leaves the filter. What is wanted of the table is stated for the others (`Wanted`).
* `IfcAt` is what holds of one interface, open or not. That an open interface is served is not inductive alone: an open finds what earlier ones
  have left (`OwnedAt`: a VLAN of an interface has its port and the host and no other port), and a frame argument is needed for
  the handlers of the others. `Mine` is the set of VLANs that are an interface's alone; a handler of another interface leaves the entries in them alone
  (`IfcKept`), unless `odd` says that a VLAN is shared, and `SharedInv` is why that is never missed.
* `GroupAt` relates `told`, a number, to the users of a group. The driver is given the number, and asks for the identities itself when the
  number changes. That this is enough rests on two facts: between two calls the users of a group only become more or only become
  fewer (`Moved`), and a count that has not changed then means that they are the same.
* `GoneAt` and `LeftAt` are `NothingLeft` in the form that is kept: every entry in a VLAN of a user is there for an interface that has the VLAN in
  its filter, and a group in use is in such a VLAN.
* `ClosedAt` and `Found` are for the first open, which initialises the host port and empties the table: what the other
  interfaces then still have is nothing.

TLC checks `AddrInv` (with four operations) and `EntriesInv` (also with groups and own addresses for every port) on the instances of the runs, too.

`CpswQosProofs` proves both properties of `CpswQos`, for any speeds, bandwidths, rates and priorities and any number of requests. `RoomIsLeft`
needs no exception. `QosIsKept` has three parts with invariants of their own, each under the exceptions that the part names.
For the shapers (`ShapesInv`) the accepted bandwidths must fit together (`Fits`: from the highest FIFO down, none above the speed, their shares
below 100), and the registers must hold each share or, where the FIFO is not shaped, its share or nothing (`Holds`). The first is what
makes a resume succeed: `cpsw_cbs_resume` looks at no result, and `FitsAccepts` shows that each request it makes is accepted, whatever the reset
has left of the shares of the others. The shares are rounded up, and `CeilDivUp` shows that they are enough.
For the policers (`PoliceInv`), the filter that the driver remembers for a kind must be the only one of that kind.

All assumptions about constants are those the modules declare and TLC evaluates, but for `~Smp`, the single interface and
`NoEthtoolFill`, which are hypotheses of the theorems that need them. Those of the modes are that each port has a default VLAN of its own,
other than 0 (`cpsw/eth.c`, 1322-1330, takes it from the device tree; without it the ports number theirs), that the ports are finitely many, as are VLAN
numbers (12 bits) and addresses (48 bits), and that an interface begins with an address of a station.

Only model-checked is liveness: `Reclaimed`, `StopTerminates`, `QueueRestarts`, `RtnlReleased` and `Polled` need fairness and ENABLED, which are
beyond this prover. Every invariant and every action property of the runs that pass, and the refinement of both abstract
specifications, is a theorem (`RingIsKept`, `WakeupNotLost` and what `NoEthtoolFill` excepts, under the hypotheses above).

## 6. Plan

The modules of the plan are done: `CpdmaFifo`, `CpdmaChan`, `CpswTraffic`, `CpswIfc`, `CpswShares`, `CpswNapi`, `CpswAle`, `AleMap`,
`CpswTable`, `CpswAddr`, `CpswBridge`, `CpswQos`, and so are the theorems about their safety. What could be added are the parts that the next
section lists; of those, the order in which probe acquires and remove releases is the most worthwhile.

## 7. Not modelled

* Register layouts, statistics and messages: no effect on the control. That several controls share a register of the ALE, which is
  read, modified and written without a lock, is such a layout.
* The tables of boards with `nu_switch_ale`, and `cpsw_ale_vlan_set_unreg_mcast_idx`: the drivers here ask for the table "cpsw".
* Port attributes of switchdev and PVIDs: single writes of a register, from which nothing else follows.
* XDP, time stamps (only the header is here), VLAN encapsulation, pause, EEE and coalescing: they change no shared state.
* Probe and remove: one thread, a straight line of acquisitions; what a successful probe leaves is the initial state of the models.
  That `reth.rs` releases nothing when probe fails half-way (227) is listed as a hazard.
* The generated bindings (`binds.rs`), the wrappers of `sys.rs` and `net.rs`, and the examples `01_hello_world`, `02_arguments`,
  `gdev`, `plat`, `ceth`, `csnull` and `snull`: no state, or little more than probe and remove.

`patches/` and `resources/` hold patches to the kernel and its configuration.
