---------------------------- MODULE SurfaceRoles ----------------------------
(***************************************************************************)
(* Window metadata (handler/gtk_shell.rs and the xdg and aura parts of       *)
(* handler/compositor.rs).  xdg_toplevel.set_app_id and the GTK shell's      *)
(* requests carry no wl_surface; the proxy resolves them through maps of     *)
(* guest IDs, which the guest reuses, to one host zaura_surface per surface.  *)
(* Requests and host messages are byte payloads (WireCodec).                 *)
(***************************************************************************)
EXTENDS WireCodec, FiniteSets

CONSTANTS
  Surfaces, XdgSurfaces, Toplevels, GtkSurfaces,   \* guest IDs, by interface
  Payloads,       \* argument bytes of set_app_id and set_dbus_properties
  StartupIds,     \* argument bytes of set_startup_id
  Prefix,         \* what namespacing puts in front of an application ID
  ShellVersions,  \* versions the host may offer zaura_shell at
  MaxHostIds,     \* bound: host surfaces and aura objects ever created
  MaxShells       \* bound: zaura_shell advertisements

VARIABLES
  shell,        \* host_zaura_shell_version, 0 when no zaura_shell is bound
  shells,       \* advertisements so far
  surface,      \* shadow table: host ID of a guest wl_surface, 0 when unmapped
  auras,        \* wl_surface_to_zaura_surface: set of [surface, aura, version]
  xdg,          \* xdg_surface_to_wl_surface
  toplevel,     \* xdg_toplevel_to_wl_surface
  liveTop,      \* guest toplevels with a host mapping
  startup,      \* startup_id of the guest's gtk_shell1
  gtk,          \* gtk_surfaces: [surface, aura], or None
  host,         \* the compositor: [ids, live, aura, app, startup, err]
  truth,        \* history: the host surface each toplevel was made for, 0 if none
  wanted,       \* history: the application ID the guest last gave each host surface
  life

code == <<shell, surface, auras, xdg, toplevel, liveTop, startup, gtk>>
vars == <<code, shells, host, truth, wanted, life>>

None == [none |-> TRUE]
Unset == <<-1>>
Ids == 1..MaxHostIds

Init ==
  /\ shell = 0 /\ shells = 0
  /\ surface = [s \in Surfaces |-> 0] /\ auras = {}
  /\ xdg = [x \in XdgSurfaces |-> None] /\ toplevel = [t \in Toplevels |-> None]
  /\ liveTop = {} /\ startup = NoString /\ gtk = [g \in GtkSurfaces |-> None]
  /\ host = [ids |-> 0, live |-> {}, aura |-> {}, app |-> [i \in Ids |-> Unset],
             startup |-> [i \in Ids |-> Unset], err |-> FALSE]
  /\ truth = [t \in Toplevels |-> 0] /\ wanted = [i \in Ids |-> Unset]
  /\ life = "running"

Running == life = "running"
RoomFor(n) == host.ids + n <= MaxHostIds

-----------------------------------------------------------------------------
(* The compositor, external: Exo refuses a second zaura_surface for one      *)
(* wl_surface, and every request must name a live object that has it.        *)

AuraOf(h, a) == CHOOSE r \in h.aura : r.id = a
AuraLive(h, a, v) == \E r \in h.aura : r.id = a /\ r.version >= v /\ r.live

HostAccepts(h, m) ==
  CASE m.op = "create_surface" -> TRUE
    [] m.op = "get_aura_surface" ->
         m.surface \in h.live /\ ~\E r \in h.aura : r.surface = m.surface /\ r.live
    [] m.op = "set_application_id" -> AuraLive(h, m.id, 5) /\ ~Failed(read_nullable_string(m.payload))
    [] m.op = "set_startup_id" -> AuraLive(h, m.id, 4) /\ ~Failed(read_nullable_string(m.payload))
    [] m.op = "release" -> AuraLive(h, m.id, 38) /\ AuraOf(h, m.id).surface \in h.live
    [] m.op = "destroy_surface" -> m.surface \in h.live
    [] OTHER -> ~Failed(read_string(m.payload))

HostApply(h, m) ==
  CASE m.op = "create_surface" -> [h EXCEPT !.ids = @ + 1, !.live = @ \cup {h.ids + 1}]
    [] m.op = "get_aura_surface" ->
         [h EXCEPT !.ids = @ + 1,
                   !.aura = @ \cup {[id |-> m.id, surface |-> m.surface, version |-> m.version, live |-> TRUE]}]
    [] m.op = "set_application_id" ->
         [h EXCEPT !.app[AuraOf(h, m.id).surface] = read_nullable_string(m.payload).value]
    [] m.op = "set_startup_id" ->
         [h EXCEPT !.startup[AuraOf(h, m.id).surface] = read_nullable_string(m.payload).value]
    [] m.op = "release" ->
         [h EXCEPT !.aura = {IF r.id = m.id THEN [r EXCEPT !.live = FALSE] ELSE r : r \in @}]
    [] m.op = "destroy_surface" -> [h EXCEPT !.live = @ \ {m.surface}]
    [] OTHER -> h

HostTakes(h, m) == IF HostAccepts(h, m) THEN HostApply(h, m) ELSE [h EXCEPT !.err = TRUE]
Send(msgs) == host' = FoldLeft(HostTakes, host, msgs)

-----------------------------------------------------------------------------
(* The zaura_shell binding.                                                *)

ShellGlobal(v) ==
  /\ Running /\ shell = 0 /\ shells < MaxShells
  /\ shell' = v /\ shells' = shells + 1
  /\ UNCHANGED <<surface, auras, xdg, toplevel, liveTop, startup, gtk, host, truth, wanted, life>>

\* Only the manager goes: zaura_surface children keep their mapping and their version.
ShellGlobalRemove ==
  /\ Running /\ shell # 0 /\ shell' = 0
  /\ UNCHANGED <<surface, auras, xdg, toplevel, liveTop, startup, gtk, host, shells, truth, wanted, life>>

-----------------------------------------------------------------------------
(* wl_surface and its zaura_surface.                                       *)

CreateSurface(s) ==
  /\ Running /\ surface[s] = 0 /\ RoomFor(1)
  /\ surface' = [surface EXCEPT ![s] = host.ids + 1]
  /\ Send(<<[op |-> "create_surface"]>>)
  /\ UNCHANGED <<shell, auras, xdg, toplevel, liveTop, startup, gtk, shells, truth, wanted, life>>

\* Mutant: every metadata request makes its own zaura_surface.
KnownAurasNever(s) == {r \in auras : r.surface = surface[s] /\ shell = 0}

KnownAuras(s) == {r \in auras : r.surface = surface[s]}

\* ensure_host_zaura_surface: the aura object of a surface, with the messages that make it.
NewAura(s) == [surface |-> surface[s], aura |-> host.ids + 1, version |-> shell]
ensure_host_zaura_surface(s) ==
  CASE surface[s] = 0 -> [aura |-> None, made |-> {}]
    [] surface[s] # 0 /\ KnownAuras(s) # {} -> [aura |-> CHOOSE r \in KnownAuras(s) : TRUE, made |-> {}]
    [] surface[s] # 0 /\ KnownAuras(s) = {} /\ shell = 0 -> [aura |-> None, made |-> {}]
    [] OTHER -> [aura |-> NewAura(s), made |-> {NewAura(s)}]

MakeMessages(made) ==
  IF made = {} THEN <<>>
  ELSE LET r == CHOOSE r \in made : TRUE IN
       <<[op |-> "get_aura_surface", id |-> r.aura, surface |-> r.surface, version |-> r.version]>>

Room(e) == e.made # {} => RoomFor(1)

\* Mutant: toplevels keep their link to a destroyed surface.
LinksKept(map, s) == map

\* The links of every object that resolved to this guest surface are cut.
Unlinked(map, s) == [o \in DOMAIN map |-> IF map[o] = s THEN None ELSE map[o]]

\* The version the child was made at decides, not the shell's.
Releasable(r) == r.version >= 38

OnDestroySurface(s) ==
  /\ Running /\ surface[s] # 0
  /\ LET own == {r \in auras : r.surface = surface[s]} IN
     /\ auras' = auras \ own
     /\ Send(SetToSeq({[op |-> "release", id |-> r.aura] : r \in {q \in own : Releasable(q)}})
             \o <<[op |-> "destroy_surface", surface |-> surface[s]]>>)
  /\ gtk' = [g \in GtkSurfaces |-> IF gtk[g] # None /\ gtk[g].surface = s THEN None ELSE gtk[g]]
  /\ xdg' = Unlinked(xdg, s) /\ toplevel' = Unlinked(toplevel, s)
  /\ surface' = [surface EXCEPT ![s] = 0]
  /\ truth' = [t \in Toplevels |-> IF truth[t] = surface[s] THEN 0 ELSE truth[t]]
  /\ UNCHANGED <<shell, liveTop, startup, shells, wanted, life>>

-----------------------------------------------------------------------------
(* xdg_surface and xdg_toplevel.                                           *)

OnGetXdgSurface(x, s) ==
  /\ Running /\ surface[s] # 0 /\ xdg[x] = None
  /\ xdg' = [xdg EXCEPT ![x] = s]
  /\ UNCHANGED <<shell, surface, auras, toplevel, liveTop, startup, gtk, shells, host, truth, wanted, life>>

OnGetToplevel(t, x) ==
  /\ Running /\ t \notin liveTop
  /\ toplevel' = IF xdg[x] = None THEN toplevel ELSE [toplevel EXCEPT ![t] = xdg[x]]
  /\ truth' = [truth EXCEPT ![t] = IF xdg[x] = None THEN 0 ELSE surface[xdg[x]]]
  /\ liveTop' = liveTop \cup {t}
  /\ UNCHANGED <<shell, surface, auras, xdg, startup, gtk, shells, host, wanted, life>>

\* A guest may destroy its xdg_surface before the toplevel.
OnDestroyXdgSurface(x) ==
  /\ Running /\ xdg[x] # None
  /\ xdg' = [xdg EXCEPT ![x] = None] /\ toplevel' = Unlinked(toplevel, xdg[x])
  /\ truth' = [t \in Toplevels |-> IF toplevel[t] = xdg[x] THEN 0 ELSE truth[t]]
  /\ UNCHANGED <<shell, surface, auras, liveTop, startup, gtk, shells, host, wanted, life>>

OnDestroyToplevel(t) ==
  /\ Running /\ t \in liveTop
  /\ toplevel' = [toplevel EXCEPT ![t] = None] /\ liveTop' = liveTop \ {t}
  /\ truth' = [truth EXCEPT ![t] = 0]
  /\ UNCHANGED <<shell, surface, auras, xdg, startup, gtk, shells, host, wanted, life>>

native_wayland_app_id(app) == Prefix \o app

\* A request that cannot be decoded ends the connection.
Malformed == life' = "closed" /\ UNCHANGED <<code, shells, host, truth, wanted>>

AppIdMessage(aura, app) ==
  IF aura = None THEN <<>> ELSE IF aura.version < 5 THEN <<>>
  ELSE <<[op |-> "set_application_id", id |-> aura.aura, payload |-> write_string(app)]>>

\* The application ID is meant for the surface the toplevel was made for.
Want(i, aura, app) ==
  wanted' = IF i # 0 /\ aura # None /\ aura.version >= 5
            THEN [wanted EXCEPT ![i] = app] ELSE wanted

OnSetAppId(t, raw) ==
  /\ Running /\ t \in liveTop
  /\ IF Failed(read_string(raw)) THEN Malformed
     ELSE LET app == native_wayland_app_id(read_string(raw).value) IN
       IF ~wayland_string_fits_message(app)
       THEN UNCHANGED vars
       ELSE LET e == IF toplevel[t] = None THEN [aura |-> None, made |-> {}]
                     ELSE ensure_host_zaura_surface(toplevel[t]) IN
            /\ Room(e) /\ auras' = auras \cup e.made
            /\ Send(<<[op |-> "set_app_id", payload |-> write_string(app)]>>
                    \o MakeMessages(e.made) \o AppIdMessage(e.aura, app))
            /\ Want(truth[t], e.aura, app)
            /\ UNCHANGED <<shell, surface, xdg, toplevel, liveTop, startup, gtk, shells, truth, life>>

-----------------------------------------------------------------------------
(* gtk_shell1 and gtk_surface1: guest objects without a host counterpart.   *)

queue_startup_id(aura, id) ==
  IF aura = None THEN <<>>
  ELSE IF aura.version < 4 \/ ~try_build_message_ok(write_nullable_string(id)) THEN <<>>
  ELSE <<[op |-> "set_startup_id", id |-> aura.aura, payload |-> write_nullable_string(id)]>>

OnGetGtkSurface(g, s) ==
  /\ Running /\ gtk[g] = None /\ surface[s] # 0
  /\ LET e == ensure_host_zaura_surface(s) IN
     /\ Room(e) /\ auras' = auras \cup e.made
     /\ gtk' = [gtk EXCEPT ![g] = [surface |-> s, aura |-> e.aura]]
     /\ Send(MakeMessages(e.made) \o queue_startup_id(e.aura, startup))
  /\ UNCHANGED <<shell, surface, xdg, toplevel, liveTop, startup, shells, truth, wanted, life>>

\* Every zaura_surface that surfaces of this shell have, once each.
ShellAuras == {gtk[g].aura : g \in {k \in GtkSurfaces : gtk[k] # None}} \ {None}

Concat(msgs) == FlattenSeq(SetToSeq(msgs))

OnSetStartupId(raw) ==
  /\ Running
  /\ IF Failed(read_nullable_string(raw)) THEN Malformed
     ELSE LET id == read_nullable_string(raw).value IN
          /\ startup' = id
          /\ Send(Concat({queue_startup_id(a, id) : a \in ShellAuras}))
          /\ UNCHANGED <<shell, surface, auras, xdg, toplevel, liveTop, gtk, shells, truth, wanted, life>>

OnSetDbusProperties(g, raw) ==
  /\ Running /\ gtk[g] # None
  /\ LET r == read_nullable_string(raw) IN
     CASE Failed(r) -> Malformed
       [] ~Failed(r) /\ (r.value = NoString \/ gtk[g].aura = None) -> UNCHANGED vars
       [] OTHER ->
            LET app == native_wayland_app_id(r.value) IN
            IF ~wayland_string_fits_message(app) THEN UNCHANGED vars
            ELSE /\ Send(AppIdMessage(gtk[g].aura, app))
                 /\ Want(surface[gtk[g].surface], gtk[g].aura, app)
                 /\ UNCHANGED <<code, shells, truth, life>>

Closed == life = "closed" /\ UNCHANGED vars

Next ==
  \/ \E v \in ShellVersions : ShellGlobal(v)
  \/ ShellGlobalRemove
  \/ \E s \in Surfaces : CreateSurface(s) \/ OnDestroySurface(s)
  \/ \E x \in XdgSurfaces, s \in Surfaces : OnGetXdgSurface(x, s)
  \/ \E x \in XdgSurfaces : OnDestroyXdgSurface(x)
  \/ \E t \in Toplevels, x \in XdgSurfaces : OnGetToplevel(t, x)
  \/ \E t \in Toplevels : OnDestroyToplevel(t)
  \/ \E t \in Toplevels, raw \in Payloads : OnSetAppId(t, raw)
  \/ \E g \in GtkSurfaces, s \in Surfaces : OnGetGtkSurface(g, s)
  \/ \E raw \in StartupIds : OnSetStartupId(raw)
  \/ \E g \in GtkSurfaces, raw \in Payloads : OnSetDbusProperties(g, raw)
  \/ Closed

Spec == Init /\ [][Next]_vars

-----------------------------------------------------------------------------
(* Properties.                                                             *)

\* The compositor accepts everything the metadata paths send: one zaura_surface per live
\* wl_surface, requests only on live objects of a version that has them, the release before the
\* wl_surface destructor, and payloads that decode (ensure_host_zaura_surface, on_destroy), also
\* after the shell global was removed and offered again at another version.
AuraRequestsValid == ~host.err

\* The host shows a surface's window under the application ID the guest last gave that very
\* surface, namespaced and decoded as C strings, whatever IDs were destroyed and reused on the
\* way from toplevel to surface (on_set_app_id, on_set_dbus_properties, wire.rs strings).
AppIdOnItsSurface == \A i \in Ids : host.app[i] = wanted[i]

\* Every GTK surface whose zaura_surface is known carries the shell's current startup ID, however
\* the ID and the surface were created in turn, when host version and message length allow it
\* (on_get_gtk_surface, on_set_startup_id).
StartupIdReachesSurfaces ==
  \A g \in GtkSurfaces :
    gtk[g] # None =>
      (queue_startup_id(gtk[g].aura, startup) # <<>> => host.startup[surface[gtk[g].surface]] = startup)

\* Windows keep their names: the host knows each surface by its own application
\* and startup ID.
WindowsKeepTheirNames == AppIdOnItsSurface /\ StartupIdReachesSurfaces
=============================================================================
