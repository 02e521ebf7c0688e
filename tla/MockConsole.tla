----------------------------- MODULE MockConsole -----------------------------
(***************************************************************************)
(* A console on the in-browser mock: the landing page that creates and     *)
(* seeds a mission, the mission page that loads it and subscribes, and the *)
(* operator's tools on it: the grid, the panels, the toolbar.  A tool      *)
(* looks at what is displayed, a frame of the past while a replay cursor   *)
(* is set; the guard of useMissionActions then refuses its command.        *)
(*                                                                         *)
(* The replay controller is Console's subject: here a cursor is set to any *)
(* event of the log, or taken away, at any time.                           *)
(***************************************************************************)
EXTENDS MockBackend

CONSTANTS FireCells, MountainCells, ResponderCells, ControlCells,
                             \* cells the operator clicks with each tool
          SeedMountains, SeedFires, SeedResponders,
                             \* the board of seedScenario, in order
          MaxCommands,       \* bound: commands with an effect
          MaxExpiries        \* bound: timeouts of the reset button pending

ASSUME BoardAssumption ==
  /\ SeedMountains \in Seq(MountainCells)
  /\ SeedFires \in Seq(Grid) /\ SeedResponders \in Seq(Grid)

(* A route leads over the grid from the one cell to the other. *)
ASSUME RouteAssumption ==
  \A a, b \in Grid : \A mountains \in SUBSET MountainCells :
    LET path == PathBetween(a, b, mountains)
    IN  /\ path \in Seq(Grid)
        /\ path # NoPath => path[1] = a /\ path[Len(path)] = b

INSTANCE GridView

VARIABLES
  world,       \* the mock and the store it feeds
  open,        \* whether the mission page is mounted
  selected,    \* selectedResponderId, NoResponder for null
  armed,       \* confirmReset of the toolbar
  expiries,    \* its timeouts that are pending
  commands

vars == <<world, open, selected, armed, expiries, commands>>
controls == <<selected, armed, expiries>>

NoResponder == 0

Init ==
  /\ world = NoWorld /\ open = FALSE
  /\ selected = NoResponder /\ armed = FALSE /\ expiries = 0
  /\ commands = 0
-----------------------------------------------------------------------------
(* Pages *)

Seeded(w) ==
  FoldLeft(CreateResponder,
           FoldLeft(PlaceFire, FoldLeft(PlaceMountain, w, SeedMountains), SeedFires),
           SeedResponders)

(* launch: a blank mission or the demonstration. *)
Launch(demo) ==
  /\ ~open /\ ~world.exists
  /\ world' = IF demo THEN Seeded(CreateMission) ELSE CreateMission
  /\ UNCHANGED <<open, controls, commands>>

(* The page of an unknown mission, a deep link, makes one. *)
Open ==
  LET w == IF world.exists THEN world ELSE CreateMission
  IN  /\ ~open /\ open' = TRUE
      /\ world' = [w EXCEPT !.store = Store(w.heap)!SetSnapshot(@, Mission(w), w.recent),
                            !.listening = TRUE]
      /\ UNCHANGED <<controls, commands>>

(* The store's reset clears the selection; the toolbar is unmounted.       *)
Leave ==
  /\ open /\ open' = FALSE
  /\ world' = [world EXCEPT !.store = EmptyStore, !.listening = FALSE]
  /\ selected' = NoResponder /\ armed' = FALSE /\ expiries' = 0
  /\ UNCHANGED commands

(* tickAll leaves a mission alone that nobody listens to. *)
TimerTicks ==
  /\ world.listening /\ world' = Tick(world)
  /\ UNCHANGED <<open, controls, commands>>

Replay(e) ==
  /\ open
  /\ world' = [world EXCEPT !.store = Store(world.heap)!SetReplayCursor(@, e)]
  /\ UNCHANGED <<open, controls, commands>>
-----------------------------------------------------------------------------
(* What is displayed *)

Live == Resolve(world.heap, world.store.state)
Display == Resolve(world.heap, Store(world.heap)!TacticalState(world.store))

Clicked(cell) == Meta(Display, cell)
-----------------------------------------------------------------------------
(* Commands *)

Locked == world.store.cursor # NoEvent

(* guard of useMissionActions *)
Guarded(w) == IF Locked THEN world ELSE w

Act(w) ==
  /\ open /\ commands < MaxCommands
  /\ world' = Guarded(w)
  /\ commands' = IF world' = world THEN commands ELSE commands + 1

Command(w) == Act(w) /\ UNCHANGED <<open, controls>>

ClickFire(cell) ==
  /\ open /\ Clicked(cell).inGrid /\ ~Clicked(cell).mountain
  /\ Command(PlaceFire(world, cell))

ClickMountain(cell) ==
  /\ open /\ Clicked(cell).inGrid /\ ~Clicked(cell).mountain
  /\ Clicked(cell).fire = 0 /\ Clicked(cell).responder = 0
  /\ Command(PlaceMountain(world, cell))

ClickRemoveMountain(cell) ==
  /\ open /\ Clicked(cell).mountain
  /\ Command(RemoveMountain(world, cell))

ClickResponder(cell) ==
  /\ open /\ Clicked(cell).inGrid /\ ~Clicked(cell).mountain /\ Clicked(cell).fire = 0
  /\ Command(CreateResponder(world, cell))

ClickMissionControl(cell) == open /\ Command(MoveMissionControl(world, cell))

(* The dispatch tool: a responder, then a fire. *)
ClickDispatch(cell) ==
  /\ open /\ Clicked(cell).responder = 0 /\ Clicked(cell).fire # 0 /\ selected # NoResponder
  /\ Command(DispatchResponder(world, selected, Clicked(cell).fire))

(* Any other click of the dispatch tool, and the clicks of the select tool. *)
ClickSelect(cell) ==
  /\ open /\ selected' = Clicked(cell).responder
  /\ UNCHANGED <<world, open, armed, expiries, commands>>

(* The row of a responder in its panel toggles the selection. *)
ToggleRow(r) ==
  /\ open /\ r \in DOMAIN Live.responders
  /\ selected' = IF selected = r THEN NoResponder ELSE r
  /\ UNCHANGED <<world, open, armed, expiries, commands>>

(* Its Go button, for a fire that is out no longer offered.  The panels    *)
(* show the mission now, whatever is replayed.                             *)
Go(f) ==
  /\ open /\ selected \in DOMAIN Live.responders
  /\ f \in DOMAIN Live.fires /\ Live.fires[f].status # "extinguished"
  /\ Command(DispatchResponder(world, selected, f))

(* The reset button: the first click arms it for three seconds.  A timeout *)
(* is not cleared by the second click.                                     *)
ArmReset ==
  /\ open /\ ~armed /\ expiries < MaxExpiries
  /\ armed' = TRUE /\ expiries' = expiries + 1
  /\ UNCHANGED <<world, open, selected, commands>>

ConfirmReset ==
  /\ armed /\ Act(ResetMission(world))
  /\ armed' = FALSE
  /\ UNCHANGED <<open, selected, expiries>>

ConfirmExpires ==
  /\ expiries > 0 /\ expiries' = expiries - 1
  /\ armed' = FALSE
  /\ UNCHANGED <<world, open, selected, commands>>
-----------------------------------------------------------------------------
Next ==
  \/ \E demo \in BOOLEAN : Launch(demo)
  \/ Open \/ Leave \/ TimerTicks
  \/ \E i \in DOMAIN world.store.events : Replay(world.store.events[i])
  \/ Replay(NoEvent)
  \/ \E cell \in FireCells : ClickFire(cell)
  \/ \E cell \in MountainCells : ClickMountain(cell) \/ ClickRemoveMountain(cell)
  \/ \E cell \in ResponderCells : ClickResponder(cell)
  \/ \E cell \in ControlCells : ClickMissionControl(cell)
  \/ \E cell \in Grid : ClickDispatch(cell) \/ ClickSelect(cell)
  \/ \E r \in world.responders : ToggleRow(r)
  \/ \E f \in world.fires : Go(f)
  \/ ArmReset \/ ConfirmReset \/ ConfirmExpires

Spec == Init /\ [][Next]_vars
-----------------------------------------------------------------------------
(* The store agrees with the mock after every command and every tick, by   *)
(* events alone since its snapshot: terrain, fires, mission control and    *)
(* all of a responder except the assignment and path that a stand-down     *)
(* takes away without an event.                                            *)
StoreAgreesWithMock ==
  open =>
    /\ [Live EXCEPT !.responders = << >>] = [Mission(world) EXCEPT !.responders = << >>]
    /\ DOMAIN Live.responders = world.responders
    /\ \A r \in world.responders :
         LET row == world.heap.responders[r]
             shown == Live.responders[r]
         IN  row = IF row.path = NoPath
                   THEN [shown EXCEPT !.assigned_fire = NoFire, !.path = NoPath] ELSE shown

(* No mountain is raised on a fire that burns.  The mock does not test for *)
(* it: the grid does, on what it displays, and the replay lock keeps a     *)
(* frame of the past from being what it tests.                             *)
FiresStandClear ==
  \A f \in world.fires : LET fire == world.heap.fires[f]
                         IN  fire.status # "extinguished" => fire.at \notin world.mountains

(* A crew fights a fire that burns where it stands, and none is left       *)
(* fighting when the fire is put out by others or a responder is sent on.  *)
FightersAtWork ==
  \A r \in world.responders :
    LET row == world.heap.responders[r]
    IN  row.status = "fighting_fire" =>
          /\ row.assigned_fire \in world.fires
          /\ LET fire == world.heap.fires[row.assigned_fire]
             IN  fire.at = row.at /\ fire.status = "active"

(* Whatever moved last, responder, terrain or mission control, the signal  *)
(* status is the line of sight now.                                        *)
SignalsAreCurrent ==
  \A r \in world.responders :
    LET row == world.heap.responders[r]
    IN  row.signal_status = IF Sees(world.control, row.at, world.mountains)
                            THEN "connected" ELSE "blocked"

(* The world of the mock keeps in order after any clicks, ticks and expiry *)
(* of messages: fires, crews and signals.                                  *)
MockWorldSound == FiresStandClear /\ FightersAtWork /\ SignalsAreCurrent

(* What the grid and the fire panel show of the mission now is so: a route *)
(* leads from where a responder is to a fire that burns, a ray of a        *)
(* responder in contact crosses no mountain, a cell picks a responder only *)
(* where one is drawn.  A fire, mountain or responder tool whose preview   *)
(* is valid has an effect, but for a fire on a burning cell; the dispatch  *)
(* tool has one over a fire while a responder of the mission is selected   *)
(* (over a responder its click selects, and with none selected it only     *)
(* clears the selection, though the preview is valid).  The crew on the    *)
(* scene takes from a fire what the panel says, as many responders are     *)
(* dark as the head-up display counts, and the fires it counts are those   *)
(* with a ring left.  (Nothing is said of a frame of the past: it is not   *)
(* always a mission that was, for it shows an object the mock still shares *)
(* as that object is now.)                                                 *)
RoutesTrue ==
  \A r \in DOMAIN Live.responders :
    LET row == Live.responders[r]
        route == Remaining(row)
        fire == world.heap.fires[row.assigned_fire]
    IN  HasRoute(row) => /\ Head(route) = world.heap.responders[r].at
                         /\ Last(route) = fire.at /\ Burning(fire)

RaysTrue ==
  \A r \in DOMAIN Live.responders :
    LET row == Live.responders[r]
    IN  ~Blocked(row) => Sees(Live.control, RayTarget(row), Live.mountains)

PicksTrue ==
  \A cell \in Grid : \A r \in RespondersAt(Live, cell) : cell \in Markers(Live.responders[r])

PreviewValid(tool, cell) == ~Locked /\ Valid(tool, Clicked(cell))

PreviewsTrue ==
  /\ \A cell \in FireCells :
       PreviewValid("fire", cell) /\ Clicked(cell).fire = 0 => PlaceFire(world, cell) # world
  /\ \A cell \in MountainCells :
       /\ PreviewValid("mountain", cell) => PlaceMountain(world, cell) # world
       /\ PreviewValid("remove_mountain", cell) => RemoveMountain(world, cell) # world
  /\ \A cell \in ResponderCells :
       PreviewValid("responder", cell) => CreateResponder(world, cell) # world
  /\ \A cell \in Grid :
       /\ PreviewValid("dispatch", cell) /\ Clicked(cell).responder = 0
       /\ selected \in world.responders
       => DispatchResponder(world, selected, Clicked(cell).fire) # world

RatesTrue ==
  \A f \in DOMAIN Live.fires :
    Burning(Live.fires[f]) =>
      ApplyFire(world, f).heap.fires[f].intensity
        = Max({0, Live.fires[f].intensity - RateShown(Live, f)})

FiguresTrue ==
  /\ Stats(Live).noSignal
       = Quantify(world.responders, LAMBDA r :
           ~Sees(world.control, world.heap.responders[r].at, world.mountains))
  /\ Stats(Live).fires = Quantify(DOMAIN Live.fires, LAMBDA f : FireMark(Live.fires[f]) > 0)

GridTellsTruth ==
  open =>
    /\ RoutesTrue /\ RaysTrue /\ PicksTrue /\ PreviewsTrue
    /\ RatesTrue /\ FiguresTrue
=============================================================================
