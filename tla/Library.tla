------------------------------ MODULE Library ------------------------------
(***************************************************************************)
(* The app library and the macOS launchers: runtime.rs's library, icon and *)
(* launcher commands and library_ui.rs.  The list of the guest's apps is   *)
(* cached in app-library.tsv; a launcher is an .app bundle, named for the  *)
(* app's display name, whose resource files tell vbox-client what to       *)
(* launch; vbox.app is compiled from a Swift source the CLI carries.       *)
(***************************************************************************)
EXTENDS Hosts

CONSTANTS
    Apps,         \* apps of the guest, each an instance of its own
    Lists,        \* bound: the lists of apps the guest may answer with
    NameOf(_),    \* an app's display name
    MaxUpgrades   \* bound: new versions of the CLI

ASSUME LibraryAssumption ==
    /\ Apps \subseteq Insts \ {Default} /\ Lists \subseteq SUBSET Apps
    /\ MaxUpgrades \in Nat

Names == {NameOf(a) : a \in Apps}

VARIABLES
    cache,     \* app-library.tsv: <<>> or the apps it lists
    icons,     \* apps with a cached icon
    bundle,    \* the launcher bundles by name
    swift,     \* the version of the Swift source in the CLI
    src, bin,  \* run/VBoxLibrary.swift, the version the binary is built from
    broken     \* a compilation failed

libraryVars == <<cache, icons, bundle, swift, src, bin, broken>>
appVars == <<swift, src, bin, broken>>
keep == <<mem, file, tmp, others, stackVars, hostVars>>

NoBundle == [id |-> Default, inst |-> Default, port |-> 0, there |-> FALSE]
Listed == IF cache = <<>> THEN {} ELSE cache[1]

-----------------------------------------------------------------------------
(* The cache.                                                              *)

\* refresh_app_library: the guest's list replaces the cache.
refresh_app_library(t) ==
    \/ \E S \in Lists : cache' = <<S>> /\ Go(t)
    \/ Bail(t) /\ UNCHANGED cache

\* Most commands fetch the list only if there is none.
NeedCache(t) ==
    /\ At(t, "cache")
    /\ IF cache # <<>> THEN Go(t) /\ UNCHANGED cache ELSE refresh_app_library(t)
    /\ UNCHANGED <<keep, loc, icons, bundle, appVars>>

Refresh(t) ==
    /\ At(t, "refresh") /\ refresh_app_library(t)
    /\ UNCHANGED <<keep, loc, icons, bundle, appVars>>

\* library_ui only warns when the list cannot be fetched.
TryCache(t) ==
    /\ At(t, "try-cache") /\ Go(t)
    /\ cache' \in IF cache = <<>> THEN {cache} \cup {<<S>> : S \in Lists} ELSE {cache}
    /\ UNCHANGED <<keep, loc, icons, bundle, appVars>>

\* The argument is an app's id; no id or name contains another.
find_app_record(t) ==
    /\ At(t, "row")
    /\ IF I(t) \in Listed THEN Go(t) /\ loc' = [loc EXCEPT ![t].rows = {I(t)}]
       ELSE Bail(t) /\ UNCHANGED loc
    /\ UNCHANGED <<keep, libraryVars>>

\* The rows the filters select; a command that selects none fails.
selected(t) ==
    /\ At(t, "rows")
    /\ \E S \in SUBSET Listed :
          IF S = {} THEN Bail(t) /\ UNCHANGED loc
          ELSE Go(t) /\ loc' = [loc EXCEPT ![t].rows = S]
    /\ UNCHANGED <<keep, libraryVars>>

\* The icons that rsvg-convert, qlmanage, sips and iconutil can convert;
\* the others are left out.
convert_guest_icon_to_png(rows) == SUBSET rows

fetch_guest_icons(t) ==
    /\ At(t, "icons")
    /\ \/ \E S \in convert_guest_icon_to_png(Listed) : icons' = icons \cup S /\ Go(t)
       \/ Listed # {} /\ Bail(t) /\ UNCHANGED icons
    /\ UNCHANGED <<keep, loc, cache, bundle, appVars>>

\* install_apps only warns when they cannot be fetched.
TryIcons(t) ==
    /\ At(t, "try-icons") /\ Go(t)
    /\ icons' \in {icons \cup S : S \in convert_guest_icon_to_png(Listed)}
    /\ UNCHANGED <<keep, loc, cache, bundle, appVars>>

-----------------------------------------------------------------------------
(* The launchers.                                                          *)

\* The loop over the rows; build_launcher_app begins with the directories,
\* the icon and the instance's port.
NextBundle(t) ==
    /\ At(t, "bundle")
    /\ IF loc[t].rows = {} THEN Go(t) /\ UNCHANGED <<loc, bundle>>
       ELSE \E a \in loc[t].rows :
              /\ Jump(t, instance_context \o <<"bundle.app", "bundle.context", "bundle">>)
              /\ loc' = [loc EXCEPT ![t].inst = a, ![t].port = Base, ![t].rows = @ \ {a}]
              /\ bundle' = [bundle EXCEPT ![NameOf(a)].there = TRUE]
    /\ UNCHANGED <<keep, cache, icons, appVars>>

\* AppID.txt, AppName.txt, Exec.txt and Argv.b64.
WriteApp(t) ==
    /\ At(t, "bundle.app") /\ Go(t)
    /\ bundle' = [bundle EXCEPT ![NameOf(I(t))].id = I(t)]
    /\ UNCHANGED <<keep, loc, cache, icons, appVars>>

\* Port.txt and Instance.txt, after the paths and the guest.
WriteContext(t) ==
    /\ At(t, "bundle.context") /\ Go(t)
    /\ bundle' = [bundle EXCEPT ![NameOf(I(t))].inst = I(t),
                                ![NameOf(I(t))].port = loc[t].port]
    /\ UNCHANGED <<keep, loc, cache, icons, appVars>>

remove_launcher_app(t) ==
    /\ At(t, "unbundle")
    /\ IF loc[t].rows = {} THEN Go(t) /\ UNCHANGED <<loc, bundle>>
       ELSE \E a \in loc[t].rows :
              /\ loc' = [loc EXCEPT ![t].rows = @ \ {a}]
              /\ bundle' = [bundle EXCEPT ![NameOf(a)] = NoBundle]
              /\ UNCHANGED todo
    /\ UNCHANGED <<keep, cache, icons, appVars>>

\* What a launcher reads from its bundle.
bundle_launch_args(n) == bundle[n].there /\ bundle[n].id # Default

-----------------------------------------------------------------------------
(* vbox.app.                                                               *)

write_if_changed(t) ==
    /\ At(t, "swift") /\ Go(t)
    /\ loc' = [loc EXCEPT ![t].flag = src # swift] /\ src' = swift
    /\ UNCHANGED <<keep, cache, icons, bundle, swift, bin, broken>>

Compile(t, needed) ==
    /\ At(t, "swiftc")
    /\ \/ ~needed /\ Go(t) /\ UNCHANGED <<bin, broken>>
       \/ needed /\ Go(t) /\ bin' = src /\ UNCHANGED broken
       \/ needed /\ Bail(t) /\ broken' = TRUE /\ UNCHANGED bin
    /\ UNCHANGED <<keep, loc, cache, icons, bundle, swift, src>>

\* Mutant: the binary is built once.
swiftc_once(t) == Compile(t, bin = 0)

\* swiftc, if the source has changed or there is no binary.
swiftc(t) == Compile(t, loc[t].flag \/ bin = 0)

\* The resource files, the icon, Info.plist, codesign; open.
Finish(t) ==
    /\ \E s \in {"resources", "sign"} : At(t, s)
    /\ Go(t) /\ UNCHANGED <<keep, loc, libraryVars>>

Open(t) ==
    /\ At(t, "open") /\ Run(t)
    /\ UNCHANGED <<keep, loc, libraryVars>>

-----------------------------------------------------------------------------
(* The commands.                                                           *)

build_main_library_app == <<"resources", "swift", "swiftc", "sign">>
library_ui == <<"try-cache">> \o build_main_library_app \o <<"open">>
install_apps == <<"cache", "build">> \o build_main_library_app \o <<"try-icons", "rows", "bundle">>

LibraryCommands ==
    [library |-> <<"cache">>, refresh |-> <<"refresh">>, ui |-> library_ui,
     icons |-> <<"cache", "icons">>, apps |-> install_apps,
     launcher |-> <<"cache", "row", "bundle">>, removeapps |-> <<"cache", "rows", "unbundle">>,
     removelauncher |-> <<"cache", "row", "unbundle">>]

LibraryStep(t) ==
    \/ NeedCache(t) \/ Refresh(t) \/ TryCache(t) \/ find_app_record(t) \/ selected(t)
    \/ fetch_guest_icons(t) \/ TryIcons(t)
    \/ NextBundle(t) \/ WriteApp(t) \/ WriteContext(t) \/ remove_launcher_app(t)
    \/ write_if_changed(t) \/ swiftc(t) \/ Finish(t) \/ Open(t)

(* A CLI with another Swift source is installed.                           *)
Upgrade ==
    /\ Quiet /\ swift <= MaxUpgrades /\ swift' = swift + 1
    /\ UNCHANGED <<cliVars, stackVars, hostVars, cache, icons, bundle, src, bin, broken>>

LibraryInit ==
    /\ cache = <<>> /\ icons = {}
    /\ bundle = [n \in Names |-> NoBundle]
    /\ swift = 1 /\ src = 0 /\ bin = 0 /\ broken = FALSE
=============================================================================
