-------------------------------- MODULE Pages --------------------------------
(***************************************************************************)
(* One page of apps/web in one browser tab, against the server: how it     *)
(* loads what it shows, edits it, and follows the user's selection (a      *)
(* branch, a court, a filter, a search word, a report's period).           *)
(*                                                                         *)
(* All list, report and settings pages are written by hand in the same     *)
(* few ways and differ in which: what they do on a change of selection,    *)
(* with an old answer, when a form takes its values, what is done after a  *)
(* save.  Module WebPages describes each page and each dialog by these      *)
(* traits; this module is what the traits mean.                            *)
(*                                                                         *)
(* For a selection the server holds one item of two fields: what a form    *)
(* changes and what goes along with it.                                    *)
(***************************************************************************)
EXTENDS Integers, Sequences, FiniteSets

CONSTANTS
    Key,        \* the values the selection takes
    Screens,    \* the pages: [view, editor], of Views and Editors
    MaxAsks,    \* bound of the list requests under way together
    MaxPosts,   \* bound of the saves under way together
    MaxActs     \* bound of what the user does

ASSUME PagesAssumption == MaxAsks \in Nat \ {0} /\ MaxPosts \in Nat \ {0} /\ MaxActs \in Nat

Field == {"f", "g"}
Item == [Field -> 0..1]

\* How a page loads:
\*   follows   the selection can change while the page is open
\*   restores  the selection is first "all branches", then the stored branch
\*   clears    what is shown goes away when the selection changes
\*   drops     an answer that a newer selection has overtaken is dropped
\*   waits     a request goes out only when the selection has rested
\*   polls     the list is asked for again from time to time
\*   failed    a failed request leaves the list, empties it, or is shown as if it
\*             were one, which takes the page down
Views == [follows: BOOLEAN, restores: BOOLEAN, clears: BOOLEAN, drops: BOOLEAN,
          waits: BOOLEAN, polls: BOOLEAN, failed: {"keeps", "empties", "breaks"}]

Told == {"saved", "partly", "failed"}

\* How it saves:
\*   starts    the form takes its values when its row is mounted, when it is
\*             opened ("renews" if also when the row changes), or from the answer
\*             that is shown; that of a new row is "blank" when it is opened, or is
\*             "kept" with the page, its branch a field of it, or its place is a
\*             "cell" of what is shown; a "click" has no form
\*   names     the request names the selection, an item of the selection, or
\*             the item alone
\*   once      the button is disabled while a save is under way
\*   then      the list is asked for again, takes the answer in, takes it in
\*             whatever it shows, was changed ahead of the answer (and a button
\*             sends all of it once more), stays as it is
\*   gone      the list is asked for again also when the row turns out to be gone
\*   parts     requests of one save, and what is told when a later one fails
Editors == [starts: {"mount", "open", "renews", "answer", "blank", "kept", "cell", "click", "none"},
            names: {"selection", "scoped", "item"}, once: BOOLEAN, gone: BOOLEAN,
            then: {"reloads", "patches", "appends", "guessed", "stays"},
            parts: {1, 2}, partial: SUBSET Told]

ASSUME ScreensAssumption == Screens \subseteq [view: Views, editor: Editors]

VARIABLES
    screen,
    sel,        \* the selection
    restored,   \* the stored branch has been selected
    timer,      \* a request waits for the selection to rest
    rows,       \* shown: Nothing, or [of: whose item, val: its fields]
    form,       \* Nothing, or [of, val, typed: fields changed by the user, open]
    asks,       \* list requests under way, in the order asked
    posts,      \* saves under way, in the order clicked
    db,         \* the server's items
    down,       \* the page has been taken down
    told,       \* the messages after the last save
    done,       \* history: parts that were carried out of the save it is about
    strayed,    \* history: a new row was taken in where another item's are shown
    acts,       \* what the user did, counted (bound)
    hasty,      \* history: the user acted on a page that was at work or behind
    behind,     \* history: the last list request failed or was overtaken
    crossed,    \* history: a save stored in one item what was read from another
    reverted    \* history: a save changed a field the user did not

user == <<acts, hasty>>
shown == <<rows, form, behind, down>>
chosen == <<sel, restored, timer>>
message == <<told, done, strayed>>
served == <<db, crossed, reverted>>
pageVars == <<screen, chosen, shown, asks, posts, message, served, user>>

view == screen.view
editor == screen.editor
Nothing == [of |-> "nothing"]

Row == [of: Key, val: Item]
Form == [of: Key, val: Item, typed: SUBSET Field, open: BOOLEAN]
Ask == [of: Key, at: {"asked", "failed"}, last: BOOLEAN] \cup
       [of: Key, at: {"read"}, last: BOOLEAN, val: Item]
SaveRequest == [to: Key, of: Key, val: Item, sends: SUBSET Field, typed: SUBSET Field,
         at: {"sent", "ok", "refused"}, done: 0..2, before: Row, key: Key]

\* Nothing is left open or under way that the page's traits have no place for.
PageTypeOK ==
    /\ screen \in Screens /\ sel \in Key
    /\ restored \in BOOLEAN /\ (~restored => view.restores)
    /\ timer \in BOOLEAN /\ (timer => view.waits)
    /\ rows \in Row \cup {Nothing} /\ form \in Form \cup {Nothing}
    /\ editor.starts \in {"click", "none"} => form = Nothing
    /\ Len(asks) <= MaxAsks /\ \A i \in DOMAIN asks : asks[i] \in Ask
    /\ Len(posts) <= MaxPosts /\ \A i \in DOMAIN posts : posts[i] \in SaveRequest
    /\ editor.once => Len(posts) <= 1
    /\ db \in [Key -> Item]
    /\ told \subseteq Told /\ done \in 0..editor.parts
    /\ acts \in 0..MaxActs
    /\ {hasty, behind, crossed, reverted, down, strayed} \subseteq BOOLEAN

Quiet == asks = <<>> /\ posts = <<>> /\ ~timer /\ restored

-----------------------------------------------------------------------------
\* A request goes out; the ones before it are overtaken.
Overtaken == [i \in DOMAIN asks |-> [asks[i] EXCEPT !.last = FALSE]]
WithAsk(k) == Append(Overtaken, [of |-> k, at |-> "asked", last |-> TRUE])

PageInit ==
    /\ screen \in Screens /\ sel \in Key
    /\ restored = ~view.restores /\ timer = view.waits
    /\ rows = Nothing /\ form = Nothing
    /\ asks = IF view.waits THEN <<>> ELSE <<[of |-> sel, at |-> "asked", last |-> TRUE]>>
    /\ posts = <<>>
    /\ db \in [Key -> {[f \in Field |-> 0]}]
    /\ told = {} /\ done = 0 /\ strayed = FALSE /\ acts = 0
    /\ hasty = FALSE /\ behind = FALSE /\ down = FALSE /\ crossed = FALSE /\ reverted = FALSE

Acts == acts < MaxActs /\ acts' = acts + 1 /\ restored /\ ~down

\* Mutant: the page does not follow its selection.
SelectOnly(k) ==
    /\ sel' = k /\ timer' = FALSE
    /\ UNCHANGED <<asks, rows, form>>

\* A dialog of a row goes when the rows do; one of the page itself stays.
FormLeft == IF editor.starts = "kept" THEN form ELSE Nothing

(* The effect of a new selection: a request, or the timer of one; a timer  *)
(* already running is cancelled.                                           *)
TakeSelection(k) ==
    /\ sel' = k
    /\ timer' = view.waits
    /\ IF view.waits THEN UNCHANGED asks ELSE Len(asks) < MaxAsks /\ asks' = WithAsk(k)
    /\ IF view.clears THEN rows' = Nothing /\ form' = FormLeft ELSE UNCHANGED <<rows, form>>

(* The branch stored by an earlier visit is selected after the page has    *)
(* already asked for all branches.                                         *)
Restore(k) ==
    /\ ~restored /\ restored' = TRUE /\ ~down
    /\ IF k = sel THEN UNCHANGED <<sel, timer, asks, rows, form>> ELSE TakeSelection(k)
    /\ UNCHANGED <<screen, behind, down, posts, message, served, user>>

\* A dialog lies over the page: while it is open nothing else is reached.
Covered == form # Nothing /\ form.open /\ editor.starts # "answer"

ChangeSelection(k) ==
    /\ Acts /\ view.follows /\ k # sel /\ ~Covered
    /\ TakeSelection(k)
    /\ hasty' = (hasty \/ posts # <<>>)
    /\ UNCHANGED <<screen, restored, behind, down, posts, message, served>>

TimerFires ==
    /\ timer /\ timer' = FALSE /\ ~down
    /\ Len(asks) < MaxAsks /\ asks' = WithAsk(sel)
    /\ UNCHANGED <<screen, sel, restored, shown, posts, message, served, user>>

\* Mutant: the interval is cleared by the first answer.
PollUntilShown ==
    /\ view.polls /\ restored /\ ~down /\ rows = Nothing /\ Len(asks) < MaxAsks
    /\ asks' = WithAsk(sel)
    /\ UNCHANGED <<screen, chosen, shown, posts, message, served, user>>

Poll ==
    /\ view.polls /\ restored /\ ~down /\ Len(asks) < MaxAsks
    /\ asks' = WithAsk(sel)
    /\ UNCHANGED <<screen, chosen, shown, posts, message, served, user>>

(* The API reads, or the request fails. *)
Read(i) ==
    /\ asks[i].at = "asked"
    /\ \/ asks' = [asks EXCEPT ![i] = [of |-> @.of, at |-> "read", last |-> @.last, val |-> db[@.of]]]
       \/ asks' = [asks EXCEPT ![i].at = "failed"]
    /\ UNCHANGED <<screen, chosen, shown, posts, message, served, user>>

Without(s, i) == [j \in 1..(Len(s) - 1) |-> IF j < i THEN s[j] ELSE s[j + 1]]

\* What new rows do to a form: the form of a settings page is what was
\* answered, that of a row goes with the row, one that is mounted with its row
\* takes the values of the first.
FormAfter(r) ==
    LET fresh(open) == [of |-> r.of, val |-> r.val, typed |-> {}, open |-> open]
        kept == form # Nothing /\ form.of = r.of
    IN CASE editor.starts = "answer" -> fresh(TRUE)
         [] editor.starts = "mount" /\ ~kept -> fresh(FALSE)
         [] editor.starts = "renews" /\ kept -> fresh(TRUE)
         [] editor.starts \in {"open", "renews"} /\ ~kept -> Nothing
         [] OTHER -> form

Drops(a) == view.drops /\ ~a.last

(* An answer comes; whether it is still the answer to the selection is     *)
(* asked only by the pages that drop overtaken ones.                       *)
Arrive(i) ==
    LET a == asks[i] IN
    /\ a.at # "asked" /\ ~down
    /\ asks' = Without(asks, i)
    /\ \/ /\ Drops(a)
          /\ UNCHANGED shown
       \/ /\ ~Drops(a) /\ a.at = "read" /\ UNCHANGED down
          /\ rows' = [of |-> a.of, val |-> a.val]
          /\ form' = FormAfter([of |-> a.of, val |-> a.val])
          /\ behind' = ~a.last
       \/ /\ ~Drops(a) /\ a.at = "failed"
          /\ IF view.failed = "keeps" THEN UNCHANGED <<rows, form>>
             ELSE rows' = Nothing /\ form' = FormLeft
          /\ behind' = TRUE /\ down' = (view.failed = "breaks")
    /\ UNCHANGED <<screen, chosen, posts, message, served, user>>

-----------------------------------------------------------------------------
Blank == [f \in Field |-> 0]

(* The dialog for a new row is mounted when the branches have come, for the *)
(* one that is selected then.                                              *)
Mount ==
    /\ editor.starts = "kept" /\ form = Nothing /\ restored /\ ~down
    /\ form' = [of |-> sel, val |-> Blank, typed |-> {}, open |-> FALSE]
    /\ UNCHANGED <<screen, chosen, rows, behind, down, asks, posts, message, served, user>>

\* What a dialog may open on: a new row is of the selection, or its place is
\* that of the cell that is clicked, if it is; everything else is of its row.
Opens ==
    CASE editor.starts = "blank" /\ editor.names = "selection" -> {sel}
      [] editor.starts = "cell" -> {sel, rows.of}
      [] OTHER -> {rows.of}

FormOpened(k) == [of |-> k, val |-> rows.val, typed |-> {}, open |-> TRUE]

Mounted == editor.starts \in {"mount", "kept"}

(* A dialog opens on the row that is shown, or on the list for a new one.  *)
(* (The buttons that need no list are there before it has come: left out.)  *)
Open ==
    /\ Acts /\ editor.starts \notin {"answer", "click", "none"} /\ rows # Nothing
    /\ \/ /\ form # Nothing /\ ~form.open
          /\ form' = [form EXCEPT !.open = TRUE, !.typed = {}]
       \/ /\ ~Mounted /\ form = Nothing
          /\ \E k \in Opens : form' = FormOpened(k)
    /\ hasty' = (hasty \/ ~Quiet \/ behind)
    /\ UNCHANGED <<screen, chosen, rows, behind, down, asks, posts, message, served>>

(* The branch of a new row is chosen in its form. *)
ChooseBranch(k) ==
    /\ Acts /\ editor.starts = "kept" /\ form # Nothing /\ form.open /\ k # form.of
    /\ form' = [form EXCEPT !.of = k]
    /\ UNCHANGED <<screen, chosen, rows, behind, down, asks, posts, message, served, hasty>>

Type(f) ==
    /\ Acts /\ form # Nothing /\ form.open /\ f \notin form.typed
    /\ form' = [form EXCEPT !.val[f] = 1 - @, !.typed = @ \cup {f}]
    /\ UNCHANGED <<screen, chosen, rows, behind, down, asks, posts, message, served, hasty>>

\* Mutant: every dialog stays mounted with what was typed into it.
ClosedMounted == [form EXCEPT !.open = FALSE]

Closed == IF Mounted THEN [form EXCEPT !.open = FALSE] ELSE Nothing

\* A dialog is closed without saving; one that stays mounted keeps what was typed.
Abandon ==
    /\ Covered /\ ~down
    /\ form' = Closed
    /\ UNCHANGED <<screen, chosen, rows, behind, down, asks, posts, message, served, user>>

Target(of) == IF editor.names = "item" THEN of ELSE sel

NewPost(of, val, sends, typed) ==
    [to |-> Target(of), of |-> of, val |-> val, sends |-> sends, typed |-> typed,
     at |-> "sent", done |-> 0, before |-> rows, key |-> sel]

\* Mutant: the button is not disabled while a save is under way.
MayAlways == Len(posts) < MaxPosts

MayPost == Len(posts) < MaxPosts /\ (editor.once => posts = <<>>)

\* The form of a row is sent whole, whatever of it was changed; a new row
\* changes nothing else.
Sends ==
    CASE editor.starts \in {"blank", "cell"} -> form.typed
      [] editor.starts = "kept" -> {f \in Field : form.val[f] # Blank[f]}
      [] OTHER -> Field

Save ==
    /\ Acts /\ form # Nothing /\ form.open /\ rows # Nothing /\ MayPost
    /\ posts' = Append(posts, NewPost(form.of, form.val, Sends, form.typed))
    /\ hasty' = (hasty \/ ~Quiet \/ behind)
    /\ UNCHANGED <<screen, chosen, shown, asks, message, served>>

\* One field of the row is changed by a click: the other is not sent.
Click(f) ==
    /\ Acts /\ editor.starts = "click" /\ rows # Nothing /\ MayPost
    /\ LET new == [rows.val EXCEPT ![f] = 1 - @] IN
       /\ posts' = Append(posts, NewPost(rows.of, new, {f}, {f}))
       /\ rows' = IF editor.then = "guessed" THEN [rows EXCEPT !.val = new] ELSE rows
    /\ hasty' = (hasty \/ ~Quiet \/ behind)
    /\ UNCHANGED <<screen, chosen, form, behind, down, asks, message, served>>

(* The button under the settings sends all of them as they are shown. *)
ConfirmAll ==
    /\ Acts /\ editor.then = "guessed" /\ rows # Nothing /\ MayPost
    /\ \A i \in DOMAIN posts : posts[i].sends # Field
    /\ posts' = Append(posts, NewPost(rows.of, rows.val, Field, {}))
    /\ hasty' = (hasty \/ ~Quiet \/ behind)
    /\ UNCHANGED <<screen, chosen, shown, asks, message, served>>

\* Mutant: the API does not hold the item against the selection it is named under.
FoundAnywhere(p) == TRUE

\* A handler that is given a branch or court and an item finds the item of it.
Found(p) == editor.names = "scoped" => p.of = p.to

(* The API carries a part of the save out, or refuses it. *)
Apply(i) ==
    LET p == posts[i]
        stored == [f \in Field |-> IF f \in p.sends THEN p.val[f] ELSE db[p.to][f]]
    IN
    /\ p.at = "sent"
    /\ \/ /\ Found(p)
          /\ posts' = [posts EXCEPT ![i].at = "ok", ![i].done = @ + 1]
          /\ IF p.done = 0
             THEN /\ db' = [db EXCEPT ![p.to] = stored]
                  /\ crossed' = (crossed \/ p.of # p.to)
                  /\ reverted' = (reverted \/ \E f \in Field \ p.typed : stored[f] # db[p.to][f])
             ELSE UNCHANGED served
       \/ /\ posts' = [posts EXCEPT ![i].at = "refused"]
          /\ UNCHANGED served
    /\ UNCHANGED <<screen, chosen, shown, asks, message, user>>

\* The row as the answer has it: the fields sent, the others as they are shown.
RowsTaken(p) ==
    IF rows = Nothing \/ (rows.of # p.of /\ editor.then = "patches") THEN rows
    ELSE [rows EXCEPT !.val = [f \in Field |-> IF f \in p.sends THEN p.val[f] ELSE rows.val[f]]]

\* What becomes of the form: a dialog closes, the one that is kept is emptied
\* but for its branch, the form of a settings page takes the answer in or stays
\* as it is, with what was sent no longer unsaved.
FormSaved(p) ==
    IF form = Nothing THEN Nothing
    ELSE CASE editor.starts = "answer" /\ editor.then = "patches" ->
                [of |-> p.of, val |-> p.val, typed |-> {}, open |-> TRUE]
           [] editor.starts = "answer" /\ editor.then # "patches" ->
                [form EXCEPT !.typed = {f \in @ : form.val[f] # p.val[f]}]
           [] editor.starts = "kept" ->
                [form EXCEPT !.val = Blank, !.typed = {}, !.open = FALSE]
           [] editor.starts \notin {"answer", "kept"} /\ form.open -> Closed
           [] OTHER -> form

(* What is shown after a save: the reload is of the selection the save was *)
(* clicked under.                                                          *)
Show(p) ==
    \/ /\ editor.then = "reloads"
       /\ Len(asks) < MaxAsks /\ asks' = WithAsk(p.key)
       /\ UNCHANGED rows
    \/ /\ editor.then \in {"patches", "appends"}
       /\ rows' = RowsTaken(p)
       /\ UNCHANGED asks
    \/ /\ editor.then \in {"guessed", "stays"}
       /\ UNCHANGED <<rows, asks>>

\* Mutant: the failure of a later part is not told.
SavedWhateverFollows(p) == IF p.at = "refused" /\ p.done = 0 THEN {"failed"} ELSE {"saved"}

Verdict(p) ==
    CASE p.at = "ok" -> {"saved"}
      [] p.at = "refused" /\ p.done = 0 -> {"failed"}
      [] OTHER -> editor.partial

(* The next part goes out when the one before it is answered. *)
NextPart(i) ==
    /\ posts[i].at = "ok" /\ posts[i].done < editor.parts
    /\ posts' = [posts EXCEPT ![i].at = "sent"]
    /\ UNCHANGED <<screen, chosen, shown, asks, message, served, user>>

CarriedOut(p) == p.done > 0 /\ Verdict(p) # {"failed"}

(* The save is over: messages, the form closes unless it is the page       *)
(* itself, and the list is brought up to date if anything was carried out, *)
(* or if the row is gone and the page asks for the list then.  What was     *)
(* changed ahead of a refusal is put back as it was.                       *)
Saved(i) ==
    LET p == posts[i] IN
    /\ \/ p.at = "ok" /\ p.done = editor.parts
       \/ p.at = "refused"
    /\ posts' = Without(posts, i)
    /\ told' = Verdict(p) /\ done' = p.done
    /\ \/ /\ CarriedOut(p) \/ (p.done = 0 /\ editor.gone)
          /\ Show(p)
          /\ form' = FormSaved(p)
          /\ strayed' = (strayed \/ (editor.then = "appends" /\ rows # Nothing /\ rows.of # p.of))
       \/ /\ ~CarriedOut(p)
          /\ rows' = IF editor.then = "guessed" /\ p.sends # Field THEN p.before ELSE rows
          /\ UNCHANGED <<form, asks, strayed>>
    /\ UNCHANGED <<screen, chosen, behind, down, served, user>>

PageNext ==
    \/ \E k \in Key : Restore(k) \/ ChangeSelection(k) \/ ChooseBranch(k)
    \/ TimerFires \/ Poll
    \/ \E i \in DOMAIN asks : Read(i) \/ Arrive(i)
    \/ Mount \/ Open \/ Abandon \/ Save \/ ConfirmAll
    \/ \E f \in Field : Type(f) \/ Click(f)
    \/ \E i \in DOMAIN posts : Apply(i) \/ NextPart(i) \/ Saved(i)

\* Requests are answered and the interval fires; a user does nothing in particular.
PageFairness ==
    /\ WF_pageVars(\E i \in DOMAIN asks : Read(i) \/ Arrive(i))
    /\ WF_pageVars(Poll) /\ WF_pageVars(\E k \in Key : Restore(k))

PageSpec == PageInit /\ [][PageNext]_pageVars /\ PageFairness

-----------------------------------------------------------------------------
\* What the user sees, and what of it is unsaved.
Seen == IF editor.starts = "answer" THEN form ELSE rows
Unsaved == IF editor.starts = "answer" /\ form # Nothing THEN form.typed ELSE {}

(* A page that has come to rest shows the server's item of its selection,  *)
(* the user's own saves included, unless its last request failed or was    *)
(* overtaken or the user did not wait for it: what every page promises     *)
(* that patches its list instead of asking again.  (Left out: dialogs      *)
(* whose save the list does not hear of, the page that polls, whose        *)
(* request may pass a save and is made good by the next, and the list that  *)
(* has taken in a new court of another branch.)                            *)
AtRest == Quiet /\ ~hasty /\ ~behind /\ Seen # Nothing /\ ~view.polls
              /\ (editor.then # "stays" \/ editor.starts = "answer")

Current == Seen.of = sel /\ \A f \in Field \ Unsaved : Seen.val[f] = db[sel][f]

ScreenTellsTheTruth == AtRest /\ ~strayed => Current

(* As the property before, of the list of courts too: not so, a court that *)
(* is added to a branch that is not shown is shown all the same.           *)
AddedWhereItIsShown == AtRest => Current

(* The dialog for a new court opens for the branch that is selected: not   *)
(* so, it opens for the branch that was selected when the page was opened, *)
(* or that was last chosen in it.                                          *)
OpensForTheSelection ==
    [][editor.starts = "kept" /\ Open => form'.of = sel]_pageVars

(* For a user who waits for the page nothing read of one branch or day is  *)
(* saved to another; nor for one who does not, whatever is overtaken,      *)
(* except by the two settings tabs whose form is of the answer and whose   *)
(* save names the selection, and by the quick booking, whose cell may be   *)
(* of the day shown before.                                                *)
NothingCrosses ==
    crossed =>
        /\ hasty
        /\ \/ editor.starts = "answer" /\ editor.names = "selection" /\ ~view.drops
           \/ editor.starts = "cell" /\ editor.names = "selection" /\ ~view.clears

(* A user who waits for the page saves what they changed and nothing else, *)
(* except in the dialogs that keep what was typed into them and abandoned. *)
OnlyEditsAreSaved == reverted => hasty \/ Mounted

(* The messages after a save say what became of it: that it is saved and   *)
(* nothing else only when all of it is, that it failed only when none of   *)
(* it is carried out.  (The account tab tells of a refused password and    *)
(* not of the profile saved before it.)                                    *)
MessagesAreTrue ==
    /\ told = {"saved"} => done = editor.parts
    /\ "partly" \in told => done \in 1..(editor.parts - 1)
    /\ told = {"failed"} => done = 0 \/ editor.partial = {"failed"}

(* A page that polls shows its selection's item as the server has it again *)
(* and again, whatever was overtaken or passed by a save, as long as its   *)
(* requests do not fail for ever.                                          *)
ScreenCatchesUp ==
    view.polls /\ ~[]<>(\E i \in DOMAIN asks : asks[i].at = "failed")
        => []<>(rows # Nothing /\ rows.of = sel /\ rows.val = db[sel])
=============================================================================
