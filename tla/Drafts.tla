-------------------------------- MODULE Drafts --------------------------------
(***************************************************************************)
(* What text a platform gets.  The model writes a draft, TranslateAgent    *)
(* has it translated, `ima dry-run' previews it, and PublishAgent adapts   *)
(* it to each platform and hands it to a channel, which adds to it again   *)
(* (core/src/agents/draft.ts, translate.ts, publish.ts, schedule.ts;       *)
(* core/src/translate.ts, platform-adapter.ts, dry-run.ts; the requests of *)
(* publisher/src/real-channels.ts).                                        *)
(*                                                                         *)
(* A text is what it was put together from, in order, and how long it is   *)
(* now, in UTF-16 units; "glue" is what is put in between.                 *)
(***************************************************************************)
EXTENDS Sorting, Sequences

CONSTANTS
  Themes,       \* bound: what the ideas are about: sequences of sets
  Targets,      \* translateTargets: never empty, and without the source
  Sizes,        \* bound: lengths of drafts: records [title, body]
  TagLists,     \* bound: sequences of the lengths of tags, with their #
  Answers,      \* bound: how the model answers for each locale: functions
  MaxDrafts     \* bound: times the content is drafted

source == "zh"

AnswerKinds == {"whole", "bare", "blank", "throws"}

ASSUME DraftsAssumption ==
  /\ Themes \subseteq Seq(SUBSET {"tech", "life", "hot"})
  /\ Targets \in Seq(STRING) /\ Targets # <<>> /\ source \notin Range(Targets)
  /\ Sizes \subseteq [title : Nat, body : Nat]
  /\ TagLists \subseteq Seq(Nat)
  /\ Answers \subseteq [Range(Targets) -> AnswerKinds]
  /\ MaxDrafts \in Nat

VARIABLES
  themes,    \* of the ideas of this content
  draft,     \* <<>>, or one: its version, texts, translations, overrides
  drafted,   \* how often it was drafted
  postedTo,  \* content.posts: the targets of the last publish stage that
             \* did not fail altogether
  preview,   \* what the last dry run showed: <<>>, or its version and rows
  handed     \* what the last publish stage handed to the channels

texts == <<themes, draft, drafted, postedTo, preview, handed>>

-----------------------------------------------------------------------------
(* Texts                                                                   *)

Text(of, len) == [of |-> <<of>>, len |-> len]
Glue(n) == Text("glue", n)

text ++ more == [of |-> text.of \o more.of, len |-> text.len + more.len]

(* text.slice(0, n)                                                        *)
Slice(text, n) == [text EXCEPT !.len = IF n < @ THEN n ELSE @]

(* mutant: no room is made for the suffix.                                 *)
truncate_noRoom(text, max, suffix) ==
  IF text.len <= max THEN text ELSE Slice(text, max) ++ Text("...", suffix)

truncate(text, max, suffix) ==
  IF text.len <= max THEN text ELSE Slice(text, max - suffix) ++ Text("...", suffix)

(* tags.join(' ') when each has had n more characters put before it.       *)
Joined(tags, n) ==
  IF tags = <<>> THEN Glue(0)
  ELSE Text("tags", SumFunction(tags) + n * Len(tags) + Len(tags) - 1)

-----------------------------------------------------------------------------
(* The platforms                                                           *)

maxLength ==
  [x |-> 280, xiaohongshu |-> 1000, weibo |-> 2000, bilibili |-> 5000, reddit |-> 40000,
   youtube |-> 5000]

Sites == DOMAIN maxLength

(* The body adaptForPlatform makes of a draft.                             *)
adaptForPlatform(site, d) ==
  CASE site = "x" ->
         truncate(d.body ++ Glue(2) ++ Joined(d.tags, 0), maxLength.x, 3)
    [] site = "xiaohongshu" ->
         truncate(Glue(4) ++ d.body ++ Glue(11) ++ truncate(d.body, 400, 0)
                    ++ Glue(2) ++ Joined(d.tags, 1) ++ Glue(4), maxLength.xiaohongshu, 0)
    [] site = "weibo" ->
         truncate(truncate(d.title ++ Glue(2) ++ d.body ++ Glue(2) ++ Joined(d.tags, 1),
                           maxLength.weibo, 3), maxLength.weibo, 3)
    [] site = "bilibili" ->
         truncate(Glue(1) ++ d.title ++ Glue(9) ++ d.body ++ Glue(6) ++ Text("cta", 9),
                  maxLength.bilibili, 0)
    [] site = "reddit"  -> truncate(d.body, maxLength.reddit, 3)
    [] site = "youtube" -> truncate(d.body ++ Glue(2) ++ Text("cta", 28), maxLength.youtube, 0)

(* The text of the request of a real channel, which is given the body that *)
(* was adapted, and the title and the tags of the draft.                   *)
requestText(site, d) ==
  LET body == adaptForPlatform(site, d)
  IN  CASE site = "x"       -> Slice(d.title ++ Glue(2) ++ body ++ Glue(2) ++ Joined(d.tags, 0), 280)
        [] site = "weibo"   -> d.title ++ Glue(1) ++ body
        [] site = "youtube" -> body ++ Glue(2) ++ Joined(d.tags, 0)
        [] OTHER            -> body

(* Every idea has a platform; nothing is ever meant for YouTube.           *)
pickPlatforms(about) ==
  LET found == (IF "tech" \in about THEN {"x", "reddit", "bilibili"} ELSE {})
                 \cup (IF "life" \in about THEN {"xiaohongshu"} ELSE {})
                 \cup (IF "hot" \in about THEN {"weibo"} ELSE {})
  IN  IF found = {} THEN {"x", "xiaohongshu"} ELSE found

ideaSites == UNION {pickPlatforms(themes[i]) : i \in DOMAIN themes}

(* The platforms of the ideas and those of earlier posts, each once.  In   *)
(* which order they are served does not matter here.                       *)
deriveTargets == ideaSites \cup postedTo

(* deriveDryRunTargets says of itself that it mirrors the other.           *)
deriveDryRunTargets == ideaSites \cup postedTo

(* ScheduleAgent: five minutes between one platform and the next, in the   *)
(* order of the ideas and, within one idea, of pickPlatforms.              *)
picked == [x |-> 1, reddit |-> 2, bilibili |-> 3, xiaohongshu |-> 4, weibo |-> 5]

firstIdea(site) ==
  CHOOSE i \in DOMAIN themes :
    /\ site \in pickPlatforms(themes[i])
    /\ \A j \in 1 .. i - 1 : site \notin pickPlatforms(themes[j])

servedBefore(a, b) ==
  \/ firstIdea(a) < firstIdea(b)
  \/ firstIdea(a) = firstIdea(b) /\ picked[a] < picked[b]

stagger ==
  [site \in ideaSites |-> 5 * Cardinality({other \in ideaSites : servedBefore(other, site)})]

-----------------------------------------------------------------------------
(* Translation                                                             *)

PLATFORM_LOCALE == [site \in Sites |-> IF site \in {"x", "reddit", "youtube"} THEN "en" ELSE source]

(* Each locale where it is first named.                                    *)
uniqueLocales(locales) ==
  LET first == {i \in DOMAIN locales : \A j \in 1 .. i - 1 : locales[j] # locales[i]}
      at == Sorted(first, {p \in first \X first : p[1] < p[2]})
  IN  [i \in DOMAIN at |-> locales[at[i]]]

resolveTargets == uniqueLocales(Append(Targets, source))

(* An entry says in which language its title and its body are.             *)
parseTranslation(answer, locale) ==
  [locale |-> locale, title |-> IF answer = "whole" THEN locale ELSE source, body |-> locale]

translateContent(answers) ==
  LET copy(locale) == [locale |-> locale, title |-> source, body |-> source]
      good(locale) == locale # source /\ answers[locale] \in {"whole", "bare"}
      entry(locale) == IF good(locale) THEN parseTranslation(answers[locale], locale) ELSE copy(locale)
  IN  [entries |-> [i \in DOMAIN resolveTargets |-> entry(resolveTargets[i])],
       fellBackToSource |-> {l \in Range(Targets) : ~ good(l)}]

selectForLocale(entries, preferred) ==
  LET of(locale) == {i \in DOMAIN entries : entries[i].locale = locale}
      first(is) == CHOOSE i \in is : \A j \in is : i <= j
  IN  IF of(preferred) # {} THEN entries[first(of(preferred))] ELSE entries[first(of(source))]

buildOverrides(entries) ==
  [site \in ideaSites |-> selectForLocale(entries, PLATFORM_LOCALE[site]).body]

-----------------------------------------------------------------------------
(* The content                                                             *)

DraftsInit ==
  /\ themes \in Themes
  /\ draft = <<>> /\ drafted = 0
  /\ postedTo = {} /\ preview = <<>> /\ handed = <<>>

(* The draft stage: a new draft, which knows nothing of an earlier one,    *)
(* and TranslateAgent, which never fails, for there are always targets.    *)
WriteDraft ==
  /\ drafted < MaxDrafts
  /\ drafted' = drafted + 1
  /\ \E w \in Sizes, tags \in TagLists, answers \in Answers :
       LET result == translateContent(answers)
       IN  draft' = <<[version |-> drafted', title |-> Text("title", w.title),
                       body |-> Text("body", w.body), tags |-> tags,
                       translations |-> result.entries, fellBack |-> result.fellBackToSource,
                       platformOverrides |-> buildOverrides(result.entries)]>>
  /\ UNCHANGED <<themes, postedTo, preview, handed>>

Adapted(sites) ==
  [version |-> draft[1].version,
   bodies  |-> [site \in sites |-> adaptForPlatform(site, draft[1])]]

(* `ima dry-run' saves nothing.                                            *)
DryRun ==
  /\ draft # <<>>
  /\ preview' = <<Adapted(deriveDryRunTargets)>>
  /\ UNCHANGED <<themes, draft, drafted, postedTo, handed>>

(* The publish stage.  Of its outcome only this matters: when every post   *)
(* fails, the records of the posts are dropped.                            *)
Publish ==
  /\ draft # <<>>
  /\ handed' = <<Adapted(deriveTargets)>>
  /\ \/ postedTo' = deriveTargets
     \/ UNCHANGED postedTo
  /\ UNCHANGED <<themes, draft, drafted, preview>>

DraftsNext == WriteDraft \/ DryRun \/ Publish

DraftsTypeOK ==
  /\ themes \in Themes
  /\ drafted \in 0 .. MaxDrafts
  /\ Len(draft) = (IF drafted = 0 THEN 0 ELSE 1)
  /\ postedTo \subseteq Sites
  /\ \A show \in Range(preview) \cup Range(handed) :
       show.version \in 1 .. drafted /\ DOMAIN show.bodies \subseteq Sites

-----------------------------------------------------------------------------
(* Properties                                                              *)

(* Whatever the model wrote, no text is longer than its platform takes,    *)
(* neither as adapted nor, of the channels that keep to it, as sent.  (Of  *)
(* Weibo and YouTube this is not so: their channels put the title or the   *)
(* tags to a body that may be full already.)                               *)
TextsFit ==
  \A d \in Range(draft), site \in Sites :
    /\ adaptForPlatform(site, d).len <= maxLength[site]
    /\ site \notin {"weibo", "youtube"} => requestText(site, d).len <= maxLength[site]

(* Every locale has one entry; the source stands in for a translation just *)
(* when the agent says that it fell back; and each platform of the ideas   *)
(* is offered its own language if that was asked for and did not fall back.*)
TranslationsTold ==
  \A d \in Range(draft) :
    /\ \A locale \in Range(Targets) \cup {source} :
         Cardinality({i \in DOMAIN d.translations : d.translations[i].locale = locale}) = 1
    /\ \A e \in Range(d.translations) :
         e.body = (IF e.locale \in d.fellBack THEN source ELSE e.locale)
    /\ \A site \in DOMAIN d.platformOverrides :
         LET locale == PLATFORM_LOCALE[site]
         IN  d.platformOverrides[site] =
               (IF locale \in Range(Targets) \ d.fellBack THEN locale ELSE source)

(* What a dry run shows of a draft is what the publish stage hands to the  *)
(* channels, platform by platform, although the content has posts by then; *)
(* and the schedule has a slot of its own for each of these platforms.     *)
PreviewedAsPosted ==
  \A shown \in Range(preview), posted \in Range(handed) :
    /\ shown.version = posted.version => shown.bodies = posted.bodies
    /\ DOMAIN posted.bodies \subseteq DOMAIN stagger
    /\ \A a, b \in DOMAIN posted.bodies : stagger[a] = stagger[b] => a = b

TextsAsPrepared == TextsFit /\ TranslationsTold /\ PreviewedAsPosted
=============================================================================
