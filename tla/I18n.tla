-------------------------------- MODULE I18n --------------------------------
(****************************************************************************)
(* The languages of the page (src/webui/assets/i18n.js): which one a        *)
(* browser gets, what setLang() changes, the direction of the document, and *)
(* what t() makes of a key and its values.                                  *)
(*                                                                          *)
(* A text is told by the language it is written in and by the number of its *)
(* placeholders (LanguagePacks).                                            *)
(****************************************************************************)
EXTENDS LanguagePacks, FiniteSets

CONSTANT Wishes          \* values of navigator.languages, none of them empty

\* Lists of tags, which are tuples of their parts; one list is plain English.
ASSUME WishesAssumption ==
  /\ <<<<"en", "us">>>> \in Wishes
  /\ \A list \in Wishes : list \in Seq(Seq(STRING))

VARIABLES wishes,        \* navigator.languages
          stored,        \* localStorage "nc-lang"
          curLang,
          dir            \* document.documentElement.dir, "none" when not set

i18nVars == <<wishes, stored, curLang, dir>>

NoLang == <<>>
English == <<"en", "us">>

----------------------------------------------------------------------------
(* resolveBrowserLang() *)

LANG_VARIANTS ==
  LET hant == {<<"zh", "tw">>, <<"zh", "hant">>, <<"zh", "mo">>}
      hans == {<<"zh", "sg">>, <<"zh", "hans">>}
      bare == [nb |-> <<"nb", "no">>, no |-> <<"nb", "no">>, nn |-> <<"nb", "no">>,
               id |-> <<"id", "id">>, vi |-> <<"vi", "vn">>, th |-> <<"th", "th">>]
      regions == [en |-> {"gb", "au", "ca", "nz", "za", "in"}, fr |-> {"ca", "be", "ch"},
                  de |-> {"at", "ch"}, pt |-> {"br"}, es |-> {"mx", "ar", "cl", "co"}]
      home    == [en |-> "us", fr |-> "fr", de |-> "de", pt |-> "pt", es |-> "es"]
  IN [w \in hant \cup hans \cup {<<b>> : b \in DOMAIN bare}
            \cup UNION {{<<b, r>> : r \in regions[b]} : b \in DOMAIN regions} |->
        IF w \in hant THEN <<"zh", "hk">>
        ELSE IF w \in hans THEN <<"zh", "cn">>
        ELSE IF Len(w) = 1 THEN bare[w[1]]
        ELSE <<w[1], home[w[1]]>>]

\* The packs of the base language of w.
SameBase(w) == {l \in Languages : l[1] = w[1]}

\* What one wish leads to, NoLang if to nothing.
Match_regiononly(w) ==
  IF w \in Languages THEN w
  ELSE IF w \in DOMAIN LANG_VARIANTS THEN LANG_VARIANTS[w]
  ELSE IF Cardinality(SameBase(w)) = 1 THEN CHOOSE l \in SameBase(w) : TRUE
  ELSE NoLang
Match(w) ==
  IF w \in Languages THEN w
  ELSE IF w \in DOMAIN LANG_VARIANTS THEN LANG_VARIANTS[w]
  ELSE IF <<w[1]>> \in DOMAIN LANG_VARIANTS THEN LANG_VARIANTS[<<w[1]>>]
  ELSE IF Cardinality(SameBase(w)) = 1 THEN CHOOSE l \in SameBase(w) : TRUE
  ELSE NoLang

\* The first wish that leads to a language.
resolveBrowserLang(list) ==
  LET met == {i \in DOMAIN list : Match(list[i]) # NoLang}
  IN IF met = {} THEN English
     ELSE Match(list[CHOOSE i \in met : \A j \in met : i <= j])

----------------------------------------------------------------------------
RTL_LOCALES == {"ar", "he"}
localeDir(lang) == IF lang[1] \in RTL_LOCALES THEN "rtl" ELSE "ltr"

applyDocumentDir(lang) == dir' = localeDir(lang)

\* The script is run, when the page is opened or reloaded.  Its own call of
\* applyDocumentDir() comes before RTL_LOCALES is initialised: it throws, the
\* error is dropped, and the document keeps the direction of index.html, none.
Loaded == IF stored # NoLang THEN stored ELSE resolveBrowserLang(wishes)

Load ==
  /\ curLang' = Loaded /\ dir' = "none"
  /\ UNCHANGED <<wishes, stored>>

\* setLang(), by the selection of the settings page.
setLang(lang) ==
  /\ curLang' = lang /\ stored' = lang /\ applyDocumentDir(lang)
  /\ UNCHANGED wishes

----------------------------------------------------------------------------
(* t() *)

\* t(): in which language the text of a key is when the page is in language
\* lang, and the placeholders that n values leave in it.  Value number i, from
\* 0, replaces {i + 1}.
t_fromzero(lang, key, n) ==
  [in |-> IF key \in InEnglish(lang) THEN English ELSE lang,
   bare |-> {i \in 1..Holes(key) : i > n - 1}]
t(lang, key, n) ==
  [in |-> IF key \in InEnglish(lang) THEN English ELSE lang,
   bare |-> {i \in 1..Holes(key) : i > n}]

\* How many values the page gives: in the shell and on the pages ...
GivenOnPages ==
  [k \in PageTexts \ {"diag.score"} |->             \* which no page shows
     IF k = "monitor.enabledMessage" THEN 0
     ELSE IF k \in {"monitor.sub", "monitor.rttAria"} THEN 2
     ELSE 1]

\* ... and for the texts of the diagnosis (translateDiagText(), with
\* translateProxyLabel()), which are told by the form of the service's text.
GivenToDiag ==
  LET two == {"diagmsg.errorDelta", "diagmsg.dnsServers", "diagmsg.partialReachable",
              "diagmsg.routesGateways", "diagmsg.pathMTUValue",
              "diagmsg.ddnsConnectedRatio", "diagmsg.ddnsUpdated",
              "diagmsg.tnasServiceCode", "diagmsg.macsForIp"}
      one == {"diagmsg.undeterminable", "diagmsg.allLinksUp",
              "diagmsg.downPortsHandled", "diagmsg.speedUnknown", "diagmsg.halfDuplex",
              "diagmsg.duplexUnreadable", "diagmsg.allReachable",
              "diagmsg.notDHCPMode", "diagmsg.lossPercent",
              "diagmsg.routesSameGateway", "diagmsg.reachableEndpoints",
              "diagmsg.mtuPayloadPasses", "diagmsg.ntpActiveOffset",
              "diagmsg.offsetValue", "diagmsg.timeWaitCount", "diagmsg.fdUsage",
              "diagmsg.ddnsDisconnected", "diagmsg.ddnsUpdateFailed",
              "diagmsg.multichannelAvailable", "diagmsg.environmentProxy",
              "diagmsg.tosAdvancedProxy", "diagmsg.firewallDisabledWithProxy",
              "diagmsg.firewallEnabledWithProxy", "diagmsg.httpCode"}
  IN [k \in one \cup two \cup {"diagmsg.linkStateSummary"} |->
        IF k \in one THEN 1 ELSE IF k \in two THEN 2 ELSE 3]

----------------------------------------------------------------------------
I18nInit ==
  /\ wishes \in Wishes /\ stored \in Languages \cup {NoLang}
  /\ curLang = Loaded /\ dir = "none"

I18nNext == Load \/ \E l \in Languages : setLang(l)

----------------------------------------------------------------------------
(* Properties *)

I18nTypeOK ==
  /\ wishes \in Wishes /\ stored \in Languages \cup {NoLang}
  /\ curLang \in Languages
  /\ dir \in {"ltr", "rtl", "none"}

\* The language a tag asks for; the two forms of Norwegian and their common
\* code are one.
Speech(w) == IF w[1] \in {"no", "nn"} THEN "nb" ELSE w[1]

\* Whoever has chosen a language keeps it; whoever has not reads the first
\* language of the browser's list that the page has, be it from another
\* country, before any later one and before English.  The Chinese tags that
\* are neither listed as a variant nor a pack (zh, zh-Hant-TW) are left out:
\* two packs begin with zh-, and the page falls back to the next wish.
\* (i18n.js:10817, 10825-10840)
LanguageKept ==
  IF stored # NoLang THEN curLang = stored
  ELSE \A i \in DOMAIN wishes :
         LET spoken(w) == \E l \in Languages : l[1] = Speech(w)
         IN /\ spoken(wishes[i]) /\ wishes[i][1] # "zh"
            /\ \A j \in 1..(i - 1) : ~spoken(wishes[j])
            => curLang[1] = Speech(wishes[i])

\* In Arabic and Hebrew the document runs from right to left (README.md:33:
\* "with full right-to-left layout for Arabic and Hebrew"; i18n.js:10841).
DirFollowsLang == localeDir(curLang) = "rtl" => dir = "rtl"

\* What asks for a confirmation that cannot be undone, or shows a code that is
\* shown once, does it in the language of the page (app.js:372, 469, 901,
\* 1144, 1168, 1476): no pack has left these texts in English.
Consent == {"logout.title", "logout.message", "fix.confirm", "common.confirm",
            "btn.cancel", "snapshots.restoreConfirm", "history.deleteTitle",
            "history.deleteMessage", "history.clearTitle", "history.clearMessage",
            "recovery.title", "recovery.description", "recovery.continue"}

\* The languages of which that is so; that of the page is one.
AsksInOwn == {l \in Languages : \A k \in Consent : t(l, k, 0).in = l}

AsksInOwnLanguage == curLang \in AsksInOwn

\* No text on the page shows a bare {1}: every text gets as many values as it
\* has placeholders, for the texts of the diagnosis in each form the service
\* writes them.  (test_i18n.js:87; i18n.js:10852-10860.)  Three calls give no
\* value: monitor.enabledMessage (app.js:1366), and common.operationFailed
\* after a failed deletion (app.js:1161, 1180) but not elsewhere.
Filled ==
  {l \in Languages :
     /\ \A k \in DOMAIN GivenOnPages \ {"monitor.enabledMessage"} :
          t(l, k, GivenOnPages[k]).bare = {}
     /\ \A k \in DOMAIN GivenToDiag : t(l, k, GivenToDiag[k]).bare = {}
     /\ DOMAIN enUS \ {"diag.score"} \subseteq DOMAIN GivenOnPages \cup DOMAIN GivenToDiag}

HolesMatch == curLang \in Filled

\* What the page shows in a language is a text of that language where the user
\* must agree to something, and has its values filled in everywhere.
TextsFit == AsksInOwnLanguage /\ HolesMatch
=============================================================================
