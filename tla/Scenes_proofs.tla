---------------------------- MODULE Scenes_proofs ----------------------------
(****************************************************************************)
(* Proofs about the parts of the page with scenes of their own: languages,  *)
(* texts, the copy button and the tools of the language packs, for every    *)
(* list of languages a browser may ask for and all packs and keys.          *)
(****************************************************************************)
EXTENDS WebUI, Facts

----------------------------------------------------------------------------
(* The languages of the page *)

\* LOCALES as a set.
LEMMA LanguageList ==
  Languages = {<<"en", "us">>, <<"de", "de">>, <<"fr", "fr">>, <<"es", "es">>,
               <<"it", "it">>, <<"tr", "tr">>, <<"pt", "pt">>, <<"hu", "hu">>,
               <<"nb", "no">>, <<"sv", "se">>, <<"nl", "nl">>, <<"cs", "cz">>,
               <<"pl", "pl">>, <<"ru", "ru">>, <<"zh", "cn">>, <<"zh", "hk">>,
               <<"ja", "jp">>, <<"ko", "kr">>, <<"vi", "vn">>, <<"id", "id">>,
               <<"th", "th">>, <<"ar", "sa">>, <<"he", "il">>}
<1>1. DOMAIN Locales = 1..23
  BY DEF Locales
<1>2. /\ Locales[1] = <<"en", "us">> /\ Locales[2] = <<"de", "de">>
      /\ Locales[3] = <<"fr", "fr">> /\ Locales[4] = <<"es", "es">>
      /\ Locales[5] = <<"it", "it">> /\ Locales[6] = <<"tr", "tr">>
      /\ Locales[7] = <<"pt", "pt">> /\ Locales[8] = <<"hu", "hu">>
      /\ Locales[9] = <<"nb", "no">> /\ Locales[10] = <<"sv", "se">>
      /\ Locales[11] = <<"nl", "nl">> /\ Locales[12] = <<"cs", "cz">>
      /\ Locales[13] = <<"pl", "pl">> /\ Locales[14] = <<"ru", "ru">>
      /\ Locales[15] = <<"zh", "cn">> /\ Locales[16] = <<"zh", "hk">>
      /\ Locales[17] = <<"ja", "jp">> /\ Locales[18] = <<"ko", "kr">>
      /\ Locales[19] = <<"vi", "vn">> /\ Locales[20] = <<"id", "id">>
      /\ Locales[21] = <<"th", "th">> /\ Locales[22] = <<"ar", "sa">>
      /\ Locales[23] = <<"he", "il">>
  BY DEF Locales
<1>3. \A f : {f[i] : i \in 1..23} =
                       {f[1], f[2], f[3], f[4], f[5], f[6], f[7], f[8], f[9], f[10],
                         f[11], f[12], f[13], f[14], f[15],
                         f[16], f[17], f[18], f[19], f[20],
                         f[21], f[22], f[23]}
  OBVIOUS
<1>4. Languages = {Locales[i] : i \in 1..23}
  BY <1>1 DEF Languages
<1> QED  BY <1>2, <1>3, <1>4

\* The languages of the home countries in LANG_VARIANTS are among them.
LEMMA EnglishThere == English \in Languages
BY LanguageList DEF English

\* The region of a language that has one pack.
Region == [en |-> "us", de |-> "de", fr |-> "fr", es |-> "es", it |-> "it", tr |-> "tr",
           pt |-> "pt", hu |-> "hu", nb |-> "no", sv |-> "se", nl |-> "nl", cs |-> "cz",
           pl |-> "pl", ru |-> "ru", ja |-> "jp", ko |-> "kr", vi |-> "vn", id |-> "id",
           th |-> "th", ar |-> "sa", he |-> "il"]

LEMMA LanguageForm ==
  ASSUME NEW l \in Languages
  PROVE  /\ l # NoLang /\ l[1] \notin {"no", "nn"}
         /\ l[1] # "zh" => l = <<l[1], Region[l[1]]>>
<1>1. l # NoLang /\ l[1] \notin {"no", "nn"}
  BY LanguageList DEF NoLang
<1>2. l[1] # "zh" => l = <<l[1], Region[l[1]]>>
  BY LanguageList DEF Region
<1> QED  BY <1>1, <1>2

\* LANG_VARIANTS leads from a tag to a language of the same speech.
LEMMA Variants ==
  ASSUME NEW w \in DOMAIN LANG_VARIANTS
  PROVE  LANG_VARIANTS[w] \in Languages /\ LANG_VARIANTS[w][1] = Speech(w)
<1> DEFINE hant == {<<"zh", "tw">>, <<"zh", "hant">>, <<"zh", "mo">>}
           hans == {<<"zh", "sg">>, <<"zh", "hans">>}
           bare == [nb |-> <<"nb", "no">>, no |-> <<"nb", "no">>, nn |-> <<"nb", "no">>,
                    id |-> <<"id", "id">>, vi |-> <<"vi", "vn">>, th |-> <<"th", "th">>]
           regions == [en |-> {"gb", "au", "ca", "nz", "za", "in"}, fr |-> {"ca", "be", "ch"},
                       de |-> {"at", "ch"}, pt |-> {"br"}, es |-> {"mx", "ar", "cl", "co"}]
           home == [en |-> "us", fr |-> "fr", de |-> "de", pt |-> "pt", es |-> "es"]
           there == hant \cup hans \cup {<<b>> : b \in DOMAIN bare}
                      \cup UNION {{<<b, r>> : r \in regions[b]} : b \in DOMAIN regions}
           to(v) == IF v \in hant THEN <<"zh", "hk">>
                    ELSE IF v \in hans THEN <<"zh", "cn">>
                    ELSE IF Len(v) = 1 THEN bare[v[1]]
                    ELSE <<v[1], home[v[1]]>>
<1>1. LANG_VARIANTS = [v \in there |-> to(v)]
  BY DEF LANG_VARIANTS
<1>2. /\ DOMAIN bare = {"nb", "no", "nn", "id", "vi", "th"}
      /\ DOMAIN regions = {"en", "fr", "de", "pt", "es"}
  OBVIOUS
<1>3. CASE w \in hant
  <2>1. to(w) = <<"zh", "hk">> /\ w[1] = "zh"
    BY <1>3
  <2> HIDE DEF to, there
  <2> QED  BY <1>1, <2>1, LanguageList DEF Speech
<1>4. CASE w \in hans
  <2>1. to(w) = <<"zh", "cn">> /\ w[1] = "zh"
    BY <1>4
  <2> HIDE DEF to, there
  <2> QED  BY <1>1, <2>1, LanguageList DEF Speech
<1>5. CASE w \in {<<b>> : b \in DOMAIN bare}
  <2>1. PICK b \in {"nb", "no", "nn", "id", "vi", "th"} : w = <<b>>
    BY <1>2, <1>5
  <2>2. w \notin hant \cup hans /\ Len(w) = 1 /\ w[1] = b
    BY <2>1
  <2>3. to(w) = bare[b]
    BY <2>2
  <2>4. bare[b] \in Languages /\ bare[b][1] = IF b \in {"no", "nn"} THEN "nb" ELSE b
    BY LanguageList
  <2> HIDE DEF to, there, bare
  <2> QED  BY <1>1, <2>2, <2>3, <2>4 DEF Speech
<1>6. CASE w \in UNION {{<<b, r>> : r \in regions[b]} : b \in DOMAIN regions}
  <2>1. PICK b \in {"en", "fr", "de", "pt", "es"} : \E r : w = <<b, r>>
    BY <1>2, <1>6
  <2>2. w \notin hant \cup hans /\ Len(w) = 2 /\ w[1] = b
    BY <2>1
  <2>3. to(w) = <<b, home[b]>>
    BY <2>2
  <2>4. <<b, home[b]>> \in Languages /\ b \notin {"no", "nn"}
    BY LanguageList
  <2> HIDE DEF to, there, home
  <2> QED  BY <1>1, <2>2, <2>3, <2>4 DEF Speech
<1> HIDE DEF hant, hans, bare, regions, to
<1> QED  BY <1>1, <1>3, <1>4, <1>5, <1>6

LEMMA NorwegianVariants == <<"no">> \in DOMAIN LANG_VARIANTS /\ <<"nn">> \in DOMAIN LANG_VARIANTS
BY DEF LANG_VARIANTS

\* What a tag leads to is a language of its speech, if it leads to one.
LEMMA MatchSpeaks ==
  ASSUME NEW w, Match(w) # NoLang
  PROVE  Match(w) \in Languages /\ Match(w)[1] = Speech(w)
<1>1. CASE w \in Languages
  BY <1>1, LanguageForm DEF Match, Speech
<1>2. CASE w \notin Languages /\ w \in DOMAIN LANG_VARIANTS
  BY <1>2, Variants DEF Match
<1>3. CASE /\ w \notin Languages /\ w \notin DOMAIN LANG_VARIANTS
           /\ <<w[1]>> \in DOMAIN LANG_VARIANTS
  <2>1. Match(w) = LANG_VARIANTS[<<w[1]>>]
    BY <1>3 DEF Match
  <2>2. Speech(<<w[1]>>) = Speech(w)
    BY DEF Speech
  <2> QED  BY <1>3, <2>1, <2>2, Variants
<1>4. CASE /\ w \notin Languages /\ w \notin DOMAIN LANG_VARIANTS
           /\ <<w[1]>> \notin DOMAIN LANG_VARIANTS
  <2>1. Cardinality(SameBase(w)) = 1 /\ Match(w) = CHOOSE l \in SameBase(w) : TRUE
    BY <1>4 DEF Match
  <2>2. SameBase(w) # {}
    BY <2>1, FS_EmptySet
  <2>3. Match(w) \in SameBase(w)
    BY <2>1, <2>2
  <2>4. w[1] \notin {"no", "nn"}
    BY <1>4, NorwegianVariants
  <2> QED  BY <2>3, <2>4 DEF SameBase, Speech
<1> QED  BY <1>1, <1>2, <1>3, <1>4

Spoken(w) == \E l \in Languages : l[1] = Speech(w)

\* A tag in a language of the page, other than Chinese, leads to it.
LEMMA SpokenMatches ==
  ASSUME NEW w, Spoken(w), w[1] # "zh"
  PROVE  Match(w) # NoLang
<1>1. CASE w \in Languages
  BY <1>1, LanguageForm DEF Match
<1>2. CASE w \notin Languages /\ w \in DOMAIN LANG_VARIANTS
  BY <1>2, Variants, LanguageForm DEF Match
<1>3. CASE /\ w \notin Languages /\ w \notin DOMAIN LANG_VARIANTS
           /\ <<w[1]>> \in DOMAIN LANG_VARIANTS
  BY <1>3, Variants, LanguageForm DEF Match
<1>4. CASE /\ w \notin Languages /\ w \notin DOMAIN LANG_VARIANTS
           /\ <<w[1]>> \notin DOMAIN LANG_VARIANTS
  <2>1. Speech(w) = w[1]
    BY <1>4, NorwegianVariants DEF Speech
  <2>2. PICK l \in Languages : l[1] = w[1]
    BY <2>1 DEF Spoken
  <2>3. SameBase(w) = {l}
    BY <2>2, LanguageForm DEF SameBase
  <2>4. Match(w) = l
    BY <1>4, <2>3, FS_Singleton DEF Match
  <2> QED  BY <2>4, LanguageForm
<1> QED  BY <1>1, <1>2, <1>3, <1>4

\* What a browser gets is a language of the page ...
LEMMA ResolvedLanguage ==
  ASSUME NEW list \in Seq(Seq(STRING))
  PROVE  resolveBrowserLang(list) \in Languages
<1> DEFINE met == {i \in DOMAIN list : Match(list[i]) # NoLang}
<1>1. CASE met = {}
  BY <1>1, EnglishThere DEF resolveBrowserLang
<1>2. CASE met # {}
  <2>1. met \subseteq Nat
    OBVIOUS
  <2>2. \E i \in met : \A j \in met : i <= j
    <3> HIDE DEF met
    <3> QED  BY <1>2, <2>1, Least
  <2>3. (CHOOSE i \in met : \A j \in met : i <= j) \in met
    <3> HIDE DEF met
    <3> QED  BY <2>2
  <2> DEFINE i == CHOOSE k \in met : \A j \in met : k <= j
  <2>4. resolveBrowserLang(list) = Match(list[i])
    BY <1>2 DEF resolveBrowserLang
  <2>5. Match(list[i]) # NoLang
    BY <2>3
  <2> HIDE DEF i
  <2> QED  BY <2>4, <2>5, MatchSpeaks
<1> QED  BY <1>1, <1>2

\* ... and the first of the list that the page has.
LEMMA ResolvedFirst ==
  ASSUME NEW list \in Seq(Seq(STRING)), NEW i \in DOMAIN list,
         Spoken(list[i]), list[i][1] # "zh",
         \A j \in 1..(i - 1) : ~Spoken(list[j])
  PROVE  resolveBrowserLang(list)[1] = Speech(list[i])
<1> DEFINE met == {k \in DOMAIN list : Match(list[k]) # NoLang}
           least == CHOOSE k \in met : \A j \in met : k <= j
<1>1. i \in met
  BY SpokenMatches
<1>2. met \subseteq Nat /\ i \in Nat
  OBVIOUS
<1>3. ASSUME NEW k \in met PROVE i <= k
  <2>1. Spoken(list[k])
    BY MatchSpeaks DEF Spoken
  <2>2. k \in DOMAIN list /\ k \in Nat /\ k >= 1
    OBVIOUS
  <2> HIDE DEF met
  <2>3. SUFFICES ASSUME ~ (i <= k) PROVE FALSE
    OBVIOUS
  <2>4. k \in 1..(i - 1)
    BY <1>2, <2>2, <2>3
  <2> QED  BY <2>1, <2>4
<1>4. resolveBrowserLang(list) = Match(list[least])
  BY <1>1 DEF resolveBrowserLang
<1> HIDE DEF met
<1>5. least = i
  <2>1. least \in met /\ \A j \in met : least <= j
    BY <1>1, <1>3
  <2>2. least <= i /\ i <= least
    BY <1>1, <1>3, <2>1
  <2> HIDE DEF least
  <2> QED  BY <1>2, <2>1, <2>2
<1> HIDE DEF least
<1> QED  BY <1>1, <1>4, <1>5, SpokenMatches, MatchSpeaks

----------------------------------------------------------------------------
(* The page's language *)

\* The page is in the language that a reload would give it.
LanguageInv == I18nTypeOK /\ curLang = Loaded

LEMMA WishesForm == \A list \in Wishes : list \in Seq(Seq(STRING))
BY WishesAssumption

LEMMA LoadedLanguage ==
  ASSUME wishes \in Wishes, stored \in Languages \cup {NoLang}
  PROVE  Loaded \in Languages
BY WishesForm, ResolvedLanguage DEF Loaded

LEMMA InitLanguage == Init => LanguageInv
<1> SUFFICES ASSUME Init PROVE LanguageInv
  OBVIOUS
<1>1. CASE I18nInit
  <2>1. Loaded \in Languages
    BY <1>1, LoadedLanguage DEF I18nInit
  <2> QED  BY <1>1, <2>1 DEF I18nInit, LanguageInv, I18nTypeOK
<1>2. CASE LanguageAtRest
  <2>1. wishes \in Wishes /\ stored = NoLang /\ curLang = English /\ dir = "none"
    BY <1>2, WishesAssumption DEF LanguageAtRest, English
  <2>2. Loaded = English
    <3> DEFINE list == <<English>>
    <3>1. list \in Seq(Seq(STRING)) /\ DOMAIN list = {1} /\ list[1] = English
      <4>1. list \in Wishes
        BY WishesAssumption DEF English
      <4>2. list \in Seq(Seq(STRING))
        BY <4>1, WishesForm
      <4> QED  BY <4>2
    <3>2. English[1] = "en" /\ Speech(English) = "en" /\ Spoken(English)
      BY EnglishThere DEF English, Speech, Spoken
    <3>3. 1..(1 - 1) = {}
      OBVIOUS
    <3>4. wishes = list
      BY <1>2 DEF LanguageAtRest
    <3> HIDE DEF list
    <3>5. resolveBrowserLang(list)[1] = "en"
      BY <3>1, <3>2, <3>3, ResolvedFirst
    <3>6. resolveBrowserLang(list) = <<"en", Region["en"]>>
      BY <3>1, <3>5, ResolvedLanguage, LanguageForm
    <3> QED  BY <2>1, <3>4, <3>6 DEF Loaded, English, Region
  <2> QED  BY <2>1, <2>2, EnglishThere DEF LanguageInv, I18nTypeOK
<1> QED  BY <1>1, <1>2 DEF Init

\* The steps that concern a part of the page with scenes of its own.
LEMMA ApartSteps ==
  ASSUME [Next]_vars
  PROVE  /\ I18nNext \/ UNCHANGED i18nVars
         /\ ClipNext \/ UNCHANGED clipVars
         /\ PackNext \/ UNCHANGED packVars
         /\ UNCHANGED given
<1>1. CASE UNCHANGED apart
  BY <1>1 DEF apart
<1>2. CASE Apart
  BY <1>2 DEF Apart, dataVars, diagPage
<1> QED  BY <1>1, <1>2 DEF Next, UserStep, Event, Timer, Resume, Serve, OthersStep, vars

LEMMA NextLanguage ==
  ASSUME LanguageInv, I18nNext \/ UNCHANGED i18nVars
  PROVE  LanguageInv'
<1>1. CASE Load
  <2>1. Loaded \in Languages
    BY LoadedLanguage DEF LanguageInv, I18nTypeOK
  <2> QED  BY <1>1, <2>1 DEF Load, LanguageInv, I18nTypeOK, Loaded
<1>2. ASSUME NEW l \in Languages, setLang(l) PROVE LanguageInv'
  <2>1. l # NoLang
    BY LanguageForm
  <2> QED  BY <1>2, <2>1 DEF setLang, applyDocumentDir, localeDir, LanguageInv, I18nTypeOK,
              Loaded
<1>3. CASE UNCHANGED i18nVars
  BY <1>3 DEF i18nVars, LanguageInv, I18nTypeOK, Loaded
<1> QED  BY <1>1, <1>2, <1>3 DEF I18nNext

LEMMA LanguageInvariant == Spec => []LanguageInv
<1>1. LanguageInv /\ [Next]_vars => LanguageInv'
  BY ApartSteps, NextLanguage
<1> QED  BY <1>1, InitLanguage, PTL DEF Spec

\* Whoever has chosen a language keeps it, and every other visitor reads the
\* first language of the browser's list that the page has, whatever the list
\* is (i18n.js:10817-10840: resolveBrowserLang() and setLang()).
THEOREM SafeLanguage == Spec => []LanguageKept
<1>1. LanguageInv => LanguageKept
  <2> SUFFICES ASSUME LanguageInv PROVE LanguageKept
    OBVIOUS
  <2>1. CASE stored # NoLang
    BY <2>1 DEF LanguageInv, LanguageKept, Loaded
  <2>2. CASE stored = NoLang
    <3>1. curLang = resolveBrowserLang(wishes) /\ wishes \in Seq(Seq(STRING))
      BY <2>2, WishesForm DEF LanguageInv, I18nTypeOK, Loaded
    <3>2. ASSUME NEW i \in DOMAIN wishes, Spoken(wishes[i]), wishes[i][1] # "zh",
                 \A j \in 1..(i - 1) : ~Spoken(wishes[j])
          PROVE  curLang[1] = Speech(wishes[i])
      BY <3>1, <3>2, ResolvedFirst
    <3> QED  BY <2>2, <3>2 DEF LanguageKept, Spoken
  <2> QED  BY <2>1, <2>2
<1> QED  BY <1>1, LanguageInvariant, PTL

----------------------------------------------------------------------------
(* Texts *)

\* A language's pack is one of those behind LOCALES.
LEMMA PackOf ==
  ASSUME NEW l \in Languages
  PROVE  \E i \in 1..23 : InEnglish(l) = Packs[i]
<1>1. DOMAIN Locales = 1..23
  BY DEF Locales
<1>2. \E i \in DOMAIN Locales : Locales[i] = l
  BY DEF Languages
<1> QED  BY <1>1, <1>2 DEF InEnglish

LEMMA ConsentTranslated == \A i \in 1..23 : Consent \cap Packs[i] = {}
<1> USE DEF Consent
<1>1. Consent \cap Names = {}
  BY DEF Names
<1>2. Consent \cap DOMAIN enUS = {}
  BY DEF enUS
<1>3. Consent \cap Untranslated = {}
  BY <1>1, <1>2 DEF Untranslated, DiagTexts
<1>4. Consent \cap deDE = {}  BY <1>3 DEF deDE
<1>5. Consent \cap frFR = {}  BY <1>3 DEF frFR
<1>6. Consent \cap esES = {}  BY <1>3 DEF esES
<1>7. Consent \cap itIT = {}  BY <1>3 DEF itIT
<1>8. Consent \cap trTR = {}  BY <1>3 DEF trTR
<1>9. Consent \cap ptPT = {}  BY <1>3 DEF ptPT
<1>10. Consent \cap huHU = {}  BY <1>3 DEF huHU
<1>11. Consent \cap nbNO = {}  BY <1>3 DEF nbNO
<1>12. Consent \cap svSE = {}  BY <1>3 DEF svSE
<1>13. Consent \cap nlNL = {}  BY <1>3 DEF nlNL
<1>14. Consent \cap csCZ = {}  BY <1>3 DEF csCZ
<1>15. Consent \cap plPL = {}  BY <1>3 DEF plPL
<1>16. Consent \cap ruRU = {}  BY <1>3 DEF ruRU
<1>17. Consent \cap zhCN = {}  BY <1>1 DEF zhCN
<1>18. Consent \cap zhHK = {}  BY <1>1 DEF zhHK
<1>19. Consent \cap jaJP = {}  BY <1>3 DEF jaJP
<1>20. Consent \cap koKR = {}  BY <1>3 DEF koKR
<1>21. Consent \cap viVN = {}  BY <1>3 DEF viVN
<1>22. Consent \cap idID = {}  BY <1>3 DEF idID
<1>23. Consent \cap thTH = {}  BY <1>3 DEF thTH
<1>24. Consent \cap arSA = {}  BY <1>1 DEF arSA
<1>25. Consent \cap heIL = {}  BY <1>1 DEF heIL
<1> HIDE DEF Consent
<1>26. \A i \in 1..23 : Packs[i] \in {{}, deDE, frFR, esES, itIT, trTR, ptPT, huHU, nbNO,
                           svSE, nlNL, csCZ, plPL, ruRU, zhCN, zhHK, jaJP, koKR, viVN,
                           idID, thTH, arSA, heIL}
  BY DEF Packs
<1> QED  BY <1>4, <1>5, <1>6, <1>7, <1>8, <1>9, <1>10, <1>11, <1>12, <1>13, <1>14, <1>15,
            <1>16, <1>17, <1>18, <1>19, <1>20, <1>21, <1>22, <1>23, <1>24, <1>25, <1>26

\* Whatever asks for a confirmation does it in the page's language, in all of
\* them (app.js:372, 469, 901, 1144, 1168, 1476, with the packs of i18n.js).
THEOREM SafeConsent == Spec => []AsksInOwnLanguage
<1>1. LanguageInv => AsksInOwnLanguage
  BY PackOf, ConsentTranslated DEF LanguageInv, I18nTypeOK, AsksInOwnLanguage, AsksInOwn, t
<1> QED  BY <1>1, LanguageInvariant, PTL

\* Enough values leave no placeholder.
LEMMA NoneBare ==
  ASSUME NEW l, NEW k, NEW n \in Nat, Holes(k) \in Nat, Holes(k) <= n
  PROVE  t(l, k, n).bare = {}
BY DEF t

LEMMA TextsFilled ==
  /\ \A k \in DOMAIN GivenOnPages \ {"monitor.enabledMessage"} :
       /\ GivenOnPages[k] \in Nat /\ Holes(k) \in Nat /\ Holes(k) <= GivenOnPages[k]
  /\ \A k \in DOMAIN GivenToDiag :
       /\ GivenToDiag[k] \in Nat /\ Holes(k) \in Nat /\ Holes(k) <= GivenToDiag[k]
  /\ DOMAIN enUS \ {"diag.score"} \subseteq DOMAIN GivenOnPages \cup DOMAIN GivenToDiag
<1>1. ASSUME NEW k \in DOMAIN GivenOnPages, k # "monitor.enabledMessage"
      PROVE  GivenOnPages[k] \in Nat /\ Holes(k) \in Nat /\ Holes(k) <= GivenOnPages[k]
  BY <1>1 DEF GivenOnPages, PageTexts, Holes, enUS
<1>2. ASSUME NEW k \in DOMAIN GivenToDiag
      PROVE  GivenToDiag[k] \in Nat /\ Holes(k) \in Nat /\ Holes(k) <= GivenToDiag[k]
  BY DEF GivenToDiag, Holes, enUS
<1>3. ASSUME NEW k \in DOMAIN enUS, k # "diag.score"
      PROVE  k \in DOMAIN GivenOnPages \cup DOMAIN GivenToDiag
  BY <1>3 DEF GivenOnPages, PageTexts, GivenToDiag, enUS
<1> QED  BY <1>1, <1>2, <1>3

\* No text of the page shows a bare placeholder (i18n.js:10852-10860).
THEOREM SafeHoles == Spec => []HolesMatch
<1>1. ASSUME NEW l \in Languages PROVE l \in Filled
  BY TextsFilled, NoneBare DEF Filled
<1>2. LanguageInv => HolesMatch
  BY <1>1 DEF LanguageInv, I18nTypeOK, HolesMatch
<1> QED  BY <1>2, LanguageInvariant, PTL

\* Both: every text of the page is whole, and in its language where it must be.
THEOREM SafeTexts == Spec => []TextsFit
<1>1. AsksInOwnLanguage /\ HolesMatch => TextsFit
  BY DEF TextsFit
<1> QED  BY <1>1, SafeConsent, SafeHoles, PTL

----------------------------------------------------------------------------
(* The copy button *)

\* It waits for the clipboard only with a code.
ClipInv == ClipTypeOK /\ (button.waits = "clipboard" => code # "")

Buttons == [label : {"copy", "copying", "copied", "failed"}, off : BOOLEAN,
            waits : {"none", "clipboard", "timer"}]

\* What the end of a copy says, and what it selects.
LEMMA ToldSays ==
  ASSUME marked \in BOOLEAN
  PROVE  /\ Told(TRUE) => /\ button' \in Buttons /\ button'.label = "copied"
                          /\ button'.waits = "timer" /\ marked' \in BOOLEAN
         /\ Told(FALSE) => /\ button' \in Buttons /\ button'.label = "failed"
                           /\ button'.waits = "timer" /\ marked' \in BOOLEAN
                           /\ code # "" => marked'
<1>1. ASSUME Told(TRUE)
      PROVE  button' = [label |-> "copied", off |-> TRUE, waits |-> "timer"]
             /\ marked' \in BOOLEAN
  BY <1>1, Zenon DEF Told
<1>2. ASSUME Told(FALSE)
      PROVE  button' = [label |-> "failed", off |-> TRUE, waits |-> "timer"]
             /\ marked' \in BOOLEAN /\ (code # "" => marked')
  BY <1>2, Zenon DEF Told
<1>3. /\ [label |-> "copied", off |-> TRUE, waits |-> "timer"] \in Buttons
      /\ [label |-> "failed", off |-> TRUE, waits |-> "timer"] \in Buttons
  BY DEF Buttons
<1>4. /\ [label |-> "copied", off |-> TRUE, waits |-> "timer"].label = "copied"
      /\ [label |-> "copied", off |-> TRUE, waits |-> "timer"].waits = "timer"
      /\ [label |-> "failed", off |-> TRUE, waits |-> "timer"].label = "failed"
      /\ [label |-> "failed", off |-> TRUE, waits |-> "timer"].waits = "timer"
  OBVIOUS
<1> QED  BY <1>1, <1>2, <1>3, <1>4, Zenon

LEMMA ClipParts ==
  ASSUME ClipInv
  PROVE  /\ secure \in BOOLEAN /\ code \in {"", "code"} /\ clip \in {"other", "code"}
         /\ marked \in BOOLEAN /\ button \in Buttons
         /\ button.waits = "clipboard" => code # ""
BY DEF ClipInv, ClipTypeOK, Buttons

LEMMA ClipStep ==
  ASSUME ClipInv, UNCHANGED <<secure, code>>, clip' \in {"other", "code"},
         marked' \in BOOLEAN, button' \in Buttons,
         button'.waits = "clipboard" => code # ""
  PROVE  ClipInv'
BY DEF ClipInv, ClipTypeOK, Buttons

LEMMA NextClip ==
  ASSUME ClipInv, ClipNext \/ UNCHANGED clipVars
  PROVE  ClipInv'
<1> USE ClipParts
<1>1. CASE Told(TRUE) \/ Told(FALSE)
  <2>1. button' \in Buttons /\ button'.waits = "timer" /\ marked' \in BOOLEAN
    BY <1>1, ToldSays
  <2>2. UNCHANGED <<secure, code>> /\ clip' \in {"other", "code"} => ClipInv'
    BY <2>1, ClipStep
  <2>3. CASE Copy
    <3>2. CASE button' = [label |-> "copying", off |-> TRUE, waits |-> "clipboard"]
      BY <2>1, <3>2
    <3>3. CASE ~(button' = [label |-> "copying", off |-> TRUE, waits |-> "clipboard"])
      BY <2>2, <2>3, <3>3 DEF Copy, Legacy
    <3> QED  BY <3>2, <3>3
  <2>4. CASE Written
    BY <2>2, <2>4 DEF Written, Denied, Legacy
  <2>5. CASE Restored
    BY <2>5, ClipStep DEF Restored, Label, Buttons
  <2>6. CASE Elsewhere
    BY <2>6, ClipStep DEF Elsewhere
  <2>7. CASE UNCHANGED clipVars
    BY <2>7, ClipStep DEF clipVars
  <2> QED  BY <2>3, <2>4, <2>5, <2>6, <2>7 DEF ClipNext
<1>2. CASE ~(Told(TRUE) \/ Told(FALSE))
  <2>1. CASE Copy
    <3>1. /\ code # "" /\ UNCHANGED <<secure, code, clip, marked>>
          /\ button' = [label |-> "copying", off |-> TRUE, waits |-> "clipboard"]
      BY <1>2, <2>1 DEF Copy, Legacy
    <3> QED  BY <3>1, ClipStep DEF Buttons
  <2>2. ~Written
    BY <1>2 DEF Written, Denied, Legacy
  <2>3. CASE Restored
    BY <2>3, ClipStep DEF Restored, Label, Buttons
  <2>4. CASE Elsewhere
    BY <2>4, ClipStep DEF Elsewhere
  <2>5. CASE UNCHANGED clipVars
    BY <2>5, ClipStep DEF clipVars
  <2> QED  BY <2>1, <2>2, <2>3, <2>4, <2>5 DEF ClipNext
<1> QED  BY <1>1, <1>2

LEMMA ClipInvariant == Spec => []ClipInv
<1>1. Init => ClipInv
  <2> SUFFICES ASSUME ClipInit \/ ClipAtRest PROVE ClipInv
    BY DEF Init
  <2>1. /\ secure \in BOOLEAN /\ code \in {"", "code"} /\ clip = "other"
        /\ marked = FALSE /\ button = Label
    BY DEF ClipInit, ClipAtRest
  <2>2. Label \in Buttons /\ Label.waits = "none"
    BY DEF Label, Buttons
  <2> QED  BY <2>1, <2>2 DEF ClipInv, ClipTypeOK, Buttons
<1>2. ClipInv /\ [Next]_vars => ClipInv'
  BY ApartSteps, NextClip
<1> QED  BY <1>1, <1>2, PTL DEF Spec

\* The button says "copied" only when the clipboard holds the code, and when it
\* says that it failed the code is selected (clipboard.js:54-64).
THEOREM SafeCopy == Spec => CopyTold
<1> DEFINE Said == /\ button'.label = "copied" /\ button.label # "copied" =>
                        clip' = code /\ code # ""
                   /\ button'.label = "failed" /\ button.label # "failed" =>
                        code = "" \/ marked'
<1>1. ClipInv /\ [Next]_vars => Said \/ UNCHANGED clipVars
  <2> SUFFICES ASSUME ClipInv, ClipNext PROVE Said
    BY ApartSteps
  <2> USE ClipParts
  <2>1. Legacy /\ code # "" => Said
    BY ToldSays DEF Legacy
  <2>2. clip' = code /\ Told(TRUE) /\ code # "" => Said
    BY ToldSays
  <2>3. CASE Copy
    <3>1. CASE code = "" /\ Told(FALSE)
      BY <3>1, ToldSays
    <3>2. CASE button' = [label |-> "copying", off |-> TRUE, waits |-> "clipboard"]
      BY <3>2
    <3>3. CASE code # "" /\ Legacy
      BY <2>1, <3>3
    <3> QED  BY <2>3, <3>1, <3>2, <3>3 DEF Copy
  <2>4. CASE Written
    BY <2>1, <2>2, <2>4 DEF Written, Denied
  <2>5. CASE Restored
    BY <2>5 DEF Restored, Label
  <2>6. CASE Elsewhere
    BY <2>6 DEF Elsewhere
  <2> QED  BY <2>3, <2>4, <2>5, <2>6 DEF ClipNext
<1> QED  BY <1>1, ClipInvariant, PTL DEF Spec, CopyTold

----------------------------------------------------------------------------
(* The tools of the language packs *)

LEMMA PatchedTwice ==
  ASSUME NEW p
  PROVE  /\ DOMAIN Patched(p) = DOMAIN p \cup ToolKeys
         /\ \A k \in ToolKeys : Patched(p)[k] = "tool"
         /\ \A k \in DOMAIN p \ ToolKeys : Patched(p)[k] = p[k]
         /\ Patched(Patched(p)) = Patched(p)
BY DEF Patched

LEMMA PatchKeeps ==
  ASSUME EnglishPack \in listed, Patch
  PROVE  PatchSafe'
<1> DEFINE good == listed \subseteq DOMAIN packs /\ Cardinality(listed) = PackCount
<1>1. /\ packs' = IF good THEN [c \in listed |-> Patched(packs[c])] ELSE packs
      /\ ran' = [tool |-> "patch", ok |-> good, before |-> File]
      /\ listed' = listed
  BY DEF Patch
<1>2. ran'.ok = good /\ ran'.before = File
  BY <1>1
<1>3. CASE ~good
  BY <1>2, <1>3 DEF PatchSafe
<1>4. CASE good
  <2>1. packs' = [c \in listed |-> Patched(packs[c])]
    BY <1>1, <1>4
  <2>2. \A c \in listed : packs'[c] = Patched(packs[c])
    BY <2>1
  <2>3. File.packs = packs /\ File.listed = listed
    BY DEF File
  <2>4. File'.packs = packs' /\ File'.listed = listed
    BY <1>1 DEF File
  <2>5. Parity(File) => Parity(File')
    <3>1. DOMAIN packs' = listed /\ \A c \in listed : DOMAIN packs'[c] = DOMAIN packs[c] \cup ToolKeys
      BY <2>1, <2>2, PatchedTwice
    <3> QED  BY <2>3, <2>4, <3>1 DEF Parity
  <2>6. ASSUME NEW c \in listed
        PROVE  /\ \A k \in ToolKeys : k \in DOMAIN packs'[c] /\ packs'[c][k] = "tool"
               /\ \A k \in Keys \ ToolKeys :
                    /\ k \in DOMAIN packs[c] <=> k \in DOMAIN packs'[c]
                    /\ k \in DOMAIN packs[c] => packs'[c][k] = packs[c][k]
               /\ Patched(packs'[c]) = packs'[c]
    <3> DEFINE p == packs[c]
               q == packs'[c]
    <3>1. q = Patched(p)
      BY <2>2
    <3> HIDE DEF p, q
    <3>2. DOMAIN q = DOMAIN p \cup ToolKeys /\ Patched(q) = q
      BY <3>1, PatchedTwice
    <3>3. \A k \in ToolKeys : k \in DOMAIN q /\ q[k] = "tool"
      BY <3>1, <3>2, PatchedTwice
    <3>4. \A k \in Keys \ ToolKeys : /\ k \in DOMAIN p <=> k \in DOMAIN q
                                     /\ k \in DOMAIN p => q[k] = p[k]
      BY <3>1, <3>2, PatchedTwice
    <3> QED  BY <3>2, <3>3, <3>4 DEF p, q
  <2>7. ran'.before.packs = packs /\ Parity(ran'.before) = Parity(File)
    BY <1>2, <2>3
  <2> QED  BY <1>1, <2>5, <2>6, <2>7 DEF PatchSafe, Parity
<1> QED  BY <1>3, <1>4

PatchInv == EnglishPack \in listed /\ PatchSafe

LEMMA PatchInvariant == Spec => []PatchInv
<1>1. Init => PatchInv
  BY DEF Init, PackInit, PacksAtRest, PatchInv, PatchSafe
<1>2. PatchInv /\ [Next]_vars => PatchInv'
  <2> SUFFICES ASSUME PatchInv, PackNext \/ UNCHANGED packVars PROVE PatchInv'
    BY ApartSteps
  <2>1. CASE Patch
    BY <2>1, PatchKeeps DEF PatchInv, Patch
  <2>2. CASE Check
    BY <2>2 DEF Check, PatchInv, PatchSafe
  <2>3. CASE UNCHANGED packVars
    BY <2>3 DEF packVars, PatchInv, PatchSafe, File, Parity
  <2> QED  BY <2>1, <2>2, <2>3 DEF PackNext
<1> QED  BY <1>1, <1>2, PTL DEF Spec

\* A patch that ends well keeps parity and people's texts, and a second one
\* changes nothing (patch_compliance_i18n.js:7).
THEOREM SafePatch == Spec => []PatchSafe
<1>1. PatchInv => PatchSafe
  BY DEF PatchInv
<1> QED  BY <1>1, PatchInvariant, PTL

----------------------------------------------------------------------------
(* The proposed gateway *)

\* A bit of an address, from the left: the bits 1 to 8 are those of octet 1.
AddrBit(a, i) == OctetBit(a[((i - 1) \div 8) + 1], 7 - ((i - 1) % 8))

\* The low bits of octet j that the mask of prefix p clears.
ClearedBits(p, j) == LET n == (32 - p) - 8 * (4 - j)
                     IN IF n < 0 THEN 0 ELSE IF n > 8 THEN 8 ELSE n

LEMMA ClearedBitsRange ==
  ASSUME NEW p \in 1..31
  PROVE  /\ \A j \in 1..4 : ClearedBits(p, j) \in 0..8
         /\ ClearedBits(p, 4) >= 1
         /\ p # 31 => ClearedBits(p, 4) >= 2
         /\ \A j \in 1..4, e \in 0..7 :
              8 * (j - 1) + (8 - e) <= p => ClearedBits(p, j) <= e
BY DEF ClearedBits

\* The octets of the proposed address: those of the network, and one more in
\* the last.
LEMMA SuggestedOctets ==
  ASSUME NEW a \in [1..4 -> 0..255], NEW p \in 1..31
  PROVE  \E m \in [1..4 -> 0..255] :
           /\ \A j \in 1..4 : m[j] = Cleared(a[j], ClearedBits(p, j))
           /\ m[4] < 255 /\ suggestedGateway(a, p)[4] = m[4] + 1
           /\ \A j \in 1..3 : suggestedGateway(a, p)[j] = m[j]
<1> DEFINE m == Masked(a, 32 - p)
           g == suggestedGateway(a, p)
<1>1. m = [j \in 1..4 |-> Cleared(a[j], ClearedBits(p, j))]
  <2>1. (32 - p) % 32 = 32 - p
    OBVIOUS
  <2> QED  BY <2>1 DEF Masked, ClearedBits, Cleared
<1>2. \A j \in 1..4 : m[j] = Cleared(a[j], ClearedBits(p, j))
  BY <1>1
<1>3. ASSUME NEW j \in 1..4 PROVE m[j] \in 0..255
  <2>1. a[j] \in 0..255 /\ ClearedBits(p, j) \in 0..8
    BY ClearedBitsRange
  <2>2. Cleared(a[j], ClearedBits(p, j)) \in 0..255
    BY ONLY <2>1, MaskedOctet
  <2> QED  BY <1>2, <2>2
<1>4. m[4] < 255
  <2>1. a[4] \in 0..255 /\ ClearedBits(p, 4) \in 1..8
    BY ClearedBitsRange
  <2>2. Cleared(a[4], ClearedBits(p, 4)) \in 0..254
    BY ONLY <2>1, MaskedEven
  <2> QED  BY <1>2, <2>2
<1>5. m \in [1..4 -> 0..255]
  BY <1>1, <1>3
<1>6. g = Successor(m)
  <2>1. ~(p < 1 \/ p > 31)
    OBVIOUS
  <2> QED  BY <2>1 DEF suggestedGateway
<1> HIDE DEF m, g
<1>7. g[4] = m[4] + 1
  <2>1. \A j \in (4 + 1)..4 : m[j] = 255
    OBVIOUS
  <2>2. g[4] = (m[4] + 1) % 256
    BY <1>6, <2>1 DEF Successor
  <2> QED  BY <1>4, <1>5, <2>2
<1>8. ASSUME NEW j \in 1..3 PROVE g[j] = m[j]
  <2>1. 4 \in (j + 1)..4 /\ m[4] # 255
    BY <1>4, <1>5
  <2> QED  BY <1>6, <2>1 DEF Successor
<1> QED  BY <1>2, <1>4, <1>5, <1>7, <1>8 DEF g

LEMMA SuggestedBits ==
  ASSUME NEW a \in [1..4 -> 0..255], NEW p \in 1..31
  PROVE  LET g == suggestedGateway(a, p)
         IN /\ \A i \in 1..p : AddrBit(g, i) = AddrBit(a, i)
            /\ AddrBit(g, 32) = 1
            /\ p # 31 => AddrBit(g, 31) = 0
<1> DEFINE g == suggestedGateway(a, p)
<1>1. PICK m \in [1..4 -> 0..255] :
        /\ \A j \in 1..4 : m[j] = Cleared(a[j], ClearedBits(p, j))
        /\ m[4] < 255 /\ g[4] = m[4] + 1
        /\ \A j \in 1..3 : g[j] = m[j]
  BY SuggestedOctets
<1> HIDE DEF g
<1>2. ASSUME NEW j \in 1..4, NEW e \in 0..7
      PROVE  OctetBit(m[j], e) = IF e < ClearedBits(p, j) THEN 0 ELSE OctetBit(a[j], e)
  <2>1. a[j] \in 0..255 /\ ClearedBits(p, j) \in 0..8
    BY ClearedBitsRange
  <2>2. \A d \in 0..7 : OctetBit(Cleared(a[j], ClearedBits(p, j)), d)
                          = IF d < ClearedBits(p, j) THEN 0 ELSE OctetBit(a[j], d)
    BY ONLY <2>1, MaskedOctet
  <2> QED  BY <1>1, <2>2
<1>3. ASSUME NEW e \in 0..7
      PROVE  OctetBit(g[4], e) = IF e = 0 THEN 1 ELSE OctetBit(m[4], e)
  <2>1. a[4] \in 0..255 /\ ClearedBits(p, 4) \in 1..8
    BY ClearedBitsRange
  <2>2. m[4] = Cleared(a[4], ClearedBits(p, 4)) /\ g[4] = m[4] + 1
    BY <1>1
  <2>3. OctetBit(Cleared(a[4], ClearedBits(p, 4)) + 1, e)
          = IF e = 0 THEN 1 ELSE OctetBit(Cleared(a[4], ClearedBits(p, 4)), e)
    <3>1. e \in 0..7
      OBVIOUS
    <3> QED  BY ONLY <2>1, <3>1, NextOctet
  <2> QED  BY <2>2, <2>3
<1>4. ASSUME NEW i \in 1..p PROVE AddrBit(g, i) = AddrBit(a, i)
  <2> DEFINE j == ((i - 1) \div 8) + 1
             e == 7 - ((i - 1) % 8)
  <2>1. j \in 1..4 /\ e \in 0..7 /\ 8 * (j - 1) + (8 - e) = i
    OBVIOUS
  <2>2. AddrBit(g, i) = OctetBit(g[j], e) /\ AddrBit(a, i) = OctetBit(a[j], e)
    BY DEF AddrBit
  <2> HIDE DEF j, e
  <2>3. ClearedBits(p, j) <= e /\ ClearedBits(p, j) \in 0..8
    BY <2>1, ClearedBitsRange
  <2>4. OctetBit(m[j], e) = OctetBit(a[j], e)
    BY <1>2, <2>1, <2>3
  <2>5. OctetBit(g[j], e) = OctetBit(m[j], e)
    <3>1. CASE j = 4
      BY <1>3, <2>1, <2>3, <3>1, ClearedBitsRange
    <3>2. CASE j # 4
      BY <1>1, <2>1, <3>2
    <3> QED  BY <3>1, <3>2
  <2> QED  BY <2>2, <2>4, <2>5
<1>5. AddrBit(g, 32) = 1
  <2>1. ((32 - 1) \div 8) + 1 = 4 /\ 7 - ((32 - 1) % 8) = 0
    OBVIOUS
  <2> QED  BY <1>3, <2>1 DEF AddrBit
<1>6. ASSUME p # 31 PROVE AddrBit(g, 31) = 0
  <2>1. ((31 - 1) \div 8) + 1 = 4 /\ 7 - ((31 - 1) % 8) = 1
    OBVIOUS
  <2>2. OctetBit(m[4], 1) = 0
    BY <1>2, <1>6, ClearedBitsRange
  <2> QED  BY <1>3, <2>1, <2>2 DEF AddrBit
<1> QED  BY <1>4, <1>5, <1>6 DEF g

LEMMA ViewAsGiven == Spec => [](given.view = "gateway" => given.addr \in [1..4 -> 0..255]
                                                          /\ given.prefix \in Int)
<1> DEFINE Octets == given.view = "gateway" => /\ given.addr \in [1..4 -> 0..255]
                                               /\ given.prefix \in Int
<1>1. Init => Octets
  BY ViewsAssumption DEF Init, ViewInit, ViewsAtRest
<1>2. Octets /\ [Next]_vars => Octets'
  BY ApartSteps
<1> QED  BY <1>1, <1>2, PTL DEF Spec

\* The proposed gateway is in the network of the interface, and neither the
\* address of the network nor, but for a network of two, its broadcast address,
\* for every address and prefix (app.js:858-870).
THEOREM SafeGateway == Spec => []GatewayIsHost
<1>1. (given.view = "gateway" => given.addr \in [1..4 -> 0..255] /\ given.prefix \in Int)
        => GatewayIsHost
  <2> SUFFICES ASSUME given.view = "gateway",
                      given.addr \in [1..4 -> 0..255], given.prefix \in Int,
                      suggestedGateway(given.addr, given.prefix) # NoGateway
               PROVE  GatewayIsHost
    BY DEF GatewayIsHost
  <2> DEFINE a == given.addr
             p == given.prefix
             g == suggestedGateway(a, p)
  <2>1. p \in 1..31
    BY DEF suggestedGateway
  <2>2. /\ \A i \in 1..p : AddrBit(g, i) = AddrBit(a, i)
        /\ AddrBit(g, 32) = 1
        /\ p # 31 => AddrBit(g, 31) = 0
    BY <2>1, SuggestedBits
  <2>3. 32 \in (p + 1)..32 /\ p # 31 => 31 \in (p + 1)..32
    BY <2>1
  <2>4. /\ \A i \in 1..p : AddrBit(g, i) = AddrBit(a, i)
        /\ \E i \in (p + 1)..32 : AddrBit(g, i) = 1
        /\ p = 31 \/ \E i \in (p + 1)..32 : AddrBit(g, i) = 0
    BY <2>1, <2>2, <2>3
  <2> HIDE DEF g
  <2> QED  BY <2>1, <2>4 DEF GatewayIsHost, AddrBit, OctetBit, g
<1> QED  BY <1>1, ViewAsGiven, PTL
=============================================================================
