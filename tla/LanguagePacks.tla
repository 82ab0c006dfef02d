---------------------------- MODULE LanguagePacks ----------------------------
(****************************************************************************)
(* The language packs of the page (I18N in src/webui/assets/i18n.js).       *)
(*                                                                          *)
(* All packs have the same 467 keys with the same placeholders, so a pack   *)
(* is told by what differs from the English one: the set of keys whose text *)
(* is still the English text.  The English pack is told by the number of    *)
(* placeholders {1}, {2}, {3} in its texts.  Of the diagmsg keys, only      *)
(* those with placeholders and those that every pack translates are named.  *)
(*                                                                          *)
(* A language is the tuple of its subtags in lower case: zh-HK is           *)
(* <<"zh", "hk">>.                                                          *)
(****************************************************************************)
EXTENDS Naturals, Sequences

\* The placeholders of the English texts.
enUS ==
  LET one   == {"auth.attemptsRemaining", "auth.lockedRetry",
                "tools.devicesFound", "tools.breakpoint", "security.highRisk",
                "diag.complete", "fixmsg.noAutoFixFor",
                "common.operationFailed", "snapshots.count",
                "snapshots.diffTitle", "snapshots.filesChanged",
                "snapshots.restoreFailed", "monitor.enabledMessage",
                "diagmsg.allLinksUp", "diagmsg.undeterminable",
                "diagmsg.httpCode", "diagmsg.allReachable",
                "diagmsg.ddnsDisconnected", "diagmsg.ddnsUpdateFailed",
                "diagmsg.downPortsHandled",
                "diagmsg.firewallEnabledWithProxy",
                "diagmsg.firewallDisabledWithProxy", "diagmsg.halfDuplex",
                "diagmsg.mtuPayloadPasses", "diagmsg.multichannelAvailable",
                "diagmsg.ntpActiveOffset", "diagmsg.notDHCPMode",
                "diagmsg.lossPercent", "diagmsg.environmentProxy",
                "diagmsg.tosAdvancedProxy", "diagmsg.reachableEndpoints",
                "diagmsg.routesSameGateway", "diagmsg.timeWaitCount",
                "diagmsg.offsetValue", "diagmsg.fdUsage"}
      two   == {"diag.score", "monitor.sub", "monitor.rttAria",
                "diagmsg.macsForIp", "diagmsg.ddnsConnectedRatio",
                "diagmsg.ddnsUpdated", "diagmsg.dnsServers",
                "diagmsg.errorDelta", "diagmsg.partialReachable",
                "diagmsg.pathMTUValue", "diagmsg.routesGateways",
                "diagmsg.tnasServiceCode"}
      three == {"diagmsg.linkStateSummary"}
  IN [k \in one \cup two \cup three |->
        CASE k \in one -> 1 [] k \in two -> 2 [] k \in three -> 3]

Holes(key) == IF key \in DOMAIN enUS THEN enUS[key] ELSE 0

\* Names that need no translation in most languages.
Names == {"check.ddns", "check.tnas-online", "light.dns", "light.ipv6"}

\* The texts of the diagnosis that the European and most Asian packs translate;
\* they leave the others, and the names of three groups of checks, in English.
Translated == {"diagmsg.aaaaNodata", "diagmsg.allDnsProbesFailed",
               "diagmsg.bondModeNotLacp", "diagmsg.ipv6DisabledIf",
               "diagmsg.ipv6DisabledOnIf", "diagmsg.ipv6DnsAvailable",
               "diagmsg.ipv6TcpOk", "diagmsg.macsForIp", "diagmsg.noErrors",
               "diagmsg.noIPv6Service", "diagmsg.ntpSyncPendingActual",
               "diagmsg.ntpSyncPendingReason", "diagmsg.pingArpAllFailed",
               "diagmsg.undeterminable"}

\* The texts with placeholders outside the diagnosis.
PageTexts == {"auth.attemptsRemaining", "auth.lockedRetry",
              "tools.devicesFound", "tools.breakpoint", "security.highRisk",
              "diag.score", "diag.complete", "fixmsg.noAutoFixFor",
              "common.operationFailed", "monitor.sub", "snapshots.count",
              "snapshots.diffTitle", "snapshots.filesChanged",
              "snapshots.restoreFailed", "monitor.rttAria",
              "monitor.enabledMessage"}

DiagTexts == (DOMAIN enUS \ PageTexts) \cup Translated

Untranslated == (DiagTexts \ Translated) \cup Names
                \cup {"group.B", "group.D", "group.E"}

----------------------------------------------------------------------------
(* The keys that each pack leaves in English. *)

deDE == Untranslated \cup
  {"about.version", "check.proxy-firewall", "group.F", "group.I",
   "light.gateway", "light.internet", "nav.diagnose", "nav.snapshots",
   "nav.sys", "security.firewall", "security.port", "security.tunnel",
   "settings.version", "snapshots.count", "snapshots.diff", "snapshots.id"}

frFR == Untranslated \cup
  {"about.version", "btn.guide", "col.iface", "col.mode", "col.type",
   "dash.nics", "fix.action", "group.C", "group.F", "group.I",
   "history.action", "history.actions", "history.message", "history.score",
   "light.internet", "nav.interfaces", "security.port", "security.service",
   "security.tunnel", "settings.arch", "settings.version",
   "snapshots.actions", "snapshots.diff", "snapshots.id", "snapshots.note",
   "snapshots.source", "tools.traceroute"}

esES == Untranslated \cup
  {"dash.nics", "group.F", "light.internet", "nav.interfaces",
   "snapshots.diff", "snapshots.id", "snapshots.sourceManual", "st.na",
   "tools.traceroute"}

itIT == Untranslated \cup
  {"check.proxy-firewall", "group.F", "history.job", "light.gateway",
   "light.internet", "login.pass", "nav.dashboard", "security.binding",
   "security.firewall", "security.tunnel", "snapshots.diff", "snapshots.id",
   "tools.traceroute"}

trTR == Untranslated \cup
  {"check.ipv6-dns", "check.wan-ping", "check.wan-tcp", "security.risk",
   "snapshots.id"}

ptPT == Untranslated \cup
  {"check.proxy-firewall", "col.iface", "dash.nics", "group.F",
   "light.gateway", "light.internet", "nav.interfaces", "security.firewall",
   "snapshots.id", "snapshots.sourceManual", "st.na", "tools.traceroute"}

huHU == Untranslated \cup
  {"check.ipv6-dns", "check.wan-tcp", "group.F", "light.internet",
   "security.port", "st.na", "tools.traceroute"}

nbNO == Untranslated \cup
  {"check.wan-tcp", "col.type", "group.I", "light.gateway", "nav.diagnose",
   "nav.sys", "security.binding", "security.port", "security.tunnel",
   "snapshots.id", "tools.traceroute"}

svSE == Untranslated \cup
  {"about.version", "btn.guide", "check.wan-tcp", "group.F", "group.I",
   "light.gateway", "light.internet", "nav.sys", "security.port",
   "security.risk", "security.tunnel", "settings.version", "snapshots.id",
   "st.na", "tools.traceroute"}

nlNL == Untranslated \cup
  {"check.proxy-firewall", "check.wan-tcp", "col.iface", "col.type",
   "dash.nics", "diag.score", "group.C", "group.F", "group.I",
   "history.score", "light.gateway", "light.internet", "nav.dashboard",
   "nav.diagnose", "nav.interfaces", "nav.monitor", "nav.snapshots",
   "nav.tools", "security.binding", "security.firewall", "security.service",
   "security.tunnel", "snapshots.id", "tools.conflict", "tools.consistent",
   "tools.open", "tools.traceroute"}

csCZ == Untranslated \cup
  {"check.proxy-firewall", "group.F", "light.internet", "security.firewall",
   "security.port", "snapshots.id", "st.na", "tools.traceroute"}

plPL == Untranslated \cup
  {"group.F", "group.I", "light.internet", "nav.sys", "security.port",
   "snapshots.id", "tools.traceroute"}

ruRU == Untranslated \cup
  {"check.smb-multichannel", "snapshots.id"}

zhCN == Names \cup {"diagmsg.httpCode", "group.B", "group.D", "group.E"} \cup
  {"check.ipv6-dns", "snapshots.id"}

zhHK == Names \cup {"diagmsg.httpCode", "group.B", "group.D", "group.E"} \cup
  {"check.ipv6-dns", "snapshots.id"}

jaJP == Untranslated \cup
  {"check.ipv6-dns", "check.wan-ping", "check.wan-tcp", "snapshots.id",
   "tools.traceroute"}

koKR == Untranslated \cup
  {"check.ipv6-dns", "check.wan-ping", "check.wan-tcp", "snapshots.id"}

viVN == Untranslated \cup
  {"group.F", "light.internet", "snapshots.id", "st.na", "tools.traceroute"}

idID == Untranslated \cup
  {"check.proxy-firewall", "col.mode", "group.F", "group.I", "light.gateway",
   "light.internet", "security.firewall", "security.port", "security.tunnel",
   "snapshots.id", "snapshots.sourceManual", "tools.traceroute"}

thTH == Untranslated \cup
  {"snapshots.id"}

arSA == Names \cup {"diagmsg.httpCode"}

heIL == Names \cup {"diagmsg.httpCode"}

----------------------------------------------------------------------------
\* LOCALES, in their order, with their packs.
Locales == <<<<"en", "us">>, <<"de", "de">>, <<"fr", "fr">>, <<"es",
             "es">>, <<"it", "it">>, <<"tr", "tr">>, <<"pt", "pt">>,
             <<"hu", "hu">>, <<"nb", "no">>, <<"sv", "se">>, <<"nl",
             "nl">>, <<"cs", "cz">>, <<"pl", "pl">>, <<"ru", "ru">>,
             <<"zh", "cn">>, <<"zh", "hk">>, <<"ja", "jp">>, <<"ko",
             "kr">>, <<"vi", "vn">>, <<"id", "id">>, <<"th", "th">>,
             <<"ar", "sa">>, <<"he", "il">>>>

Packs == <<{}, deDE, frFR, esES, itIT, trTR, ptPT, huHU, nbNO, svSE,
           nlNL, csCZ, plPL, ruRU, zhCN, zhHK, jaJP, koKR, viVN, idID,
           thTH, arSA, heIL>>

Languages == {Locales[i] : i \in DOMAIN Locales}

\* The keys of a language whose text is the English one.
InEnglish(lang) == Packs[CHOOSE i \in DOMAIN Locales : Locales[i] = lang]
=============================================================================
