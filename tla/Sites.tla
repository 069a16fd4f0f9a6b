------------------------------- MODULE Sites -------------------------------
(***************************************************************************)
(* The sites measured in "P1 互联网协议 传输性能": filter_sites.py picks    *)
(* them from a list, measure.py measures what was picked.  Both are        *)
(* functions of how the names and servers behave while they run.  Times    *)
(* are counted in ticks; TICKS of them are a second.                       *)
(***************************************************************************)
EXTENDS Integers, Sequences, FiniteSets

CONSTANTS
  TICKS,            \* ticks in a second
  TARGET_COUNT,     \* how many sites are wanted
  SITE_TIMEOUT,     \* seconds for testing a site
  CONNECT_TIMEOUT,  \* seconds for connecting when a site is tested
  TIMEOUT,          \* seconds for connecting when it is measured
  MAX_TIME,         \* seconds for measuring it over one scheme
  NoUrl             \* no scheme worked

ASSUME TimeAssumption ==
  {TICKS, TARGET_COUNT, SITE_TIMEOUT, CONNECT_TIMEOUT, TIMEOUT, MAX_TIME} \subseteq Nat \ {0}

\* Measuring is more patient than testing.
ASSUME LimitAssumption == CONNECT_TIMEOUT <= TIMEOUT /\ SITE_TIMEOUT <= MAX_TIME

ASSUME UrlAssumption == NoUrl \notin {"https", "http"}

\* How a server answers curl over one scheme, and after how long; a name that
\* is looked up; a line of the list, which may have no name.
Server == [ok : BOOLEAN, connects : Nat, takes : Nat]
Site == [named : BOOLEAN, resolves : BOOLEAN, dns : Nat, https : Server, http : Server]

-----------------------------------------------------------------------------
(***************************************************************************)
(* filter_sites.py.                                                        *)
(***************************************************************************)

\* curl with --connect-timeout and --max-time: whether it exits with 0, and
\* how long it runs.
curl(server, connect, max) ==
  LET limit == IF server.connects > connect /\ connect < max THEN connect ELSE max
      late == server.connects > connect \/ server.takes > max
  IN  [ok |-> server.ok /\ ~late,
       takes |-> IF late \/ server.takes > limit THEN limit ELSE server.takes]

\* Mutant of MaxTime: every scheme gets the time of a whole site.
WholeTime(remaining) == SITE_TIMEOUT * TICKS

\* Whole seconds, but not fewer than one.
MaxTime(remaining) == IF remaining < TICKS THEN TICKS ELSE (remaining \div TICKS) * TICKS

\* Mutant of CanAccess: the exit code of curl is not looked at.
CanAccessAnyhow(site, remaining) ==
  [curl(site.https, CONNECT_TIMEOUT * TICKS, MaxTime(remaining)) EXCEPT !.ok = TRUE]

\* can_access returns in the first pass over the schemes: http is never tried.
\* The limit of subprocess.run, a second more than remaining, is behind curl's.
CanAccess(site, remaining) ==
  curl(site.https, CONNECT_TIMEOUT * TICKS, MaxTime(remaining))

\* gethostbyname is not bound by socket.setdefaulttimeout.
Remaining(site) == SITE_TIMEOUT * TICKS - site.dns

\* Mutant of ValidSite: a name that is found in time is enough.
ValidName(site) == [ok |-> site.resolves /\ Remaining(site) > 0, takes |-> site.dns]

ValidSite(site) ==
  IF site.resolves /\ Remaining(site) > 0
  THEN LET access == CanAccess(site, Remaining(site))
       IN  [ok |-> access.ok, takes |-> site.dns + access.takes]
  ELSE [ok |-> FALSE, takes |-> site.dns]

\* main leaves its loop when it has saved enough.
WantsMore(saved) == Len(saved) < TARGET_COUNT

\* The places in the list of what is written to sites.txt.
Saved(list) ==
  LET after[n \in 0..Len(list)] ==
        IF n = 0 THEN <<>>
        ELSE IF WantsMore(after[n - 1]) /\ list[n].named /\ ValidSite(list[n]).ok
             THEN Append(after[n - 1], n)
             ELSE after[n - 1]
  IN  after[Len(list)]

-----------------------------------------------------------------------------
(***************************************************************************)
(* measure.py.                                                             *)
(***************************************************************************)

\* A scheme that took no time at all is not believed.
Measures(server) ==
  LET run == curl(server, TIMEOUT * TICKS, MAX_TIME * TICKS)
  IN  run.ok /\ run.takes > 0

\* The scheme that measure_curl measured, https before http.
Url(site) ==
  IF site.resolves /\ Measures(site.https) THEN "https"
  ELSE IF site.resolves /\ Measures(site.http) THEN "http" ELSE NoUrl

\* A row of results.csv; without a scheme it has no times.
Row(rank, site) ==
  LET url == Url(site)
      total == IF url = NoUrl THEN 0 ELSE site[url].takes
  IN  [rank |-> rank, resolved |-> site.resolves, url |-> url, total |-> total]

Results(list) ==
  [rank \in 1..Len(Saved(list)) |-> Row(rank, list[Saved(list)[rank]])]

-----------------------------------------------------------------------------
(***************************************************************************)
(* What the two programs are used for.                                     *)
(***************************************************************************)

\* A site that answers over one of the schemes, within the limits of a test and
\* less than the second more that their rounding can make.
AnswersInTime(site) ==
  /\ site.named /\ site.resolves
  /\ \E server \in {site.https, site.http} :
       /\ server.ok
       /\ server.connects <= CONNECT_TIMEOUT * TICKS
       /\ site.dns + server.takes < (SITE_TIMEOUT + 1) * TICKS

\* A site that answers over https with more than a second to spare.
Quick(site) ==
  /\ site.named /\ site.resolves /\ site.https.ok
  /\ site.https.connects <= CONNECT_TIMEOUT * TICKS
  /\ site.dns + site.https.takes <= (SITE_TIMEOUT - 1) * TICKS

\* What is saved are sites of the list that answer in time, each once and in its
\* order, until there are enough: of those that are quick over https none is
\* passed over.
FirstAreSaved(list) ==
  LET saved == Saved(list)
      places == {saved[k] : k \in DOMAIN saved}
  IN  /\ Len(saved) <= TARGET_COUNT
      /\ \A p \in places : p \in DOMAIN list /\ AnswersInTime(list[p])
      /\ \A j, k \in DOMAIN saved : j < k => saved[j] < saved[k]
      /\ \A i \in DOMAIN list \ places :
           Quick(list[i]) => Len(saved) = TARGET_COUNT /\ \A p \in places : p < i

\* However the three limits are rounded, testing a site takes less than a
\* second more than SITE_TIMEOUT, unless the lookup of its name does.
TestTakesNoLonger(site) ==
  ValidSite(site).takes < (SITE_TIMEOUT + 1) * TICKS \/ ValidSite(site).takes = site.dns

\* Whatever is saved is measured: as long as the network stays as it is, every
\* row has a scheme and a total, within the limit of measure.py.
SavedAreMeasured(list) ==
  \A row \in {Results(list)[k] : k \in 1..Len(Saved(list))} :
    /\ row.resolved /\ row.url # NoUrl
    /\ row.total \in 1..MAX_TIME * TICKS
=============================================================================
