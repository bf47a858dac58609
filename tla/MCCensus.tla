------------------------------ MODULE MCCensus ------------------------------
(***************************************************************************)
(* A host with one directory per family, or one program, which deviates     *)
(* from a clean one in one respect at a time.                               *)
(***************************************************************************)
EXTENDS Census

SystemD == <<"/etc/systemd/system">>
CronD == <<"/etc/cron.d">>
Daily == <<"/etc/cron.daily">>
Atq == <<"atq">>
Docker == <<"docker ps">>
Projects == <<"/opt/compose">>
Bin == <<"/usr/local/bin">>
Backrest == <<"/etc/pgbackrest">>
Crontab == <<"/etc/crontab">>
Anacrontab == <<"/etc/anacrontab">>
Runner == <<"/etc/gitlab-runner/config.toml">>
Environment == <<"/etc/environment">>
EnvFile == <<"/etc/app.env">>
Pgpass == <<"/root/.pgpass">>

MCKindOf ==
    "app.service" :> "service" @@ "b.service" :> "service" @@ "app.timer" :> "timer" @@
    "app.service.d" :> "dropins" @@ "10.conf" :> "conf" @@ "job" :> "job" @@
    "job~" :> "backup" @@ "7" :> "job" @@ "c1" :> "container" @@ "c2" :> "container" @@
    "c3" :> "container" @@ "erp" :> "project" @@ "compose.yml" :> "compose" @@
    ".env" :> "env" @@ "dump.sh" :> "script" @@ "main.conf" :> "conf"

MCDirectories ==
    [f \in Families |->
        CASE f \in {"systemd_service", "systemd_timer", "systemd_dropin"} -> <<SystemD>>
          [] f = "cron" -> <<CronD>>
          [] f = "anacron" -> <<Daily>>
          [] f = "at" -> <<Atq>>
          [] f = "docker" -> <<Docker>>
          [] f = "compose" -> <<Projects>>
          [] f = "ci_runner" -> <<>>
          [] f = "script" -> <<Bin>>
          [] f = "agent" -> <<Backrest>>]
MCNamed ==
    [f \in Families |->
        CASE f = "cron" -> <<Crontab>>
          [] f = "anacron" -> <<Anacrontab>>
          [] f = "ci_runner" -> <<Runner>>
          [] f = "script" -> <<Environment>>
          [] OTHER -> <<>>]

Blank == [dsns |-> 0, malformed |-> 0, piecemeal |-> FALSE, service |-> FALSE,
          badport |-> FALSE, variable |-> FALSE, psql |-> FALSE, refers |-> <<>>, size |-> 1]
Dsn == [Blank EXCEPT !.dsns = 1]
TwoDsns == [Blank EXCEPT !.dsns = 2, !.size = 9]
Malformed == [Blank EXCEPT !.malformed = 1]
Piecemeal == [Blank EXCEPT !.piecemeal = TRUE]
Service == [Piecemeal EXCEPT !.service = TRUE]
BadPort == [Piecemeal EXCEPT !.badport = TRUE]
Variable == [Blank EXCEPT !.variable = TRUE]
Psql == [Blank EXCEPT !.psql = TRUE]
Referring == [Blank EXCEPT !.refers = <<EnvFile>>]

Holds(text) == [fails |-> "no", text |-> text]
Refuses(code) == [fails |-> code, text |-> Blank]

MCPlaces ==
    {SystemD, CronD, Daily, Atq, Docker, Projects, Bin, Backrest, Crontab, Anacrontab,
     Runner, Environment, EnvFile, Pgpass}
      \cup {Append(SystemD, name) : name \in {"app.service", "b.service", "app.timer",
                                             "app.service.d"}}
      \cup {Append(SystemD, "app.service.d") \o <<"10.conf">>}
      \cup {Append(CronD, name) : name \in {"job", "job~"}}
      \cup {Append(Daily, "job"), Append(Atq, "7")}
      \cup {Append(Docker, name) : name \in {"c1", "c2", "c3"}}
      \cup {Append(Projects, "erp"), Projects \o <<"erp", "compose.yml">>,
            Projects \o <<"erp", ".env">>}
      \cup {Append(Bin, "dump.sh"), Append(Backrest, "main.conf")}

\* A clean host: its directories and queues, a unit, and its drop-in directory.
Clean ==
    [p \in MCPlaces |->
        IF p \in {SystemD, CronD, Atq, Docker, Projects, Bin, Append(Projects, "erp"),
                  Append(SystemD, "app.service"), Append(SystemD, "app.service.d")}
        THEN Holds(Blank) ELSE Refuses("missing")]

With(p, node) == [Clean EXCEPT ![p] = node]
Put(p, text) == With(p, Holds(text))

App == Append(SystemD, "app.service")
DropIn == SystemD \o <<"app.service.d", "10.conf">>

MCHosts ==
    {Clean,
     Put(App, Dsn), Put(App, Variable), Put(App, Service), With(App, Refuses("denied")),
     [With(App, Holds(Referring)) EXCEPT ![EnvFile] = Holds(Dsn)],
     Put(App, Referring),
     Put(Append(SystemD, "app.timer"), Piecemeal),
     [Put(Append(SystemD, "app.timer"), Blank) EXCEPT ![Append(SystemD, "b.service")] = Holds(Dsn)],
     Put(DropIn, Dsn), With(DropIn, Refuses("timeout")),
     Put(Append(SystemD, "b.service"), TwoDsns),
     Put(Append(CronD, "job"), Dsn), Put(Append(CronD, "job~"), Dsn), Put(Crontab, Variable),
     With(Crontab, Refuses("EIO")), [Put(Crontab, Dsn) EXCEPT ![CronD] = Refuses("denied"),
                               ![Append(CronD, "job")] = Holds(Dsn)],
     [Put(Daily, Blank) EXCEPT ![Append(Daily, "job")] = Holds(Malformed)],
     Put(Append(Atq, "7"), BadPort), With(Atq, Refuses("unsupported")),
     [Put(Append(Docker, "c1"), Dsn) EXCEPT ![Append(Docker, "c2")] = Holds(Dsn),
                                           ![Append(Docker, "c3")] = Holds(Dsn)],
     Put(Projects \o <<"erp", ".env">>, Piecemeal),
     Put(Runner, Blank),
     Put(Environment, Dsn), Put(Append(Bin, "dump.sh"), Psql),
     [Put(Backrest, Blank) EXCEPT ![Append(Backrest, "main.conf")] = Holds(Dsn)],
     Put(Pgpass, Blank), With(Pgpass, Refuses("denied"))}

\* A host whose drop-in starts a program a variable names.
MCSilentHosts == {Clean, Put(DropIn, Variable)}

MCDegrading == <<Pgpass>>

MCSkips == {{}, {"docker"}}
=============================================================================
