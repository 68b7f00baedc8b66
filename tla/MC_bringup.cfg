SPECIFICATION MainFairSpec
CONSTANTS
 own=own boot=boot q1=q1 s1=s1 s2=s2 s3=s3
 None=None
 Callers={own,boot,q1}
 Own=own Boot=boot TipQueries=1 Asks <- OneClient
 Sockets={s1,s2,s3}
 MayStop=FALSE
 MaxMishaps=1
 Main=main Activations={a1,a2}
 Modes={"cardano-node","blockfrost"}
INVARIANTS MainTypeOK NetworkBeforeUse AttachedWhenUp CrashesOnce
PROPERTIES EnsuringSettles BootsInTheEnd HeadsKnownInTheEnd
