\* Two calls at a time about one account, or about an account that two of them create.
CONSTANTS
  c1 = c1  c2 = c2  r1 = r1  r2 = r2
  admin = admin  clerk = clerk  smoke = smoke
  p1 = p1  p2 = p2  s1 = s1  s2 = s2  s3 = s3  s4 = s4  s5 = s5  s6 = s6
  t1 = t1  t2 = t2  t3 = t3
  Null = Null
  Callers = {c1, c2}
  Runs = {}
  Usernames = {admin, smoke}
  Smoke = smoke
  Admins = {admin}
  Staff = {}
  Provisioned = {FALSE}
  Passwords = {p1, p2}
  Salts = {s1, s2, s3, s4, s5, s6}
  Tokens = {t1, t2, t3}
  Workload = {"login", "logout", "createUser", "changeOwn", "reset"}
SYMMETRY AccountSymmetry
SPECIFICATION CallsSpec
INVARIANTS
  AccountsWellTyped
  LoginsAreAudited
PROPERTIES
  SessionsEndForAReason
  LoginsKeepPasswords
  ImplementsAuthority
